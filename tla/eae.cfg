SPECIFICATION RSpec
CONSTANTS
  W = 3
  Half = 4
  Weight <- Powers
INVARIANTS RTypeOK LockStep MultiplyLoop DivideLoop
PROPERTY ResultsAnswerJob
CONSTRAINT ZeroBefore
