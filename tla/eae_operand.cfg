SPECIFICATION TraceSpec
CONSTANTS
  Inputs <- OneInput
  PowerUpRegs <- SomeRegs
  Programs <- Muy
PROPERTY OperandFollows
CONSTRAINT OneOperation
