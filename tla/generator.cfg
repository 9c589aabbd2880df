SPECIFICATION GenSpec
CONSTANTS
  Builds <- AllBuilds
  Garbage <- SomeGarbage
INVARIANTS DecoderAgrees SimulatorAgrees
CHECK_DEADLOCK FALSE
