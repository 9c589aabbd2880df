SPECIFICATION TraceSpec
CONSTANTS
  Inputs <- OneInput
  PowerUpRegs <- SomeRegs
  Programs <- JmpZeroPage
PROPERTY JumpLoadsEA
CONSTRAINT OneOperation
