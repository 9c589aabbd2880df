SPECIFICATION TraceSpec
CONSTANTS
  Inputs <- OneInput
  PowerUpRegs <- SomeRegs
  Programs <- ClaSza
PROPERTY ClaClears
CONSTRAINT OneOperation
