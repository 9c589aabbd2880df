SPECIFICATION SimulatorSpec
CONSTANTS
  Keys <- TwoKeys
  Images <- EchoImage
  Debugging <- Never
PROPERTY EchoIsWritten
CHECK_DEADLOCK FALSE
