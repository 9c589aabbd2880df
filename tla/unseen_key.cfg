SPECIFICATION SimulatorSpec
CONSTANTS
  Keys <- TwoKeys
  Images <- PollImage
  Debugging <- Never
PROPERTY KeysAreStored
CHECK_DEADLOCK FALSE
