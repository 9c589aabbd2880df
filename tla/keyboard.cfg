SPECIFICATION SimulatorSpec
CONSTANTS
  Keys <- FourKeys
  Images <- PollImages
  Debugging <- Either
INVARIANTS FgetcReturns OrderlyEnd
PROPERTIES ReadInOrder Ends OneMoreKey EnterIsTaken
CHECK_DEADLOCK FALSE
