SPECIFICATION HBoardSpec
CONSTANTS
  Inputs <- NoInputs
  PowerUpRegs <- ZeroRegs
  Programs <- EmptyOrShort
  Divider = 5
  Users = {"operator", "simulation_tb", "veloce_top"}
  Files <- SomeFiles
  Settings <- TwoSettings
  Undriven <- Unset
  Reach <- FourButtons
  Moves = 5
  Fuel = 40
CONSTRAINT NearProgram
INVARIANTS SameResult
PROPERTIES LoadedImage RunsToHalt AtMostOnce CalmPressAnswered ImplementsPDP8
