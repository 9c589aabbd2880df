SPECIFICATION HFairSpec
CONSTANTS
  Inputs <- RunningInputs
  PowerUpRegs <- ZeroRegs
  Programs <- LoopPrograms
INVARIANTS ReadAnswers WriteLands FetchedInOrder EaeAnswers
PROPERTIES ImplementsPDP8 NoStaleAnswer EaeFresh ReturnsToIdle
