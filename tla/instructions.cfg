SPECIFICATION TraceSpec
CONSTANTS
  Inputs <- OneInput
  PowerUpRegs <- AllRegs
  Programs <- AllPrograms
CONSTRAINT OneInstruction
PROPERTIES ImplementsPDP8 MemoryTraceAgrees BranchTraceAgrees OpcodeTraceAgrees
