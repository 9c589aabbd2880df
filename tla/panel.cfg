SPECIFICATION HSpec
CONSTANTS
  Inputs <- PanelInputs
  PowerUpRegs <- PanelRegs
  Programs <- PanelPrograms
CONSTRAINT NearSwitches
INVARIANTS TypeOK Handshake WriteLands
PROPERTIES ImplementsPDP8 NoStaleAnswer
