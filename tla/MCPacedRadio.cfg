SPECIFICATION PacedSpec
CONSTANTS
  Port = {p1, p2}
  Daemon = daemon
  Tool = {}
  MaxEnable = 2
  OtherRadio = TRUE
  SurpriseRemoval = TRUE
  R2Window = 3
  R2Max = 2
  R2Cooldown = 3
INVARIANTS
  PacedTypeOK
  DisableIsJournalled
  HubCycleSparesOurDisable
  UsbCycleStormBound
PROPERTIES
  ImplementsUndoJournal
