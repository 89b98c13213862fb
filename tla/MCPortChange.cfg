SPECIFICATION Spec
CONSTANTS
  Port = {p1, p2}
  Daemon = daemon
  Tool = {}
  MaxEnable = 2
  OtherRadio = TRUE
  SurpriseRemoval = FALSE
INVARIANTS
  DisableIsJournalled
