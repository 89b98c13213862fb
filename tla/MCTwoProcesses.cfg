SPECIFICATION Spec
CONSTANTS
  Port = {p1}
  Daemon = daemon
  Tool = {tool}
  MaxEnable = 2
  OtherRadio = TRUE
  SurpriseRemoval = FALSE
INVARIANTS
  DisableIsJournalled
