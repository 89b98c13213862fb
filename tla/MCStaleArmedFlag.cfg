SPECIFICATION Spec
CONSTANTS
  Port = {p1}
  Daemon = daemon
  Tool = {}
  MaxEnable = 2
  OtherRadio = TRUE
  SurpriseRemoval = FALSE
INVARIANTS
  LadderBlockedByJournal
