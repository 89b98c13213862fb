SPECIFICATION Spec
CONSTANTS
  Port = {p1}
  Daemon = daemon
  Tool = {tool}
  MaxEnable = 1
  OtherRadio = TRUE
  SurpriseRemoval = TRUE
PROPERTIES
  JournalSettles
  WorkRunsOut
