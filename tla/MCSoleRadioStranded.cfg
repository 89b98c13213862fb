SPECIFICATION Spec
CONSTANTS
  Port = {p1}
  Daemon = daemon
  Tool = {}
  MaxEnable = 2
  OtherRadio = FALSE
  SurpriseRemoval = FALSE
PROPERTIES
  RepairKeepsRetrying
