SPECIFICATION Spec
CONSTANTS
  NProfiles = 2
  MaxAttempts = 1
  MarkerReadFails = FALSE
PROPERTIES
  EveryPollRepays
