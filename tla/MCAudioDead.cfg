SPECIFICATION Spec
CONSTANTS
  Thread = {t1, t2}
  NoThread = none
  DeadSessions = 2
  MaxFails = 3
PROPERTIES
  AudioDeadMeansSilent
