SPECIFICATION Spec
CONSTANTS
  Thread = {t1, t2}
  NoThread = none
  DeadSessions = 2
  MaxFails = 3
INVARIANTS
  TypeOK
  IdleIsSilent
PROPERTIES
  ImplementsExclusiveStream
  StopDrains
  StopReturns
  QuitEnds
  StreamReturns
  DeadAudioEscalates
