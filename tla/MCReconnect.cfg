SPECIFICATION Spec
CONSTANTS
  Socket = {s1, s2}
  NoSocket = none
  Poll = 1
  Idle = 2
  ResumeDelay = 1
  Debounce = 2
  Unpark = 2
  Echo = 2
  Cadence = 2
  Settle = 1
  ToggleMin = 2
  ToggleMax = 3
  Retry = 1
  CallMax = 1
  StablePolls = 2
INVARIANTS
  TypeOK
  PollsKeepComing
  NoSocketLeaks
  HoldIsFresh
  QuitIsPrompt
PROPERTIES
  ToggleSpacing
  SettleProtects
  HoldIsKept
  QuitLeadsOut
  ShutdownCompletes
\* The process ends: main returns.
CHECK_DEADLOCK FALSE
