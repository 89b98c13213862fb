SPECIFICATION Spec
CONSTANTS
  R1Arm = 1
  R3Arm = 2
  R2Arm = 3
  R4Arm = 4
  R1Cool = 1
  R2Min = 2
  R3Min = 1
  R4Min = 2
  Quiet = 1
  PostCycle = 1
  Recheck = 1
  StablePolls = 2
  FlapForce = 1
  R3Max = 1
  AbsentAfter = 1
  R1Dead = 2
  R2Dead = 1
  R4Dead = 1
  PassMax = 1
INVARIANTS
  TypeOK
  OneCyclePerEpisode
PROPERTIES
  RungOrder
  FreezeHolds
  LadderClimbs
  RadioHearsAgain
