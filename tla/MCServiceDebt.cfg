SPECIFICATION Spec
CONSTANTS
  NProfiles = 2
  MaxAttempts = 2
  MarkerReadFails = FALSE
INVARIANTS
  TypeOK
  MarkerCoversDebt
  DebtOutranksLadder
  UntouchedVerdictOwesNothing
PROPERTIES
  DebtIsRepaid
  ImplementsUndoJournal
  PassRunsOut
