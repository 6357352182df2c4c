SPECIFICATION Spec
CONSTANTS
  External = External
  MaxAttempts = 2
  MaxSpawns = 3
CHECK_DEADLOCK FALSE
INVARIANT GraceEndsInKill
