SPECIFICATION Spec
CONSTANTS
  Profiles <- AllProfiles
INVARIANTS
  Sound
  LimitsOK
  NestingCovered
  RefFuncsDeclared
CHECK_DEADLOCK FALSE
