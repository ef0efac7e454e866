SPECIFICATION Spec
CONSTANTS
  Modules <- AllModules
  Capacity = 3
INVARIANTS
  BranchesLand
  StackTyped
  InstCurrent
  HandlersRight
CHECK_DEADLOCK FALSE
