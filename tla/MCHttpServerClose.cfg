SPECIFICATION Spec
CONSTANTS
  MaxReq = 2
  MaxWrites = 1
  Sizes <- MCSizes
  HookSets <- MCHookSets
INVARIANT DestroyedWhenUnused
CHECK_DEADLOCK FALSE
