SPECIFICATION Spec
CONSTANTS
  MaxReq = 2
  MaxWrites = 1
  Sizes <- MCSizes
  HookSets <- MCHookSets
INVARIANT LivesWhileUsed
INVARIANT AnswersNotCutOff
INVARIANT InOrder
CHECK_DEADLOCK FALSE
