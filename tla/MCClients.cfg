SPECIFICATION Spec
CONSTANTS
  Cos = {1, 2}
  MaxCalls = 4
  MaxObjects = 3
  MaxRows = 1
  MaxContexts = 3
  MaxRequests = 2
  Urls <- MCUrls
INVARIANT ResumesOnce
INVARIANT NobodyForgotten
INVARIANT UsedWhileAlive
PROPERTY ForgottenForGood
PROPERTY CallsReturn
CHECK_DEADLOCK FALSE
