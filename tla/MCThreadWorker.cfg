CONSTANTS
  Reqs = {r1, r2}
  Exit = Exit
  NoReq = NoReq
  MaxWork = 4
SPECIFICATION FairSpec
INVARIANT ExitIsLast
INVARIANT NoLostWakeup
INVARIANT ClosedMeansServed
INVARIANT AbortLosesNoWork
PROPERTY ImplementsWorkQueue
PROPERTY RequestsComplete
PROPERTY CloseFinishes
