CONSTANTS
  Cos = {c1, c2}
  NoCo = NoCo
  MaxOps = 2
  MaxDepth = 2
  MaxSteps = 3
SPECIFICATION FairSpec
INVARIANT TypeOK
INVARIANT WakesOwnYield
INVARIANT ClosesOnItsOwn
INVARIANT ForgottenYieldReported
INVARIANT AfterSuccess
PROPERTY NestedFailureReachesParent
PROPERTY EveryCoroutineEnds
