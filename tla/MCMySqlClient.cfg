CONSTANTS
  Cos = {c1, c2}
  NoCo = NoCo
  MaxCalls = 3
  MaxPings = 1
SPECIFICATION FairSpec
INVARIANT TypeOK
INVARIANT ResultsFreedOnce
INVARIANT WorkerOpenWhileUsed
INVARIANT KeepAlive
INVARIANT OnlyPingsOutliveTheClient
PROPERTY CallsReturn
