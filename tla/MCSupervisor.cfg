CONSTANTS
  Workers = {1, 2}
  MaxPid = 3
SPECIFICATION FairSpec
INVARIANT OneProcessPerWorker
INVARIANT NormalEndIsFinal
INVARIANT NobodyForgotten
PROPERTY ImplementsSupervision
PROPERTY ShutdownCompletes
PROPERTY CrashedComesBack
