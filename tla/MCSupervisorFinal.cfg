CONSTANTS
  Workers = {1}
  MaxPid = 2
SPECIFICATION Spec
INVARIANT OnlyNormalEndIsFinal
