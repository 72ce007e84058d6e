SPECIFICATION Spec
CONSTANTS
  Cos = {1, 2}
  MaxCalls = 3
  Lens = {2}
  Socks = {1, 2}
  OptionSets <- MCOptionSets
 
INVARIANT NoOrphan
PROPERTY CallsReturn
CHECK_DEADLOCK FALSE
