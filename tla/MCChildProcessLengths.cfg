SPECIFICATION Spec
CONSTANTS
  Cos = {1, 2}
  MaxCalls = 2
  Lens = {128}
  Socks = {}
  OptionSets <- MCOptionSets
INVARIANT MessagesArrive
CHECK_DEADLOCK FALSE
