SPECIFICATION Spec
CONSTANTS
  Cos = {1, 2}
  MaxCalls = 4
  ReadSizes = {1}
  Streams <- MCStreams
  Delim <- MCDelim
INVARIANT TypeOK
PROPERTY ImplementsByteStream
PROPERTY EveryCallEnds
CHECK_DEADLOCK FALSE
