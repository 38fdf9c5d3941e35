SPECIFICATION FairSpec
CONSTANTS
  Streams <- MCStreams
  BufferSize = 12
INVARIANTS
  TypeOK
  SameVerdict
  IndicesOrdered
PROPERTIES
  Answered
CHECK_DEADLOCK FALSE
