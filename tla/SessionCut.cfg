SPECIFICATION FairSpec
CONSTANTS
  MaxRequests = 3
  MaxStreams = 2
  MaxChunks = 1
INVARIANTS StreamsHoldStreamData
CHECK_DEADLOCK FALSE
