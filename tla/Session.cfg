SPECIFICATION FairSpec
CONSTANTS
  MaxRequests = 3
  MaxStreams = 2
  MaxChunks = 2
INVARIANTS TypeOK RepliesMatch NothingLeftOver LobIsWhatWasSent
PROPERTIES ImplementsCalls SessionEnds CallsReturn
CHECK_DEADLOCK FALSE
