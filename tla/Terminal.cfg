SPECIFICATION FairSpec
CONSTANTS
  Conns = {"c1"}
  Teardown = "down"
  RingCap = 1
  ReadBuf = 2
  OutboxCap = 1
  Sizes = {1, 2}
  MaxTerms = 1
  MaxOutput = 3
INVARIANTS
  ReadsAccountForEveryByte
  FeedGapsShow
PROPERTIES
  OutputIsDrained
  CloseEndsTheChild
CHECK_DEADLOCK FALSE
