SPECIFICATION FetchSpec
CONSTANTS
  Fetchers = {f1}
  Listed = {"last_known"}
  Total = 2
  Entries = 1
  max_attempts = 2
  MaxDeaths = 0
INVARIANTS ExtractFindsItsZip
CHECK_DEADLOCK FALSE
