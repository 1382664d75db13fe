SPECIFICATION CacheSpec
CONSTANTS
  Bytes = {0, 1}
  CacheSize = 2
  Capacity = 3
  MaxRequest = 3
  SeekRule = "any"
  ReadPastEnd = FALSE
CHECK_DEADLOCK FALSE
INVARIANTS ReadsTheStream
