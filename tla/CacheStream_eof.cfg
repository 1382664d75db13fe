SPECIFICATION CacheFairSpec
CONSTANTS
  Bytes = {0, 1}
  CacheSize = 2
  Capacity = 3
  MaxRequest = 3
  SeekRule = "none"
  ReadPastEnd = TRUE
CHECK_DEADLOCK FALSE
PROPERTIES ReadReturns
