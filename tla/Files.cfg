CONSTANTS
  Names = {a, b}
  MaxDepth = 2
  MaxNodes = 4
  MaxOpenDirs = 3
  FileNames = {f, g}
  FileObjects = {s1, s2}
  MaxFds = 2
  MaxSize = 2
  Archives <- MCArchives
  Paths <- MCPaths
  EntrySize = 2
  Piece = 1
  ZipHandles = {h1, h2}
  MaxZipFiles = 3
  MaxAttempts = 3
  Files <- MCPlayed
  Keys = {1, 3}
  Chunks = 2
  ChunkSamples = 2
  MaxCount = 2
  MaxPosition = 6
  Songs <- MCSongs
  MaxTracks = 3
  Bytes = {0, 1}
  CacheSize = 2
  Capacity = 3
  MaxRequest = 3
  SeekRule = "outside"
  ReadPastEnd = FALSE
INIT MCInit
NEXT MCNext
CHECK_DEADLOCK FALSE
INVARIANTS
  DeleteIsExact OwnsItsDescriptor
  HandleTracksFile ListsWhatIsBelow 
  EachPacketOnce SamplesInOrder
  PlaysTheTrack
  ReadsTheStream WritesReachTheStream
