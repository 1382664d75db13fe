CONSTANTS
  Characters = {46, 47, 192, 233}
  Variables = {v1, v2}
  MaxCharacters = 3
  MaxSteps = 3
  Objs = {o1, o2}
  Shared = o1
  Null = Null
  Users = {t1, t2}
  Pointers = {p1, p2}
  MaxItems = 2
  MaxOps = 2
  Word = 128
  BlockSize = 2
  PadBlock = 2
  Substreams = {s1, s2}
  Octets = {0, 1}
  Numbers <- MCNumbers
  Junk = 9
  LittleEndian = TRUE
  CompilerSwaps = TRUE
  Contents <- MCContents
  MaxLength = 2
  MaxCalls = 3
  Samples <- MCSamples
  ClientSerializers <- MCClientSerializers
  MaxRecords = 3
  Base = 3
  ValueObjects = {n1}
  ValueNumbers = {0, 2, 5, 100}
  MaxValueCalls = 4
INIT ValuesInit
NEXT ValuesNext
CHECK_DEADLOCK FALSE
INVARIANTS HoldsItsText PathSplits CountsOwners CountsLiveObjects ReadsBack GetsWhatWasSet
PROPERTIES AccessInBounds KeepsToItsWindow IntegerReadsBack
