CONSTANTS
  Kinds = {"falloc", "palloc", "lalloc", "lvstr"}
  ChunkNr = 8
  ChunkPerBlock = 3
  ChunkSize = 20
  BlockNr = 3
  ChunkSz <- MCChunkSz
  HdrSz <- MCHdrSz
  BlockAl <- MCBlockAl
  BlockAddrs <- MCBlockAddrs
  PreNr = 3
  Null = 0
  Word = 8
  HeapAddrs = {1000}
  MemAddrs = {2000}
  ChunkSizes = {16, 12}
  ApiAssert = TRUE
  Places = {k1, k2, k3, k4}
  Lvs = {v1, v2}
  StringPlaces = {s1, s2, s3}
  Lengths = {1, 2, 3}
  SizeMax = 7
  NoString = NoString
SPECIFICATION MCSpec
INVARIANTS TypeOK BlocksOwned CountersAgree FreeListSound RoomFirst HeldMemoryValid
INVARIANTS FreeChainSound NothingLost StringsOwned
PROPERTIES PoolSpec PrePoolSpec CallsReturn
