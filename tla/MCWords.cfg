CONSTANTS
  FbmapW = 2
  BmapW = 4
  Pow2W = 10
  Sizes = {3, 5}
  Most = 8
  Bound = 5
  MaxChanges = 1
  Byte = {1, 2}
  Capacity = 8
  Lengths = {0, 1, 2, 5, 9}
  None = None
SPECIFICATION MCSpec
INVARIANTS LoopsComplete Pow2UpIsLeast AlignUpperIsLeastOrNull
PROPERTIES BitSetSpec StringSpec
CHECK_DEADLOCK FALSE
