CONSTANTS
  FbmapW = 1
  BmapW = 3
  Pow2W = 2
  Sizes = {2}
  Most = 8
  Bound = 4
  MaxChanges = 1
  Byte = {1}
  Capacity = 8
  Lengths = {1}
  None = None
SPECIFICATION MCSpec
INVARIANT LoopsExact
CHECK_DEADLOCK FALSE
