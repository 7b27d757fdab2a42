CONSTANTS
  Kinds = {"pprheap", "dprheap", "hprheap", "drpheap", "dbnheap", "wide"}
  Nodes = {n1, n2, n3, n4, n5}
  Heaps = {h1, h2}
  Keys = {1, 2}
  Nr = 5
  m1 = m1 m2 = m2 m3 = m3 m4 = m4 m5 = m5 m6 = m6 m7 = m7 m8 = m8
  Buckets = 4
  None = None
  Plug = Plug
  Stack = Stack
  AssertIntern = TRUE
SPECIFICATION MCSpec
SYMMETRY NodeAndHeapSymmetry
INVARIANTS TreesSound HeapOrder NothingLost RanksSound NoTreeLost
PROPERTIES HeapsSpec PassesAdvance
