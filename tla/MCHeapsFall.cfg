CONSTANTS
  Kinds = {"drpheap"}
  Nodes = {1, 2, 3, 4, 5, 6, 7, 8, 9}
  Heaps = {h1}
  Keys = {1, 2, 3, 4}
  Nr = 9
  m1 = m1 m2 = m2 m3 = m3 m4 = m4 m5 = m5 m6 = m6 m7 = m7 m8 = m8
  Buckets = 8
  None = None
  Plug = Plug
  Stack = Stack
  AssertIntern = TRUE
SPECIFICATION ScriptSpec
INVARIANT RanksOnlyFall
CHECK_DEADLOCK FALSE
