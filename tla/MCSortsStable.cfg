CONSTANTS
  Calls <- ListCalls
  ArrayCalls <- MergeCalls
  MaxHeads = 3
  Keys = {1, 2}
  Most = 3
  Threshold = 2
  IntBits = 2
  Null = Null
  None = None
SPECIFICATION Spec
INVARIANT MergeStable
CHECK_DEADLOCK FALSE
