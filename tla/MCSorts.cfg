CONSTANTS
  Calls <- ListCalls
  ArrayCalls <- AllArrayCalls
  MaxHeads = 3
  Keys = {1, 2, 3}
  Most = 5
  Threshold = 2
  IntBits = 3
  Null = Null
  None = None
SPECIFICATION Spec
INVARIANTS SortedStably NothingLost RunsInOrder StackShallow CopiesHarmless SearchSound
PROPERTY SortEnds
CHECK_DEADLOCK FALSE
