CONSTANTS
  Nr = 6
  None = None
  WordBits = 4
  Elems <- MCElems
  Key <- MCKey
SPECIFICATION Spec
INVARIANTS HeapOrder WeakHeapOrder ShortcutSound NothingLost
PROPERTIES QueueSpec CallsReturn
