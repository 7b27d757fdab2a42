CONSTANTS
  Nr = 3
  None = None
  WordBits = 4
  Elems <- MCElems
  Key <- MCKey
SPECIFICATION Spec
INVARIANT RootHasNoAncestor
