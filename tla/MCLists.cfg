CONSTANTS
  Heads = {h1, h2}
  Nodes = {n1, n2, n3, n4, n5}
  Bits = 2
  Null = Null
  Wild = Wild
SPECIFICATION Spec
SYMMETRY NodeAndHeadSymmetry
INVARIANTS RingsSound ChainsSound HashChainsSound
