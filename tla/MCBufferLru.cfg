CONSTANTS
  N = 3
  Blocks = {0, k1, k2, k3}
  Values = {v1, v2}
  Holders = {p, q}
  MaxHeld = 2
SPECIFICATION Spec
SYMMETRY Symmetries
INVARIANTS OneCopy Coherent ListsMatchRefs OwnKeepsBlock
PROPERTY ImplementsCache
