CONSTANTS
  Harts = {h1, h2, h3}
  AllocBegin = 1
  KERN_PAGES = 3
  MemEnd = 5
  TotalEnd = 5
  RefMod = 256
  MaxDouble = 2
SPECIFICATION Spec
SYMMETRY HartSymmetry
INVARIANTS FreeLists OneHolder PanicsJustified
PROPERTY HeldUntouched
