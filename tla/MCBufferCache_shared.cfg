CONSTANTS
  N = 2
  Blocks = {0, 1, 2}
  Values = {v1}
  Holders = {p, q}
  MaxHeld = 2
SPECIFICATION Spec
INVARIANT HeldKeepsBlock
