CONSTANTS
  Harts = {h0, h1}
  Me = h0
  BlockNos = {b1, b2}
  Contents = {v1, v2}
SPECIFICATION FairRw
INVARIANTS NoSelfDeadlock
PROPERTIES CompleteOnReturn IrqServed
