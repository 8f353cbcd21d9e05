CONSTANTS
  Harts = {h0, h1}
  Me = h0
  BlockNos = {b1}
  Contents = {v1}
SPECIFICATION FairRw
PROPERTY RwReturns
