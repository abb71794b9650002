SPECIFICATION FairSpec
CONSTANTS
  World = {"redirect", "kv", "sheets"}
  Writer = {w1, w2}
  Reader = {r1}
  Pump = {p1, p2}
  Start <- MCStart
  MaxBatch = 2
  PageLimit = 1
  MaxRows = 3
  MaxErrors = 1
CHECK_DEADLOCK FALSE
INVARIANTS Delivery EndedComplete PagesContiguous LastPageComplete
PROPERTIES ReadersEnd
