\* One handler at a time: a global adjustment against stock a branch still holds.
SPECIFICATION Spec
CONSTANTS
  Items = {i1}
  Branches = {b1}
  Skus = {}
  Targets = {NoBranch}
  NumRequests = 1
  MaxQuantity = 1
  MaxMovements = 3
  NoItem = NoItem
  NoBranch = NoBranch
  NoSku = NoSku
INVARIANTS GlobalStockNeverNegative
CHECK_DEADLOCK FALSE
