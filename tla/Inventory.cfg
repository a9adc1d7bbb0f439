\* One product and two branches. The ids and the ledger run out, so the system may stop.
SPECIFICATION MCSpec
CONSTANTS
  Items = {i1}
  Branches = {b1, b2}
  Skus = {}
  Targets = {NoBranch, b1, b2}
  NumRequests = 2
  MaxQuantity = 2
  MaxMovements = 4
  NoItem = NoItem
  NoBranch = NoBranch
  NoSku = NoSku
SYMMETRY Symmetry
INVARIANTS LedgerTotal BranchLedger OversellBounded TransfersPaired IInv
PROPERTIES MovementsImmutable BranchesDeletedEmpty
CHECK_DEADLOCK FALSE
