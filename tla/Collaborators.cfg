\* Two handlers in flight over one guest; the invitations run out.
SPECIFICATION Spec
CONSTANTS
  Owner = owner
  Guests = {g1}
  Requests = {r1, r2}
  MaxRows = 2
INVARIANTS ListedAsStored IInv
PROPERTY LifecycleKept
CHECK_DEADLOCK FALSE
