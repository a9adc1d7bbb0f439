\* Friday, Saturday and Monday; two handlers.  The days end, so the system may stop.
SPECIFICATION Spec
CONSTANTS
  StartDay = 2
  LastDay = 3
  Weekend = {2}
  Requests = {r1, r2}
INVARIANTS ExactIsOfTheDay OneFlightPerDay IInv
PROPERTY StoredNeverGoesBack
CHECK_DEADLOCK FALSE
