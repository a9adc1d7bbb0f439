\* Two comparisons and requests, two bodies under one key; no symmetry: temporal properties.
\* Ids and the clock run out, so the system may stop.
SPECIFICATION FairSpec
CONSTANTS
  Comparisons = {c1, c2}
  Expenses = {e1, e2}
  Keys = {k1}
  Bodies = {x, y}
  Requests = {r1, r2}
  Ttl = 1
  MaxTime = 2
  NoComparison = NoComparison
  NoExpense = NoExpense
  NoKey = NoKey
  NoBody = NoBody
INVARIANTS OneExpensePerComparison ConvertedHasExpense AnswersAgree IInv
PROPERTIES ImplementsContract ConversionKept ExpiredGoes
CHECK_DEADLOCK FALSE
