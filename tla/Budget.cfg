\* Three days of short months, on each night of which a period of the calendar or of the cutoff
\* turns.  The days end, so the system may stop.
SPECIFICATION MCSpec
CONSTANTS
  NumMonths <- ShortMonths
  FirstDay <- ShortFirstDay
  ana = ana
  ben = ben
  Users = {ana, ben}
  Access <- Shared
  Expenses = {e1}
  Incomes = {i1}
  Requests = {r1, r2}
  CycleChoices <- CalendarOrCutoff
  MonthlyIncome = 1
  StartDay = 9
  LastDay = 11
  MaxCarryover = 3
SYMMETRY Symmetry
INVARIANTS OpenExpensesListed SurplusOncePerClose
CHECK_DEADLOCK FALSE
