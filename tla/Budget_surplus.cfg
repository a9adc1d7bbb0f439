\* Calendar months and one user: the renewal on the second day of a month.
SPECIFICATION Spec
CONSTANTS
  NumMonths <- ShortMonths
  FirstDay <- ShortFirstDay
  ana = ana
  ben = ben
  Users = {ana}
  Access <- Alone
  Expenses = {e1}
  Incomes = {i1}
  Requests = {r1}
  CycleChoices <- Calendar
  MonthlyIncome = 1
  StartDay = 10
  LastDay = 12
  MaxCarryover = 2
PROPERTY SurplusOfClosedPeriod
CHECK_DEADLOCK FALSE
