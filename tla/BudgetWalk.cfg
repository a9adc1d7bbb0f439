\* Every day from January 2027 to March 2028 (a leap February), for every cutoff day and calendar mode.
\* The calendar ends, so the system may stop.
SPECIFICATION WalkSpec
CONSTANTS
  NumMonths <- CalendarLength
  FirstDay <- CalendarFirstDay
INVARIANTS PeriodsAreBetweenCutoffs PeriodsTile RegisteredIsListed
CHECK_DEADLOCK FALSE
