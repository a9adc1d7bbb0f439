-------------------------- MODULE MC_BudgetScenarios --------------------------
(* Two instances of BudgetCycle in one run: Ana alone with two handlers in  *)
(* flight, and one handler at a time of her or of Ben, who sees her profile *)
(* and registers nothing, with incomes.  Bound: Ana alone carries over more *)
(* than one income only where she has no expense.                           *)
EXTENDS MC_BudgetCycle

VARIABLE shared   \* which of the two

Busy == {r \in Requests : request[r] # Idle}
Registering(items) == \E r \in InFlight({"registering"}) : request[r].item \in items
CarriesOver(row) == row.carryover > MonthlyIncome
CarryingOver ==
  \/ preference[ana] # NoPreference /\ CarriesOver(preference[ana])
  \/ \E r \in InFlight(PreferencePhases) : CarriesOver(request[r])

Scenario ==
  /\ shared => Cardinality(Busy) <= 1 /\ \A r \in InFlight({"registering"}) : request[r].user = ana
  /\ ~shared => (\A r \in Busy : request[r].user = ana) /\ ~Registering(Incomes)
  /\ ~shared /\ CarryingOver => Live(expense) = {} /\ ~Registering(Expenses)

MCInit == Init /\ shared \in BOOLEAN
MCNext == Next /\ UNCHANGED shared /\ Scenario'
MCSpec == MCInit /\ [][MCNext]_<<vars, shared>>
=============================================================================
