----------------------------- MODULE BudgetCycle -----------------------------
(***************************************************************************)
(* The budget cycle of a user (me.service.ts): preferences with a cycle,   *)
(* the reference month of the income and a carryover; expenses and incomes *)
(* anchored to a period; the renewal of the month with its surplus; the    *)
(* change of cycle, which re-anchors the expenses of the open period.      *)
(*                                                                         *)
(* A handler of preferences runs between its awaits: it reads the          *)
(* preference, aggregates the closing period, re-anchors and saves in      *)
(* separate steps, other handlers and midnight in between.  A profile is   *)
(* named by its owner, every amount is 1, the monthly income is constant.  *)
(***************************************************************************)
EXTENDS BudgetPeriod, FiniteSets

CONSTANTS
  Users,
  Access,         \* [Users -> SUBSET Users], owners of the profiles a user sees
  Expenses, Incomes,
  Requests,       \* handlers in flight at a time
  CycleChoices,   \* the cycles a user may choose
  MonthlyIncome,
  StartDay, LastDay,
  MaxCarryover     \* bound: no surplus above it is accepted

ASSUME CycleAssumption ==
  /\ Access \in [Users -> SUBSET Users] /\ \A u \in Users : u \in Access[u]
  /\ \A c \in CycleChoices \ {CalendarMonth} : c.cutoffDay \in CutoffDays /\ c = MonthlyCutoff(c.cutoffDay)
  /\ IsFiniteSet(Expenses) /\ IsFiniteSet(Incomes)
  /\ MonthlyIncome \in Nat /\ MaxCarryover \in Nat
  /\ StartDay \in Days /\ LastDay \in Days /\ StartDay <= LastDay

VARIABLES
  today,
  preference,  \* [Users -> a row or NoPreference]
  expense,     \* [Expenses -> a row or NoMovement]
  income,      \* [Incomes -> a row or NoMovement]
  request,     \* [Requests -> a handler between two of its awaits]
  due,         \* history: the expenses the board of their owner has to list
  closes,      \* history: the periods closed for each user
  crossed      \* history: the users one of whose preference handlers was overtaken by a change of cycle

vars == <<today, preference, expense, income, request, due, closes, crossed>>
rows == <<preference, expense, income>>
history == <<due, closes, crossed>>

NoPreference == [cycle |-> "none"]
NoMovement == [anchor |-> "none"]
Idle == [phase |-> "idle"]
Preference(cycle, incomeRef, carryover) ==
  [cycle |-> cycle, incomeRef |-> incomeRef, carryover |-> carryover]

\* budgetCycleMode ?? 'calendar_month', budgetCutoffDay ?? 1.
CycleOf(pref) == IF pref = NoPreference THEN CalendarMonth ELSE pref.cycle

\* The anchor given and the anchors listed on each day of the run, as functions.
CyclesInUse == {CalendarMonth} \cup CycleChoices
Reference == [c \in CyclesInUse |-> [t \in StartDay..LastDay |-> ActiveReference(c, t)]]
Listing == [c \in CyclesInUse |-> [t \in StartDay..LastDay |-> Board(c, t)]]

Live(movements) == {m \in DOMAIN movements : movements[m] # NoMovement}
InFlight(phases) == {r \in Requests : request[r].phase \in phases}
PreferencePhases == {"aggregating", "reanchoring", "saving"}

\* incomeMonthNeedsRefresh.
NeedsRefresh(pref) ==
  pref = NoPreference \/ pref.incomeRef # Reference[pref.cycle][today]

\* computeClosingMonthSurplusUsd for handler q, with the date of buildMonthRenewalContext as
\* reference month.
ClosingSurplus(q) ==
  LET closing == ClosingDate(q.before, q.day)
      logged == {i \in Live(income) : income[i].user = q.user /\ income[i].anchor = closing}
      paid == {e \in Live(expense) : /\ expense[e].profile = q.user /\ expense[e].paid
                                     /\ expense[e].anchor = closing}
      surplus == MonthlyIncome + q.carryover + Cardinality(logged) - Cardinality(paid)
  IN IF surplus > 0 THEN surplus ELSE 0

-----------------------------------------------------------------------------
(* Movements.  A registration resolves its anchor from the preference,     *)
(* waits for the BCV rate and then writes.                                 *)

\* The ids in use; one is not given again while a handler still holds it.
ItemsInUse ==
  Live(expense) \cup Live(income) \cup {request[r].item : r \in InFlight({"registering"})}
  \cup UNION {request[r].moved : r \in InFlight({"saving"})}

\* createExpense, createIncome: getBudgetCyclePrefForUser, resolveMovementReferenceMonthYmd.
ResolveAnchor(r, u, item) ==
  /\ request[r] = Idle
  /\ item \notin ItemsInUse
  /\ request' = [request EXCEPT ![r] =
       [phase |-> "registering", user |-> u, item |-> item, overtaken |-> "no",
        anchor |-> Reference[CycleOf(preference[u])][today]]]
  /\ UNCHANGED <<today, rows, history>>

\* createExpense, createExpenseWithReceipt; an expense whose handler nothing overtook is due
\* on the board.
WriteExpense(r) ==
  LET q == request[r] IN
  /\ q.phase = "registering" /\ q.item \in Expenses
  /\ expense' = [expense EXCEPT ![q.item] =
       [profile |-> q.user, anchor |-> q.anchor, paid |-> FALSE]]
  /\ due' = IF q.overtaken = "no" THEN due \cup {q.item} ELSE due
  /\ request' = [request EXCEPT ![r] = Idle]
  /\ UNCHANGED <<today, preference, income, closes, crossed>>

WriteIncome(r) ==
  LET q == request[r] IN
  /\ q.phase = "registering" /\ q.item \in Incomes
  /\ income' = [income EXCEPT ![q.item] = [user |-> q.user, anchor |-> q.anchor]]
  /\ request' = [request EXCEPT ![r] = Idle]
  /\ UNCHANGED <<today, preference, expense, history>>

\* buildBcvAmountPatchForYmd throws: no rate for the day.
RegistrationFails(r) ==
  /\ request[r].phase = "registering"
  /\ request' = [request EXCEPT ![r] = Idle]
  /\ UNCHANGED <<today, rows, history>>

\* patchExpense, markExpensesPaid: only on the user's own profiles.
PatchExpense(u, e, paid) ==
  /\ e \in Live(expense) /\ expense[e].profile = u /\ expense[e].paid # paid
  /\ expense' = [expense EXCEPT ![e].paid = paid]
  /\ UNCHANGED <<today, preference, income, request, history>>

DeleteExpense(u, e) ==
  /\ e \in Live(expense) /\ expense[e].profile = u
  /\ expense' = [expense EXCEPT ![e] = NoMovement]
  /\ due' = due \ {e}
  /\ UNCHANGED <<today, preference, income, request, closes, crossed>>

DeleteIncome(u, i) ==
  /\ i \in Live(income) /\ income[i].user = u
  /\ income' = [income EXCEPT ![i] = NoMovement]
  /\ UNCHANGED <<today, preference, expense, request, history>>

-----------------------------------------------------------------------------
(* Preferences: updatePreferences and rolloverMonth.                       *)

\* A body without budgetCycle, which leaves the one stored as it is.
Keep == [mode |-> "keep", cutoffDay |-> 0]

NextCycle(stored, cycle) == IF cycle = Keep THEN stored ELSE cycle

\* What a handler of preferences takes along from the row it read to its next step, and what
\* it is about to save.
Reading(phase, u, pref, cycle) ==
  [phase |-> phase, user |-> u, before |-> pref.cycle, carryover |-> pref.carryover,
   cycle |-> cycle, day |-> today, overtaken |-> "no"]
Saving(u, cycle, incomeRef, carryover, moved, overtaken) ==
  [phase |-> "saving", user |-> u, cycle |-> cycle, incomeRef |-> incomeRef,
   carryover |-> carryover, moved |-> moved, overtaken |-> overtaken]

\* updatePreferences up to its next await: a stale month is aggregated first, a change of cycle
\* in an open period re-anchors its expenses, the rest is saved as it is.
ReadForUpdate(r, u, cycle) ==
  LET pref == preference[u]
      next == NextCycle(CycleOf(pref), cycle)
      save(carryover) == Saving(u, cycle, Reference[next][today], carryover, {}, "no") IN
  /\ request[r] = Idle
  /\ request' = [request EXCEPT ![r] =
       IF pref = NoPreference THEN save(0)
       ELSE IF NeedsRefresh(pref) THEN Reading("aggregating", u, pref, cycle)
       ELSE IF next # pref.cycle THEN Reading("reanchoring", u, pref, cycle)
       ELSE save(pref.carryover)]
  /\ UNCHANGED <<today, rows, history>>

\* rolloverMonth: refused when no change of month is pending, otherwise it closes the period
\* as an update that keeps the cycle does.
ReadForRollover(r, u) ==
  /\ request[r] = Idle
  /\ preference[u] # NoPreference /\ NeedsRefresh(preference[u])
  /\ request' = [request EXCEPT ![r] = Reading("aggregating", u, preference[u], Keep)]
  /\ UNCHANGED <<today, rows, history>>

\* Mutant: the month that closed is saved again, so that it looks stale as before.
ClosedMonth(q, next, rollover) == ClosingDate(q.before, q.day)

\* The reference month saved: of the day it is now for the calendar and in rolloverMonth
\* (startOfMonthYmdInCaracas, advanceIncomeReferenceMonth), else of the day captured.
RenewedMonth(q, next, rollover) ==
  Reference[next][IF rollover \/ IsCalendar(next) THEN today ELSE q.day]

\* The aggregates are back; without the user's answer (applySurplus) a surplus is a 400.
Aggregate(r, applySurplus, rollover) ==
  LET q == request[r]
      surplus == ClosingSurplus(q)
      month == RenewedMonth(q, NextCycle(q.before, q.cycle), rollover) IN
  /\ q.phase = "aggregating"
  /\ rollover => q.cycle = Keep
  /\ applySurplus = "yes" => surplus <= MaxCarryover   \* bound
  /\ request' = [request EXCEPT ![r] =
       IF surplus > 0 /\ applySurplus = "unset" THEN Idle
       ELSE Saving(q.user, q.cycle, month,
                   IF surplus > 0 /\ applySurplus = "yes" THEN surplus ELSE 0, {}, q.overtaken)]
  /\ UNCHANGED <<today, rows, history>>

\* Mutant: only the preference moves (the empty board of the spec file, line 63).
ReanchorNothing(r) ==
  LET q == request[r] IN
  /\ q.phase = "reanchoring"
  /\ request' = [request EXCEPT ![r] =
       Saving(q.user, q.cycle, Reference[q.cycle][q.day], q.carryover, due, q.overtaken)]
  /\ UNCHANGED <<today, rows, history>>

\* reanchorExpensesForBudgetCycleChange: updateMany over every profile the user sees.
Reanchor(r) ==
  LET q == request[r]
      shown == {e \in Live(expense) : /\ expense[e].profile \in Access[q.user]
                                      /\ expense[e].anchor \in Listing[q.before][q.day]}
      anchor == Reference[q.cycle][q.day] IN
  /\ q.phase = "reanchoring"
  /\ expense' = [e \in Expenses |-> IF e \in shown THEN [expense[e] EXCEPT !.anchor = anchor] ELSE expense[e]]
  /\ due' = {e \in due : e \in shown => expense[e].profile = q.user}
  /\ request' = [request EXCEPT ![r] = Saving(q.user, q.cycle, anchor, q.carryover, shown, q.overtaken)]
  /\ UNCHANGED <<today, preference, income, closes, crossed>>

\* persistPreferenceByCurrency refuses (no income in the body, no rate for the day):
\* what was re-anchored stays re-anchored.
RefuseSave(r) ==
  LET q == request[r] IN
  /\ q.phase = "saving"
  /\ due' = due \ q.moved
  /\ request' = [request EXCEPT ![r] = Idle]
  /\ UNCHANGED <<today, rows, closes, crossed>>

\* saveUserPreference (upsert), advanceIncomeReferenceMonth (update).  The history drops from the
\* board what the save takes off it: whatever a change of cycle did not re-anchor the same day.
Save(r) ==
  LET q == request[r]
      u == q.user
      old == CycleOf(preference[u])
      new == NextCycle(old, q.cycle)
      mine == {e \in due : expense[e].profile = u}
      others == InFlight(PreferencePhases \cup {"registering"}) \ {r} IN
  /\ q.phase = "saving"
  /\ preference' = [preference EXCEPT ![u] = Preference(new, q.incomeRef, q.carryover)]
  /\ request' = [p \in Requests |->
       IF p = r THEN Idle
       ELSE IF p \in others /\ request[p].user = u /\ new # old
       THEN [request[p] EXCEPT !.overtaken = "cycle"] ELSE request[p]]
  /\ due' = IF new = old /\ q.moved = {} THEN due
            ELSE IF q.overtaken = "no" THEN due \ (mine \ q.moved) ELSE due \ mine
  /\ crossed' = IF q.overtaken = "cycle" THEN crossed \cup {u} ELSE crossed
  /\ UNCHANGED <<today, expense, income, closes>>

-----------------------------------------------------------------------------
(* Midnight in Caracas.  A period closes for a user when the cycle in      *)
(* force, or the one a handler is about to save, turns.                    *)

Turns(cycle) == Reference[cycle][today + 1] # Reference[cycle][today]
CyclesOf(u) ==
  {CycleOf(preference[u])} \cup
  ({request[r].cycle : r \in {s \in InFlight(PreferencePhases) : request[s].user = u}} \ {Keep})

Tick ==
  /\ today < LastDay   \* bound: the days of the run
  /\ today' = today + 1
  /\ closes' = [u \in Users |-> IF \E c \in CyclesOf(u) : Turns(c) THEN closes[u] + 1 ELSE closes[u]]
  /\ due' = {e \in due : ~Turns(CycleOf(preference[expense[e].profile]))}
  /\ request' = [r \in Requests |->
       IF request[r] # Idle /\ request[r].overtaken = "no"
       THEN [request[r] EXCEPT !.overtaken = "midnight"] ELSE request[r]]
  /\ UNCHANGED <<rows, crossed>>

-----------------------------------------------------------------------------
Init ==
  /\ today = StartDay
  /\ preference = [u \in Users |-> NoPreference]
  /\ expense = [e \in Expenses |-> NoMovement]
  /\ income = [i \in Incomes |-> NoMovement]
  /\ request = [r \in Requests |-> Idle]
  /\ due = {} /\ closes = [u \in Users |-> 0] /\ crossed = {}

Movement ==
  \/ \E r \in Requests, u \in Users, item \in Expenses \cup Incomes : ResolveAnchor(r, u, item)
  \/ \E r \in Requests : WriteExpense(r) \/ WriteIncome(r) \/ RegistrationFails(r)
  \/ \E u \in Users, e \in Expenses : DeleteExpense(u, e) \/ \E paid \in BOOLEAN : PatchExpense(u, e, paid)
  \/ \E u \in Users, i \in Incomes : DeleteIncome(u, i)

Renewal ==
  \/ \E r \in Requests, u \in Users :
       ReadForRollover(r, u) \/ \E cycle \in CycleChoices \cup {Keep} : ReadForUpdate(r, u, cycle)
  \/ \E r \in Requests, a \in {"unset", "yes", "no"}, rollover \in BOOLEAN : Aggregate(r, a, rollover)
  \/ \E r \in Requests : Reanchor(r) \/ RefuseSave(r) \/ Save(r)

Next == Tick \/ Movement \/ Renewal

Spec == Init /\ [][Next]_vars

-----------------------------------------------------------------------------
(* Properties.                                                             *)

Listed(u, e) == expense[e].anchor \in Listing[CycleOf(preference[u])][today]
MovedBy(u, e) == {r \in InFlight({"saving"}) : request[r].user = u /\ e \in request[r].moved}

\* me.service.ts:474-475, "para que sigan en el tablero activo": what a user registers stays on
\* the board until its period closes, through any number of changes of cycle.  It may go
\* early only when a change of cycle overlapped the registration or another change, crossed
\* midnight, was refused after re-anchoring, found the month stale, or was a collaborator's.
OpenExpensesListed ==
  \A e \in due : LET u == expense[e].profile IN Listed(u, e) \/ MovedBy(u, e) # {}

\* A surplus is carried over once for each period that closes, however often the renewal is
\* sent and whatever midnights it meets, unless a change of cycle overtook it: at most so much
\* a close.
MostPerClose == MonthlyIncome + Cardinality(Incomes)
SurplusOncePerClose ==
  \A u \in Users :
    preference[u] # NoPreference /\ u \notin crossed
    => preference[u].carryover <= closes[u] * MostPerClose

\* me.service.ts:759-760, "El periodo que cierra es el anterior al activo": the surplus offered
\* is the balance of the movements of the period before the active one.
DayBefore(cycle, day) ==
  IF IsCalendar(cycle) THEN FirstDay[MonthOf(day)] - 1 ELSE ActivePeriod(cycle, day).periodStart - 1
BalanceBefore(q) ==
  LET board == Board(q.before, DayBefore(q.before, q.day))
      logged == {i \in Live(income) : income[i].user = q.user /\ income[i].anchor \in board}
      paid == {e \in Live(expense) : /\ expense[e].profile = q.user /\ expense[e].paid
                                     /\ expense[e].anchor \in board}
  IN MonthlyIncome + q.carryover + Cardinality(logged) - Cardinality(paid)
SurplusOfClosedPeriod ==
  [][\A r \in Requests :
       Aggregate(r, "yes", FALSE) /\ request'[r] # Idle /\ request'[r].carryover > 0
       => request'[r].carryover = BalanceBefore(request[r])]_vars

-----------------------------------------------------------------------------
(* The inductive invariant.                                                *)

Overtaken == {"no", "midnight", "cycle"}
Preferences == [cycle : CyclesInUse, incomeRef : Int, carryover : Nat]
ExpenseRows == [profile : Users, anchor : Int, paid : BOOLEAN]
IncomeRows == [user : Users, anchor : Int]
RegisteringRows ==
  [phase : {"registering"}, user : Users, item : Expenses \cup Incomes, overtaken : Overtaken, anchor : Int]
ReadingRows ==
  [phase : {"aggregating", "reanchoring"}, user : Users, before : CyclesInUse, carryover : Nat,
   cycle : CyclesInUse \cup {Keep}, day : StartDay..LastDay, overtaken : Overtaken]
SavingRows ==
  [phase : {"saving"}, user : Users, cycle : CyclesInUse \cup {Keep}, incomeRef : Int,
   carryover : Nat, moved : SUBSET Expenses, overtaken : Overtaken]
Handlers == RegisteringRows \cup ReadingRows \cup SavingRows \cup {Idle}

TypeOK ==
  /\ today \in StartDay..LastDay
  /\ preference \in [Users -> Preferences \cup {NoPreference}]
  /\ expense \in [Expenses -> ExpenseRows \cup {NoMovement}]
  /\ income \in [Incomes -> IncomeRows \cup {NoMovement}]
  /\ request \in [Requests -> Handlers]
  /\ due \subseteq Live(expense)
  /\ closes \in [Users -> Nat]
  /\ crossed \subseteq Users

\* An id is with one registration, or with a row, or with a save that has moved its row.
ItemsApart ==
  \A r \in InFlight({"registering"}) :
    /\ request[r].item \notin Live(expense)
    /\ \A p \in InFlight({"registering"}) : p # r => request[p].item # request[r].item
    /\ \A p \in InFlight({"saving"}) : request[r].item \notin request[p].moved

\* What a handler holds of the cycle, until it is overtaken.
HoldsCycle(q) ==
  /\ q.phase = "registering" /\ q.overtaken = "no" =>
       q.anchor = Reference[CycleOf(preference[q.user])][today]
  /\ q.phase = "reanchoring" => q.cycle \notin {Keep, q.before}
  /\ q.phase \in {"aggregating", "reanchoring"} =>
       /\ q.overtaken = "no" => q.day = today
       /\ q.overtaken # "cycle" => q.before = CycleOf(preference[q.user])
  /\ q.phase = "saving" /\ q.moved # {} =>
       q.cycle # Keep /\ (q.overtaken = "no" => q.cycle # CycleOf(preference[q.user]))

\* What a save has moved is anchored where its cycle lists it, or another save has moved it since.
MovedAreAnchored(r) ==
  request[r].phase = "saving" /\ request[r].overtaken = "no" =>
    \A e \in request[r].moved \cap due :
      expense[e].profile = request[r].user =>
        \/ expense[e].anchor = Reference[request[r].cycle][today]
        \/ MovedBy(request[r].user, e) \ {r} # {}

\* A carryover is covered by the periods closed, but for those a renewal is still to close.
Covered(carryover, u, pending) ==
  closes[u] >= pending /\ carryover <= (closes[u] - pending) * MostPerClose
OneIf(turned) == IF turned THEN 1 ELSE 0

PreferenceCovered(u) ==
  preference[u] # NoPreference /\ u \notin crossed =>
    Covered(preference[u].carryover, u, OneIf(NeedsRefresh(preference[u])))

HandlerCovered(q) ==
  LET reading == NextCycle(q.before, q.cycle)
      saving == NextCycle(CycleOf(preference[q.user]), q.cycle) IN
  q.phase \in PreferencePhases /\ q.user \notin crossed /\ q.overtaken # "cycle" =>
    /\ q.phase = "aggregating" =>
         Covered(q.carryover, q.user, 1 + OneIf(Reference[reading][q.day] # Reference[reading][today]))
    /\ q.phase = "reanchoring" =>
         Covered(q.carryover, q.user, OneIf(Reference[reading][q.day] # Reference[reading][today]))
    /\ q.phase = "saving" =>
         Covered(q.carryover, q.user, OneIf(q.incomeRef # Reference[saving][today]))

BoardInv ==
  /\ ItemsApart
  /\ \A r \in Requests : HoldsCycle(request[r]) /\ MovedAreAnchored(r)
  /\ OpenExpensesListed

CarryoverInv ==
  /\ \A u \in Users : PreferenceCovered(u)
  /\ \A r \in Requests : HandlerCovered(request[r])

IInv == TypeOK /\ BoardInv /\ CarryoverInv
=============================================================================
