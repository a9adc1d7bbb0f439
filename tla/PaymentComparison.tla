-------------------------- MODULE PaymentComparison --------------------------
(***************************************************************************)
(* Payment comparisons of one user: a comparison is stored PENDING for 24  *)
(* hours and can be converted into an expense, once, under an              *)
(* Idempotency-Key; an expired one is deleted by whoever reads it, and by  *)
(* an hourly job.                                                          *)
(*                                                                         *)
(* Every request is a process; each of its awaits is a step of its own,    *)
(* between which other requests run.  The rows read are kept only as far   *)
(* as later steps look at them.                                            *)
(*                                                                         *)
(* Abstracted: the offer and the result (an option that does not exist or  *)
(* has no cost, a contract version that is not supported, a profile or     *)
(* category that is refused: the request ends with 4xx, Abandon), the body *)
(* of a request (its hash), the call to Exchange before a row is created   *)
(* and the hourly job's lock.                                              *)
(***************************************************************************)
EXTENDS Integers

CONSTANTS
  Comparisons, Expenses,   \* ids the database can hand out
  Keys, Bodies,            \* Idempotency-Keys and bodies clients send
  NoExpense, NoKey, NoBody, \* NULL in the three columns of a PENDING row
  NoComparison,            \* the comparison of a request that is idle
  Requests,                \* requests that may be in flight
  Ttl,                     \* COMPARISON_TTL_MS
  MaxTime                  \* bound: the clock stops here

ASSUME PaymentComparisonAssumption ==
  /\ Ttl \in Nat \ {0}
  /\ MaxTime \in Nat
  /\ NoExpense \notin Expenses
  /\ NoComparison \notin Comparisons

VARIABLES
  comparison,     \* [Comparisons -> row]
  expenseStatus,  \* [Expenses -> {"unused", "live", "deleted"}]
  clock,
  request,        \* [Requests -> where each handler stands]
  sales,          \* history: the conversions committed
  answers,        \* history: the conversions answered with 201 or 200
  crossed,        \* history: the handlers about to delete a row that was converted since they read it
  late            \* history: the comparisons whose claim committed when they had expired

overlaps == <<crossed, late>>
vars == <<comparison, expenseStatus, clock, request, sales, answers, overlaps>>

\* "absent" is an id not handed out yet, "deleted" one whose row is gone.
Row == [status : {"absent", "PENDING", "CONVERTED", "deleted"}, expiresAt : Nat,
        expense : Expenses \cup {NoExpense}, key : Keys \cup {NoKey}, body : Bodies \cup {NoBody}]
Sale == [comparison : Comparisons, expense : Expenses, key : Keys, body : Bodies]

\* idle; convertToExpense: reread, context, claim, raced, load; purgeIfExpired: purge;
\* discard: discard.
Phases == {"idle", "reread", "context", "claim", "raced", "load", "purge", "discard"}
Request == [phase : Phases, comparison : Comparisons \cup {NoComparison}, key : Keys \cup {NoKey},
            body : Bodies \cup {NoBody}, now : Nat, expense : Expenses \cup {NoExpense}]

RowOf(status, t, e, k, b) ==
  [status |-> status, expiresAt |-> t, expense |-> e, key |-> k, body |-> b]
At(phase, c, k, b, now, e) ==
  [phase |-> phase, comparison |-> c, key |-> k, body |-> b, now |-> now, expense |-> e]
SaleOf(c, e, k, b) == [comparison |-> c, expense |-> e, key |-> k, body |-> b]

Idle == At("idle", NoComparison, NoKey, NoBody, 0, NoExpense)

TypeOK ==
  /\ comparison \in [Comparisons -> Row]
  /\ expenseStatus \in [Expenses -> {"unused", "live", "deleted"}]
  /\ clock \in Nat
  /\ request \in [Requests -> Request]
  /\ sales \subseteq Sale
  /\ answers \subseteq Sale
  /\ crossed \subseteq Requests /\ late \subseteq Comparisons

Init ==
  /\ comparison = [c \in Comparisons |-> RowOf("absent", 0, NoExpense, NoKey, NoBody)]
  /\ expenseStatus = [e \in Expenses |-> "unused"]
  /\ clock = 0
  /\ request = [r \in Requests |-> Idle]
  /\ sales = {}
  /\ answers = {}
  /\ crossed = {} /\ late = {}

-----------------------------------------------------------------------------
Exists(c) == comparison[c].status \in {"PENDING", "CONVERTED"}

\* Mutant: purgeIfExpired does not look at the status.
ExpiredAnyStatus(c) == Exists(c) /\ comparison[c].expiresAt <= clock

Expired(c) == comparison[c].status = "PENDING" /\ comparison[c].expiresAt <= clock

Deleted(row) == RowOf("deleted", row.expiresAt, NoExpense, NoKey, NoBody)

Goto(r, o) == request' = [request EXCEPT ![r] = o]
OnlyRequests == UNCHANGED <<comparison, expenseStatus, clock, sales, answers, overlaps>>

\* Mutants: the body is not compared, only the key; neither is.
SameKey(c, k, b) == comparison[c].key = k
AnyKey(c, k, b) == TRUE

\* resolveConvertedIdempotency answers with the expense (any other outcome is a 409).
SameRequest(c, k, b) == comparison[c].key = k /\ comparison[c].body = b

\* Where convertToExpense goes from the row it reads: on to its expense, to a 409, to the
\* purge of an expired row, or on with a pending one.
AfterRead(c, k, b, pending) ==
  IF comparison[c].status = "CONVERTED" THEN IF SameRequest(c, k, b) THEN "load" ELSE "idle"
  ELSE IF Expired(c) THEN "purge" ELSE pending

Proceed(phase, c, k, b) ==
  IF phase = "idle" THEN Idle
  ELSE At(phase, c, k, b, 0, IF phase = "load" THEN comparison[c].expense ELSE NoExpense)

-----------------------------------------------------------------------------
(* create, getById, discard, and the deletions.                            *)

Create(c) ==
  /\ comparison[c].status = "absent"
  /\ comparison' = [comparison EXCEPT ![c] = RowOf("PENDING", clock + Ttl, NoExpense, NoKey, NoBody)]
  /\ UNCHANGED <<expenseStatus, clock, request, sales, answers, overlaps>>

\* Reading a row that is not expired changes nothing.
GetById(r, c) ==
  /\ request[r] = Idle
  /\ Expired(c)
  /\ Goto(r, At("purge", c, NoKey, NoBody, 0, NoExpense))
  /\ OnlyRequests

Discard(r, c) ==
  /\ request[r] = Idle
  /\ comparison[c].status = "PENDING"
  /\ Goto(r, At("discard", c, NoKey, NoBody, 0, NoExpense))
  /\ OnlyRequests

\* The DELETE of purgeIfExpired and discard: by id, whatever the row has become since it
\* was read.  A row that is gone is P2025, and nothing changes.
DeleteById(r) ==
  LET c == request[r].comparison IN
  /\ request[r].phase \in {"purge", "discard"}
  /\ comparison' = IF Exists(c) THEN [comparison EXCEPT ![c] = Deleted(comparison[c])] ELSE comparison
  /\ Goto(r, Idle)
  /\ crossed' = crossed \ {r}
  /\ UNCHANGED <<expenseStatus, clock, sales, answers, late>>

\* Mutant: the job's WHERE takes the rows that are not expired.
CleanableFresh(c) == comparison[c].status = "PENDING" /\ comparison[c].expiresAt > clock

\* The WHERE of deleteExpiredPendingComparisons.
Cleanable(c) == comparison[c].status = "PENDING" /\ comparison[c].expiresAt <= clock

\* The hourly job: one DELETE.
Cleanup ==
  /\ \E c \in Comparisons : Cleanable(c)
  /\ comparison' = [c \in Comparisons |->
                      IF Cleanable(c) THEN Deleted(comparison[c]) ELSE comparison[c]]
  /\ UNCHANGED <<expenseStatus, clock, request, sales, answers, overlaps>>

\* Mutant: the comparison is not deleted with its expense.
DeleteExpenseAlone(e) ==
  /\ expenseStatus[e] = "live"
  /\ expenseStatus' = [expenseStatus EXCEPT ![e] = "deleted"]
  /\ UNCHANGED <<comparison, clock, request, sales, answers, overlaps>>

\* deleteExpenses: the expense, and by cascade the comparison that names it.
DeleteExpense(e) ==
  /\ expenseStatus[e] = "live"
  /\ expenseStatus' = [expenseStatus EXCEPT ![e] = "deleted"]
  /\ comparison' = [c \in Comparisons |->
                      IF comparison[c].expense = e THEN Deleted(comparison[c]) ELSE comparison[c]]
  /\ UNCHANGED <<clock, request, sales, answers, overlaps>>

-----------------------------------------------------------------------------
(* convertToExpense, await by await.                                       *)

ConvertRead(r, c, k, b) ==
  /\ request[r] = Idle
  /\ Exists(c)
  /\ Goto(r, Proceed(AfterRead(c, k, b, "reread"), c, k, b))
  /\ OnlyRequests

\* The second read looks at the result only: its status is not checked again.
ConvertReread(r) ==
  LET o == request[r] IN
  /\ o.phase = "reread"
  /\ Goto(r, Proceed(IF Exists(o.comparison) THEN "context" ELSE "idle", o.comparison, o.key, o.body))
  /\ OnlyRequests

\* resolveExpenseContext answered; the date of the claim's WHERE is taken here, before
\* the database runs the statement.
ConvertContext(r) ==
  LET o == request[r] IN
  /\ o.phase = "context"
  /\ Goto(r, At("claim", o.comparison, o.key, o.body, clock, NoExpense))
  /\ OnlyRequests

\* Mutants: the claim looks at the date only; at the id only.
ClaimableAnyStatus(c, now) == Exists(c) /\ comparison[c].expiresAt > now
ClaimableById(c, now) == Exists(c)

\* The WHERE of the claim.
Claimable(c, now) == comparison[c].status = "PENDING" /\ comparison[c].expiresAt > now

\* A handler between its look at a row and its DELETE.
Deleting(r) == request[r].phase \in {"purge", "discard"}

\* The transaction: the claim, the expense and the link, or nothing.  Answers 201.
ConvertClaim(r, e) ==
  LET o == request[r] IN
  /\ o.phase = "claim"
  /\ Claimable(o.comparison, o.now)
  /\ expenseStatus[e] = "unused"
  /\ expenseStatus' = [expenseStatus EXCEPT ![e] = "live"]
  /\ comparison' = [comparison EXCEPT ![o.comparison] =
                      RowOf("CONVERTED", @.expiresAt, e, o.key, o.body)]
  /\ sales' = sales \cup {SaleOf(o.comparison, e, o.key, o.body)}
  /\ answers' = answers \cup {SaleOf(o.comparison, e, o.key, o.body)}
  /\ crossed' = crossed \cup {q \in Requests : Deleting(q) /\ request[q].comparison = o.comparison}
  /\ late' = late \cup {c \in {o.comparison} : comparison[c].expiresAt <= clock}
  /\ Goto(r, Idle)
  /\ UNCHANGED clock

\* The claim updated no row.
ConvertRaced(r) ==
  LET o == request[r] IN
  /\ o.phase = "claim"
  /\ ~Claimable(o.comparison, o.now)
  /\ Goto(r, Proceed("raced", o.comparison, o.key, o.body))
  /\ OnlyRequests

ConvertRacedRead(r) ==
  LET o == request[r]
      next == IF Exists(o.comparison) THEN AfterRead(o.comparison, o.key, o.body, "idle") ELSE "idle"
  IN
  /\ o.phase = "raced"
  /\ Goto(r, Proceed(next, o.comparison, o.key, o.body))
  /\ OnlyRequests

\* loadExpenseForResponse: 200 with the expense, 404 when it is gone.
ConvertLoad(r) ==
  LET o == request[r] IN
  /\ o.phase = "load"
  /\ answers' = IF o.expense \in Expenses /\ expenseStatus[o.expense] = "live"
                THEN answers \cup {SaleOf(o.comparison, o.expense, o.key, o.body)}
                ELSE answers
  /\ Goto(r, Idle)
  /\ UNCHANGED <<comparison, expenseStatus, clock, sales, overlaps>>

\* A 4xx between two awaits, a rolled back transaction, or the process dies.
Abandon(r) ==
  /\ request[r] # Idle
  /\ Goto(r, Idle)
  /\ crossed' = crossed \ {r}
  /\ UNCHANGED <<comparison, expenseStatus, clock, sales, answers, late>>

Tick ==
  /\ clock < MaxTime
  /\ clock' = clock + 1
  /\ UNCHANGED <<comparison, expenseStatus, request, sales, answers, overlaps>>

-----------------------------------------------------------------------------
Convert(r) ==
  \/ \E c \in Comparisons, k \in Keys, b \in Bodies : ConvertRead(r, c, k, b)
  \/ ConvertReread(r)
  \/ ConvertContext(r)
  \/ \E e \in Expenses : ConvertClaim(r, e)
  \/ ConvertRaced(r)
  \/ ConvertRacedRead(r)
  \/ ConvertLoad(r)

Next ==
  \/ \E c \in Comparisons : Create(c)
  \/ \E r \in Requests, c \in Comparisons : GetById(r, c) \/ Discard(r, c)
  \/ \E r \in Requests : DeleteById(r) \/ Convert(r) \/ Abandon(r)
  \/ Cleanup
  \/ \E e \in Expenses : DeleteExpense(e)
  \/ Tick

Spec == Init /\ [][Next]_vars

\* The hourly job keeps running.
FairSpec == Spec /\ WF_vars(Cleanup)

-----------------------------------------------------------------------------
(* Properties.                                                             *)

\* proposal.md:121, REQ-002, "exactly one pending expense": however many taps, keys and
\* retries race, a comparison never becomes two expenses, nor two comparisons one.
OneExpensePerComparison ==
  \A s, t \in sales : s.comparison = t.comparison \/ s.expense = t.expense => s = t

\* The claim, the expense and the link commit together and the cascade takes the row with
\* its expense: the 409 of resolveConvertedIdempotency about a missing expense is never met.
ConvertedHasExpense ==
  \A c \in Comparisons : comparison[c].status = "CONVERTED" =>
    /\ comparison[c].expense \in Expenses
    /\ expenseStatus[comparison[c].expense] = "live"
    /\ SaleOf(c, comparison[c].expense, comparison[c].key, comparison[c].body) \in sales

\* proposal.md:122, REQ-003: two successful answers about a comparison are about one
\* expense and one request: a client with another key or body is never told it succeeded.
AnswersAgree ==
  \A a, b \in answers : a.comparison = b.comparison => a = b

\* comparison-cleanup.job.ts:12, "nunca toca CONVERTED", and the status both purgeIfExpired and
\* discard look at: a converted row goes away only with its expense, or by a handler that read it
\* before the conversion: one that discards it, or, only if the claim had taken its date in time
\* but committed after the row expired, one that found it expired.
ConversionKept ==
  [][\A c \in Comparisons :
       comparison[c].status = "CONVERTED" /\ comparison'[c].status = "deleted" =>
         \/ expenseStatus'[comparison[c].expense] = "deleted"
         \/ \E r \in crossed :
              /\ request[r].comparison = c /\ request'[r] = Idle
              /\ request[r].phase = "discard" \/ c \in late]_vars

\* spec.md (gastos-comparisons):49: an expired pending comparison goes away even if nobody reads it.
ExpiredGoes ==
  \A c \in Comparisons : Expired(c) ~> ~Expired(c)

\* The whole protocol is the one OneExpense promises.
Contract == INSTANCE OneExpense WITH
  offered <- {c \in Comparisons : comparison[c].status # "absent"},
  open <- {c \in Comparisons : comparison[c].status = "PENDING"}
ImplementsContract == Contract!Spec

-----------------------------------------------------------------------------
(* The inductive invariant.                                                *)

\* A row has a sale behind it once it is CONVERTED, and none before.
RowsMatchSales ==
  /\ ConvertedHasExpense
  /\ \A s \in sales : /\ expenseStatus[s.expense] # "unused"
                      /\ comparison[s.comparison].status \in {"CONVERTED", "deleted"}

\* Only CONVERTED rows name an expense.
OnlyConvertedLinked ==
  \A c \in Comparisons : comparison[c].status # "CONVERTED" => comparison[c].expense = NoExpense

\* A handler about to load an expense holds the sale of its own request.
LoadsOwnSale ==
  \A r \in Requests :
    /\ request[r] # Idle => request[r].comparison \in Comparisons
    /\ request[r].phase \in {"reread", "context", "claim", "raced", "load"} =>
         request[r].key \in Keys /\ request[r].body \in Bodies
    /\ request[r].phase = "load" =>
         SaleOf(request[r].comparison, request[r].expense, request[r].key, request[r].body) \in sales

\* The inductive invariant: a CONVERTED row has its own sale behind it, and a handler about to
\* load an expense holds the sale of its own request.
IInv ==
  /\ TypeOK
  /\ RowsMatchSales
  /\ OnlyConvertedLinked
  /\ LoadsOwnSale
  /\ OneExpensePerComparison
  /\ answers \subseteq sales

\* A handler about to delete a row that is converted was crossed by the conversion; one that found
\* it expired, by a conversion that was late.
OverlapsInv ==
  \A r \in Requests :
    LET c == request[r].comparison IN
    Deleting(r) =>
      /\ comparison[c].status # "absent"
      /\ request[r].phase = "purge" => comparison[c].expiresAt <= clock
      /\ comparison[c].status = "CONVERTED" =>
           r \in crossed /\ (request[r].phase = "purge" => c \in late)
=============================================================================
