----------------------- MODULE PaymentComparisonProofs -----------------------
(* Proofs about PaymentComparison, for any number of requests, comparisons, *)
(* keys and bodies and any clock: the inductive invariant, what it implies, *)
(* and that the protocol implements OneExpense.                             *)
EXTENDS PaymentComparison, TLAPS

\* A shorthand of two variables, expanded in every step.
USE DEF overlaps

\* A row built by RowOf is a row.
LEMMA RowType ==
  ASSUME NEW status \in {"absent", "PENDING", "CONVERTED", "deleted"}, NEW t \in Nat,
         NEW e \in Expenses \cup {NoExpense}, NEW k \in Keys \cup {NoKey},
         NEW b \in Bodies \cup {NoBody}
  PROVE  RowOf(status, t, e, k, b) \in Row
BY DEF RowOf, Row

\* A request built by At is a request.
LEMMA AtType ==
  ASSUME NEW phase \in Phases, NEW c \in Comparisons \cup {NoComparison},
         NEW k \in Keys \cup {NoKey}, NEW b \in Bodies \cup {NoBody}, NEW now \in Nat,
         NEW e \in Expenses \cup {NoExpense}
  PROVE  At(phase, c, k, b, now, e) \in Request
BY DEF At, Request

\* Idle is the request that is doing nothing.
LEMMA IdleFields ==
  /\ Idle \in Request
  /\ Idle.phase = "idle"
  /\ Idle.comparison = NoComparison
BY DEF Idle, At, Request, Phases

\* What a request that is not Idle must satisfy for the invariant.
Sound(o) ==
  /\ o \in Request
  /\ o # Idle => o.comparison \in Comparisons
  /\ o.phase \in {"reread", "context", "claim", "raced", "load"} => o.key \in Keys /\ o.body \in Bodies
  /\ o.phase = "load" => SaleOf(o.comparison, o.expense, o.key, o.body) \in sales

\* Idle satisfies it.
LEMMA IdleSound == Sound(Idle)
BY IdleFields DEF Sound

\* After reading a row a conversion is again in a sound position: it goes on to load an
\* expense only when the row names its own key and body.
LEMMA ProceedSound ==
  ASSUME IInv, NEW c \in Comparisons, NEW k \in Keys, NEW b \in Bodies,
         NEW pending \in {"idle", "reread"}
  PROVE  Sound(Proceed(AfterRead(c, k, b, pending), c, k, b))
<1> DEFINE phase == AfterRead(c, k, b, pending)
           row == comparison[c]
<1>1. row \in Row
  BY DEF IInv, TypeOK
<1>2. phase \in {"load", "idle", "purge", "reread"}
  BY DEF AfterRead
<1>3. CASE phase = "idle"
  BY <1>3, IdleSound DEF Proceed
<1>4. CASE phase \in {"purge", "reread"}
  <2>1. Proceed(phase, c, k, b) = At(phase, c, k, b, 0, NoExpense)
    BY <1>4 DEF Proceed
  <2>2. At(phase, c, k, b, 0, NoExpense) \in Request
    BY <1>4, AtType DEF Phases
  <2> QED
    BY <1>4, <2>1, <2>2 DEF Sound, At
<1>5. CASE phase = "load"
  <2>1. row.status = "CONVERTED" /\ row.key = k /\ row.body = b
    BY <1>5, <1>1 DEF AfterRead, SameRequest
  <2>2. SaleOf(c, row.expense, k, b) \in sales
    BY <2>1 DEF IInv, RowsMatchSales, ConvertedHasExpense
  <2>3. Proceed(phase, c, k, b) = At("load", c, k, b, 0, row.expense)
    BY <1>5 DEF Proceed
  <2>4. At("load", c, k, b, 0, row.expense) \in Request
    BY <1>1, AtType DEF Phases, Row
  <2> QED
    BY <2>2, <2>3, <2>4 DEF Sound, At
<1> QED
  BY <1>2, <1>3, <1>4, <1>5

\* Moving one request, or none, to a sound position keeps every request sound.
LEMMA RequestsSound ==
  ASSUME IInv, NEW o, Sound(o), sales \subseteq sales',
         \/ request' = request
         \/ \E r \in Requests : Goto(r, o)
  PROVE  /\ request' \in [Requests -> Request]
         /\ LoadsOwnSale'
<1>1. \A p \in Requests : request'[p] = request[p] \/ request'[p] = o
  BY DEF IInv, TypeOK, Goto
<1>2. request' \in [Requests -> Request]
  BY DEF IInv, TypeOK, Goto, Sound
<1>3. ASSUME NEW p \in Requests
      PROVE  /\ request'[p] # Idle => request'[p].comparison \in Comparisons
             /\ request'[p].phase \in {"reread", "context", "claim", "raced", "load"} =>
                  request'[p].key \in Keys /\ request'[p].body \in Bodies
             /\ request'[p].phase = "load" =>
                  SaleOf(request'[p].comparison, request'[p].expense, request'[p].key, request'[p].body) \in sales
  <2>1. CASE request'[p] = o
    BY <2>1 DEF Sound
  <2>2. CASE request'[p] = request[p]
    BY <2>2 DEF IInv, LoadsOwnSale
  <2> QED
    BY <1>1, <2>1, <2>2
<1>4. LoadsOwnSale'
  BY <1>3 DEF LoadsOwnSale, Idle, At, SaleOf
<1> QED
  BY <1>2, <1>4

\* A step that only moves a request to a sound position keeps the invariant.
LEMMA RequestStep ==
  ASSUME IInv, NEW r \in Requests, NEW o, Sound(o), Goto(r, o),
         UNCHANGED <<comparison, expenseStatus, clock, sales, late>>, crossed' \subseteq crossed,
         answers' \subseteq sales
  PROVE  IInv'
<1>1. request' \in [Requests -> Request] /\ LoadsOwnSale'
  BY RequestsSound
<1>2. TypeOK'
  BY <1>1 DEF IInv, TypeOK
<1>3. /\ RowsMatchSales'
      /\ OnlyConvertedLinked'
      /\ OneExpensePerComparison'
  BY DEF IInv, RowsMatchSales, ConvertedHasExpense, OnlyConvertedLinked, OneExpensePerComparison
<1> QED
  BY <1>1, <1>2, <1>3 DEF IInv

\* A deleted row is a row that names no expense.
LEMMA DeletedType ==
  ASSUME NEW row \in Row
  PROVE  /\ Deleted(row) \in Row
         /\ Deleted(row).status = "deleted"
         /\ Deleted(row).expense = NoExpense
BY RowType DEF Deleted, RowOf, Row

\* A step that deletes rows with a status of their own keeps the invariant.
LEMMA DeletionStep ==
  ASSUME IInv, NEW D \in SUBSET Comparisons, \A c \in D : Exists(c),
         comparison' = [c \in Comparisons |->
                          IF c \in D THEN Deleted(comparison[c]) ELSE comparison[c]],
         UNCHANGED <<expenseStatus, clock, sales, answers, late>>, crossed' \subseteq crossed,
         \/ request' = request
         \/ \E r \in Requests : Goto(r, Idle)
  PROVE  IInv'
<1>1. request' \in [Requests -> Request] /\ LoadsOwnSale'
  BY IdleSound, RequestsSound
<1>2. TypeOK'
  BY <1>1, DeletedType DEF IInv, TypeOK
<1>3. \A c \in Comparisons :
        IF c \in D THEN comparison'[c].status = "deleted" /\ comparison'[c].expense = NoExpense
        ELSE comparison'[c] = comparison[c]
  BY DeletedType DEF IInv, TypeOK
<1>4. ConvertedHasExpense'
  BY <1>3 DEF IInv, RowsMatchSales, ConvertedHasExpense
<1>5. \A s \in sales : /\ expenseStatus[s.expense] # "unused"
                       /\ s.comparison \in Comparisons
                       /\ comparison[s.comparison].status \in {"CONVERTED", "deleted"}
  BY DEF IInv, TypeOK, Sale, RowsMatchSales
<1>6. RowsMatchSales'
  BY <1>3, <1>4, <1>5 DEF RowsMatchSales
<1>7. OnlyConvertedLinked' /\ OneExpensePerComparison'
  BY <1>3 DEF IInv, OnlyConvertedLinked, OneExpensePerComparison
<1> QED
  BY <1>1, <1>2, <1>6, <1>7 DEF IInv

\* A created row is pending and has no sale.
LEMMA CreateStep ==
  ASSUME IInv, NEW c \in Comparisons, Create(c)
  PROVE  IInv'
<1> DEFINE new == RowOf("PENDING", clock + Ttl, NoExpense, NoKey, NoBody)
<1>1. new \in Row /\ new.status = "PENDING" /\ new.expense = NoExpense
  BY RowType, PaymentComparisonAssumption DEF IInv, TypeOK, RowOf
<1> HIDE DEF new
<1>2. comparison' = [comparison EXCEPT ![c] = new]
  BY DEF Create, new
<1>3. UNCHANGED <<expenseStatus, clock, request, sales, answers, overlaps>> /\ comparison[c].status = "absent"
  BY DEF Create
<1>4. request' \in [Requests -> Request] /\ LoadsOwnSale'
  BY <1>3, IdleSound, RequestsSound
<1>5. TypeOK'
  BY <1>1, <1>2, <1>3, <1>4 DEF IInv, TypeOK
<1>6. \A d \in Comparisons : comparison'[d] = IF d = c THEN new ELSE comparison[d]
  BY <1>2 DEF IInv, TypeOK
<1>7. ConvertedHasExpense' /\ OnlyConvertedLinked' /\ OneExpensePerComparison'
  BY <1>1, <1>3, <1>6 DEF IInv, RowsMatchSales, ConvertedHasExpense, OnlyConvertedLinked, OneExpensePerComparison
<1>8. \A s \in sales : /\ expenseStatus[s.expense] # "unused"
                       /\ s.comparison \in Comparisons \ {c}
                       /\ comparison[s.comparison].status \in {"CONVERTED", "deleted"}
  BY <1>3 DEF IInv, TypeOK, Sale, RowsMatchSales
<1>9. RowsMatchSales'
  BY <1>3, <1>6, <1>7, <1>8 DEF RowsMatchSales
<1> QED
  BY <1>3, <1>4, <1>5, <1>7, <1>9 DEF IInv

\* An expense goes together with the row that names it.
LEMMA DeleteExpenseStep ==
  ASSUME IInv, NEW e \in Expenses, DeleteExpense(e)
  PROVE  IInv'
<1>1. UNCHANGED <<clock, request, sales, answers, overlaps>>
  BY DEF DeleteExpense
<1>2. request' \in [Requests -> Request] /\ LoadsOwnSale'
  BY <1>1, IdleSound, RequestsSound
<1>3. TypeOK'
  BY <1>1, <1>2, DeletedType DEF IInv, TypeOK, DeleteExpense
<1>4. \A c \in Comparisons :
        IF comparison[c].expense = e
          THEN comparison'[c].status = "deleted" /\ comparison'[c].expense = NoExpense
          ELSE comparison'[c] = comparison[c]
  BY DeletedType DEF IInv, TypeOK, DeleteExpense
<1>5. \A f \in Expenses : expenseStatus'[f] = IF f = e THEN "deleted" ELSE expenseStatus[f]
  BY DEF IInv, TypeOK, DeleteExpense
<1>6. ConvertedHasExpense'
  BY <1>1, <1>4, <1>5 DEF IInv, RowsMatchSales, ConvertedHasExpense
<1>7. \A s \in sales : /\ expenseStatus[s.expense] # "unused"
                       /\ s.comparison \in Comparisons
                       /\ s.expense \in Expenses
                       /\ comparison[s.comparison].status \in {"CONVERTED", "deleted"}
  BY DEF IInv, TypeOK, Sale, RowsMatchSales
<1>8. RowsMatchSales'
  BY <1>1, <1>4, <1>5, <1>6, <1>7 DEF RowsMatchSales
<1>9. OnlyConvertedLinked' /\ OneExpensePerComparison'
  BY <1>1, <1>4 DEF IInv, OnlyConvertedLinked, OneExpensePerComparison
<1> QED
  BY <1>1, <1>2, <1>3, <1>8, <1>9 DEF IInv

\* The claim finds a pending row, which has no sale yet, and gives it a fresh expense.
LEMMA ClaimStep ==
  ASSUME IInv, NEW r \in Requests, NEW e \in Expenses, ConvertClaim(r, e)
  PROVE  IInv'
<1> DEFINE o == request[r]
           c == o.comparison
           sale == SaleOf(c, e, o.key, o.body)
           new == RowOf("CONVERTED", comparison[c].expiresAt, e, o.key, o.body)
<1>1. /\ c \in Comparisons
      /\ o.key \in Keys
      /\ o.body \in Bodies
  BY DEF ConvertClaim, IInv, LoadsOwnSale, Idle, At
<1>2. /\ comparison[c].status = "PENDING"
      /\ expenseStatus[e] = "unused"
      /\ UNCHANGED clock
      /\ expenseStatus' = [expenseStatus EXCEPT ![e] = "live"]
      /\ comparison' = [comparison EXCEPT ![c] = new]
      /\ sales' = sales \cup {sale}
      /\ answers' = answers \cup {sale}
      /\ Goto(r, Idle)
  BY DEF ConvertClaim, Claimable
<1>16. crossed' \subseteq Requests /\ late' \subseteq Comparisons
  BY <1>1 DEF ConvertClaim, IInv, TypeOK
<1>3. /\ sale \in Sale
      /\ sale.comparison = c
      /\ sale.expense = e
  BY <1>1 DEF SaleOf, Sale
<1>4. new \in Row
  BY <1>1, RowType DEF IInv, TypeOK, Row
<1>5. /\ new.status = "CONVERTED"
      /\ new.expense = e
      /\ SaleOf(c, new.expense, new.key, new.body) = sale
  BY DEF RowOf, SaleOf
<1> HIDE DEF o, c, sale, new
<1>6. request' \in [Requests -> Request] /\ LoadsOwnSale'
  BY <1>2, IdleSound, RequestsSound
<1>7. TypeOK'
  BY <1>2, <1>3, <1>4, <1>6, <1>16 DEF IInv, TypeOK
<1>8. /\ \A d \in Comparisons : comparison'[d] = IF d = c THEN new ELSE comparison[d]
      /\ \A f \in Expenses : expenseStatus'[f] = IF f = e THEN "live" ELSE expenseStatus[f]
  BY <1>2 DEF IInv, TypeOK
<1>9. \A s \in sales : /\ expenseStatus[s.expense] # "unused"
                       /\ s.comparison \in Comparisons
                       /\ s.expense \in Expenses
                       /\ comparison[s.comparison].status \in {"CONVERTED", "deleted"}
  BY DEF IInv, TypeOK, Sale, RowsMatchSales
<1>10. \A s \in sales : s.comparison # c /\ s.expense # e
  BY <1>2, <1>9
<1>11. ConvertedHasExpense'
  <2>1. ASSUME NEW d \in Comparisons, comparison'[d].status = "CONVERTED"
        PROVE  /\ comparison'[d].expense \in Expenses
               /\ expenseStatus'[comparison'[d].expense] = "live"
               /\ SaleOf(d, comparison'[d].expense, comparison'[d].key, comparison'[d].body) \in sales'
    <3>1. CASE d = c
      BY <1>2, <1>5, <1>8, <3>1
    <3>2. CASE d # c
      <4>1. /\ comparison[d].expense \in Expenses
            /\ expenseStatus[comparison[d].expense] = "live"
            /\ SaleOf(d, comparison[d].expense, comparison[d].key, comparison[d].body) \in sales
        BY <1>8, <2>1, <3>2 DEF IInv, RowsMatchSales, ConvertedHasExpense
      <4> QED
        BY <4>1, <1>2, <1>8, <3>2
    <3> QED
      BY <3>1, <3>2
  <2> QED
    BY <2>1 DEF ConvertedHasExpense, SaleOf
<1>12. RowsMatchSales'
  BY <1>1, <1>2, <1>3, <1>5, <1>8, <1>9, <1>10, <1>11 DEF RowsMatchSales
<1>13. OnlyConvertedLinked'
  BY <1>5, <1>8 DEF IInv, OnlyConvertedLinked
<1>14. OneExpensePerComparison'
  BY <1>2, <1>3, <1>10 DEF IInv, OneExpensePerComparison
<1>15. answers' \subseteq sales'
  BY <1>2 DEF IInv
<1> QED
  BY <1>6, <1>7, <1>12, <1>13, <1>14, <1>15 DEF IInv

\* Nothing has been offered, sold or answered at the start.
LEMMA InitInvariant ==
  ASSUME Init
  PROVE  IInv
<1>1. \A c \in Comparisons : comparison[c].status = "absent" /\ comparison[c].expense = NoExpense
  BY DEF Init, RowOf
<1>2. TypeOK
  BY RowType, IdleFields DEF Init, TypeOK
<1>3. LoadsOwnSale
  BY IdleFields DEF Init, LoadsOwnSale
<1> QED
  BY <1>1, <1>2, <1>3 DEF Init, IInv, RowsMatchSales, ConvertedHasExpense, OnlyConvertedLinked,
     OneExpensePerComparison

\* Every step of a conversion before and after the claim.
LEMMA ConvertStep ==
  ASSUME IInv, NEW r \in Requests, Convert(r)
  PROVE  IInv'
<1> DEFINE o == request[r]
<1>1. /\ o \in Request
      /\ o # Idle => o.comparison \in Comparisons
      /\ o.phase \in {"reread", "context", "claim", "raced", "load"} =>
           o.comparison \in Comparisons /\ o.key \in Keys /\ o.body \in Bodies
      /\ answers \subseteq sales
      /\ clock \in Nat
  BY IdleFields DEF IInv, TypeOK, LoadsOwnSale
<1>2. ASSUME NEW c \in Comparisons, NEW k \in Keys, NEW b \in Bodies, ConvertRead(r, c, k, b)
      PROVE  IInv'
  <2>1. Sound(Proceed(AfterRead(c, k, b, "reread"), c, k, b))
    BY ProceedSound
  <2> QED
    BY <1>1, <1>2, <2>1, RequestStep DEF ConvertRead, OnlyRequests
<1>3. ASSUME ConvertReread(r)
      PROVE  IInv'
  <2> DEFINE next == Proceed(IF Exists(o.comparison) THEN "context" ELSE "idle", o.comparison, o.key, o.body)
  <2>1. At("context", o.comparison, o.key, o.body, 0, NoExpense) \in Request
    BY <1>1, <1>3, AtType DEF ConvertReread, Phases
  <2>2. Sound(next)
    BY <1>1, <1>3, <2>1, IdleSound DEF ConvertReread, Proceed, Sound, At
  <2> QED
    BY <1>1, <1>3, <2>2, RequestStep DEF ConvertReread, OnlyRequests
<1>4. ASSUME ConvertContext(r)
      PROVE  IInv'
  <2> DEFINE next == At("claim", o.comparison, o.key, o.body, clock, NoExpense)
  <2>1. next \in Request
    BY <1>1, <1>4, AtType DEF ConvertContext, Phases
  <2>2. Sound(next)
    BY <1>1, <1>4, <2>1 DEF ConvertContext, Sound, At
  <2> QED
    BY <1>1, <1>4, <2>2, RequestStep DEF ConvertContext, OnlyRequests
<1>5. ASSUME ConvertRaced(r)
      PROVE  IInv'
  <2> DEFINE next == Proceed("raced", o.comparison, o.key, o.body)
  <2>1. At("raced", o.comparison, o.key, o.body, 0, NoExpense) \in Request
    BY <1>1, <1>5, AtType DEF ConvertRaced, Phases
  <2>2. Sound(next)
    BY <1>1, <1>5, <2>1 DEF ConvertRaced, Proceed, Sound, At
  <2> QED
    BY <1>1, <1>5, <2>2, RequestStep DEF ConvertRaced, OnlyRequests
<1>6. ASSUME ConvertRacedRead(r)
      PROVE  IInv'
  <2>1. Sound(Proceed(AfterRead(o.comparison, o.key, o.body, "idle"), o.comparison, o.key, o.body))
    BY <1>1, <1>6, ProceedSound DEF ConvertRacedRead
  <2>2. Proceed("idle", o.comparison, o.key, o.body) = Idle
    BY DEF Proceed
  <2> QED
    BY <1>1, <1>6, <2>1, <2>2, IdleSound, RequestStep DEF ConvertRacedRead, OnlyRequests
<1>7. ASSUME ConvertLoad(r)
      PROVE  IInv'
  <2>1. SaleOf(o.comparison, o.expense, o.key, o.body) \in sales
    BY <1>7 DEF ConvertLoad, IInv, LoadsOwnSale
  <2> QED
    BY <1>1, <1>7, <2>1, IdleSound, RequestStep DEF ConvertLoad
<1> QED
  BY <1>2, <1>3, <1>4, <1>5, <1>6, <1>7, ClaimStep DEF Convert

\* Every step keeps the invariant.
LEMMA NextInvariant ==
  ASSUME IInv, [Next]_vars
  PROVE  IInv'
<1>1. ASSUME NEW r \in Requests, NEW c \in Comparisons, GetById(r, c) \/ Discard(r, c)
      PROVE  IInv'
  <2>1. \A phase \in {"purge", "discard"} : Sound(At(phase, c, NoKey, NoBody, 0, NoExpense))
    BY AtType DEF Sound, At, Phases
  <2> QED
    BY <1>1, <2>1, RequestStep DEF GetById, Discard, OnlyRequests, IInv
<1>2. ASSUME NEW r \in Requests, DeleteById(r)
      PROVE  IInv'
  <2> DEFINE c == request[r].comparison
             D == IF Exists(c) THEN {c} ELSE {}
  <2>1. c \in Comparisons
    BY <1>2, IdleFields DEF DeleteById, IInv, LoadsOwnSale
  <2>2. comparison' = [d \in Comparisons |-> IF d \in D THEN Deleted(comparison[d]) ELSE comparison[d]]
    BY <1>2, <2>1 DEF DeleteById, IInv, TypeOK
  <2>3. D \in SUBSET Comparisons /\ \A d \in D : Exists(d)
    BY <2>1
  <2> HIDE DEF D
  <2> QED
    BY <1>2, <2>2, <2>3, DeletionStep DEF DeleteById
<1>3. ASSUME NEW r \in Requests, Abandon(r)
      PROVE  IInv'
  BY <1>3, IdleSound, RequestStep DEF Abandon, OnlyRequests, IInv
<1>4. CASE Cleanup
  <2> DEFINE D == {c \in Comparisons : Cleanable(c)}
  <2>1. comparison' = [d \in Comparisons |-> IF d \in D THEN Deleted(comparison[d]) ELSE comparison[d]]
    BY <1>4 DEF Cleanup
  <2>2. \A c \in D : Exists(c)
    BY DEF Cleanable, Exists
  <2> QED
    BY <1>4, <2>1, <2>2, DeletionStep DEF Cleanup
<1>5. CASE Tick
  BY <1>5 DEF Tick, IInv, TypeOK, RowsMatchSales, ConvertedHasExpense, OnlyConvertedLinked,
     LoadsOwnSale, OneExpensePerComparison
<1>6. CASE UNCHANGED vars
  BY <1>6 DEF vars, IInv, TypeOK, RowsMatchSales, ConvertedHasExpense, OnlyConvertedLinked,
     LoadsOwnSale, OneExpensePerComparison
<1> QED
  BY <1>1, <1>2, <1>3, <1>4, <1>5, <1>6, CreateStep, DeleteExpenseStep, ConvertStep DEF Next

\* The inductive invariant: rows, sales and handlers in flight agree.
THEOREM ComparisonInvariant == Spec => []IInv
<1>1. Init => IInv
  BY InitInvariant
<1>2. IInv /\ [Next]_vars => IInv'
  BY NextInvariant
<1> QED
  BY <1>1, <1>2, PTL DEF Spec

\* REQ-002: a comparison becomes at most one expense, and no expense comes from two,
\* whatever requests race (convertToExpense's conditional claim).
THEOREM OneExpenseHolds == Spec => []OneExpensePerComparison
<1>1. IInv => OneExpensePerComparison
  BY DEF IInv
<1> QED
  BY <1>1, ComparisonInvariant, PTL

\* A converted row always has its live expense: the missing-expense 409 is unreachable.
THEOREM ConvertedHasExpenseHolds == Spec => []ConvertedHasExpense
<1>1. IInv => ConvertedHasExpense
  BY DEF IInv, RowsMatchSales
<1> QED
  BY <1>1, ComparisonInvariant, PTL

\* REQ-003: all successful answers about a comparison name one expense, key and body.
THEOREM AnswersAgreeHolds == Spec => []AnswersAgree
<1>1. IInv => AnswersAgree
  BY DEF IInv, OneExpensePerComparison, AnswersAgree
<1> QED
  BY <1>1, ComparisonInvariant, PTL

-----------------------------------------------------------------------------
(* Conversions and the deletions that overlap them.                        *)

\* What a step may do to the rows, seen by the handlers about to delete one.
RowsAge ==
  \A c \in Comparisons :
    /\ comparison[c].status # "absent" =>
         comparison'[c].status # "absent" /\ comparison'[c].expiresAt = comparison[c].expiresAt
    /\ comparison'[c].status = "CONVERTED" => comparison[c].status = "CONVERTED"

\* A step that converts nothing, and after which the handlers that delete stand where they stood.
LEMMA OverlapsKept ==
  ASSUME IInv, OverlapsInv, RowsAge, late \subseteq late', clock' >= clock, clock \in Nat, clock' \in Nat,
         \A q \in Requests : \/ request'[q].phase \notin {"purge", "discard"}
                             \/ request'[q] = request[q] /\ (q \in crossed => q \in crossed')
  PROVE  OverlapsInv'
<1> SUFFICES ASSUME NEW q \in Requests, request'[q].phase \in {"purge", "discard"}
             PROVE  LET c == request'[q].comparison IN
                    /\ comparison'[c].status # "absent"
                    /\ request'[q].phase = "purge" => comparison'[c].expiresAt <= clock'
                    /\ comparison'[c].status = "CONVERTED" =>
                         q \in crossed' /\ (request'[q].phase = "purge" => c \in late')
  BY DEF OverlapsInv, Deleting
<1> DEFINE c == request[q].comparison
<1>1. request'[q] = request[q] /\ (q \in crossed => q \in crossed')
  OBVIOUS
<1>2. c \in Comparisons
  BY <1>1, IdleFields DEF IInv, LoadsOwnSale
<1>3. /\ comparison[c].status # "absent"
      /\ request[q].phase = "purge" => comparison[c].expiresAt <= clock
      /\ comparison[c].status = "CONVERTED" =>
           q \in crossed /\ (request[q].phase = "purge" => c \in late)
  BY <1>1 DEF OverlapsInv, Deleting
<1>4. comparison[c].expiresAt \in Nat
  BY <1>2 DEF IInv, TypeOK, Row
<1>5. comparison'[c].status # "absent" /\ comparison'[c].expiresAt = comparison[c].expiresAt
  BY <1>2, <1>3 DEF RowsAge
<1>6. request[q].phase = "purge" => comparison'[c].expiresAt <= clock'
  BY <1>3, <1>4, <1>5
<1>7. comparison'[c].status = "CONVERTED" =>
        q \in crossed' /\ (request[q].phase = "purge" => c \in late')
  BY <1>1, <1>2, <1>3 DEF RowsAge
<1> QED
  BY <1>1, <1>5, <1>6, <1>7

\* A handler that goes to delete a row has read it PENDING, and to purge it, expired.
LEMMA Aims ==
  ASSUME IInv, OverlapsInv, NEW r \in Requests, NEW o, Goto(r, o),
         UNCHANGED <<comparison, clock, crossed, late>>,
         o.phase \in {"purge", "discard"} =>
           /\ comparison[o.comparison].status = "PENDING"
           /\ o.phase = "purge" => Expired(o.comparison)
  PROVE  OverlapsInv'
<1>1. \A q \in Requests : request'[q] = IF q = r THEN o ELSE request[q]
  BY DEF Goto, IInv, TypeOK
<1> QED
  BY <1>1 DEF OverlapsInv, Deleting, Expired

LEMMA Deletion ==
  ASSUME IInv, OverlapsInv, UNCHANGED <<clock, late>>,
         \A c \in Comparisons : \/ comparison'[c] = comparison[c]
                                \/ comparison'[c] = Deleted(comparison[c]),
         \/ UNCHANGED <<request, crossed>>
         \/ \E r \in Requests : Goto(r, Idle) /\ crossed' = crossed \ {r}
  PROVE  OverlapsInv'
<1>1. RowsAge
  <2>1. \A row : Deleted(row).status = "deleted" /\ Deleted(row).expiresAt = row.expiresAt
    BY DEF Deleted, RowOf
  <2> QED
    BY <2>1 DEF RowsAge
<1>2. \A q \in Requests : \/ request'[q].phase \notin {"purge", "discard"}
                          \/ request'[q] = request[q] /\ (q \in crossed => q \in crossed')
  BY IdleFields DEF Goto, IInv, TypeOK
<1>3. clock \in Nat /\ clock' >= clock
  BY DEF IInv, TypeOK
<1> QED
  BY <1>1, <1>2, <1>3, OverlapsKept

\* The claim crosses the handlers about to delete its row; one that found it expired is there only
\* if the row has expired by now.
LEMMA ClaimOverlaps ==
  ASSUME IInv, OverlapsInv, NEW r \in Requests, NEW e \in Expenses, ConvertClaim(r, e)
  PROVE  OverlapsInv'
<1> DEFINE c == request[r].comparison
<1>1. /\ c \in Comparisons /\ ~Deleting(r) /\ UNCHANGED clock
      /\ request' = [request EXCEPT ![r] = Idle]
      /\ crossed' = crossed \cup {q \in Requests : Deleting(q) /\ request[q].comparison = c}
      /\ late' = late \cup {d \in {c} : comparison[d].expiresAt <= clock}
  BY DEF ConvertClaim, Goto, Deleting, IInv, LoadsOwnSale, Idle, At
<1>2. \A d \in Comparisons : /\ d # c => comparison'[d] = comparison[d]
                             /\ comparison'[d].expiresAt = comparison[d].expiresAt
                             /\ d = c => comparison'[d].status = "CONVERTED"
  BY <1>1 DEF ConvertClaim, IInv, TypeOK, RowOf
<1> HIDE DEF c
<1> SUFFICES ASSUME NEW q \in Requests, request'[q].phase \in {"purge", "discard"}
             PROVE  LET d == request'[q].comparison IN
                    /\ comparison'[d].status # "absent"
                    /\ request'[q].phase = "purge" => comparison'[d].expiresAt <= clock'
                    /\ comparison'[d].status = "CONVERTED" =>
                         q \in crossed' /\ (request'[q].phase = "purge" => d \in late')
  BY DEF OverlapsInv, Deleting
<1> DEFINE d == request[q].comparison
<1>3. request'[q] = request[q] /\ Deleting(q)
  BY <1>1, IdleFields DEF IInv, TypeOK, Deleting
<1>4. d \in Comparisons
  BY <1>3, IdleFields DEF IInv, LoadsOwnSale, Deleting
<1>5. /\ comparison[d].status # "absent"
      /\ request[q].phase = "purge" => comparison[d].expiresAt <= clock
      /\ comparison[d].status = "CONVERTED" =>
           q \in crossed /\ (request[q].phase = "purge" => d \in late)
  BY <1>3 DEF OverlapsInv
<1> HIDE DEF d
<1>6. CASE d = c
  BY <1>1, <1>2, <1>3, <1>4, <1>5, <1>6 DEF d
<1>7. CASE d # c
  BY <1>1, <1>2, <1>3, <1>4, <1>5, <1>7 DEF d
<1> QED
  BY <1>6, <1>7

\* From a row that was read a conversion goes to purge it only if it is PENDING and expired.
LEMMA ReadAims ==
  ASSUME NEW c, NEW k, NEW b, NEW pending \in {"idle", "reread"},
         NEW o, o = Proceed(AfterRead(c, k, b, pending), c, k, b)
  PROVE  /\ o.phase # "discard"
         /\ o.phase = "purge" => o.comparison = c /\ Expired(c)
<1> DEFINE phase == AfterRead(c, k, b, pending)
<1>1. phase \in {"load", "idle", "purge", "reread"} /\ (phase = "purge" => Expired(c))
  BY DEF AfterRead
<1> HIDE DEF phase
<1>2. CASE phase = "idle"
  BY <1>2, IdleFields DEF Proceed, phase
<1>3. CASE phase # "idle"
  <2>1. o.phase = phase /\ o.comparison = c
    BY <1>3 DEF Proceed, At, phase
  <2> QED
    BY <1>1, <2>1
<1> QED
  BY <1>2, <1>3

LEMMA ConvertOverlaps ==
  ASSUME IInv, OverlapsInv, NEW r \in Requests, Convert(r)
  PROVE  OverlapsInv'
<1> DEFINE q == request[r]
<1>1. ASSUME NEW o, Goto(r, o), UNCHANGED <<comparison, clock, crossed, late>>,
             o.phase # "discard", o.phase = "purge" => Expired(o.comparison)
      PROVE  OverlapsInv'
  BY <1>1, Aims DEF Expired
<1>2. ASSUME NEW c \in Comparisons, NEW k \in Keys, NEW b \in Bodies, ConvertRead(r, c, k, b)
      PROVE  OverlapsInv'
  <2>1. PICK o : o = Proceed(AfterRead(c, k, b, "reread"), c, k, b)
    OBVIOUS
  <2>2. Goto(r, o) /\ UNCHANGED <<comparison, clock, crossed, late>>
    BY <1>2, <2>1 DEF ConvertRead, OnlyRequests
  <2>3. o.phase # "discard" /\ (o.phase = "purge" => Expired(o.comparison))
    BY <2>1, ReadAims
  <2> QED
    BY <1>1, <2>2, <2>3
<1>3. ASSUME ConvertReread(r) \/ ConvertContext(r) \/ ConvertRaced(r) \/ ConvertLoad(r)
      PROVE  OverlapsInv'
  <2>1. PICK o : Goto(r, o) /\ o.phase \in {"idle", "context", "claim", "raced"}
    <3>1. /\ Idle.phase = "idle"
          /\ \A phase, c, k, b, now, e : At(phase, c, k, b, now, e).phase = phase
      BY DEF Idle, At
    <3>2. ConvertReread(r) => Goto(r, Idle) \/ Goto(r, At("context", q.comparison, q.key, q.body, 0, NoExpense))
      BY DEF ConvertReread, Proceed
    <3>3. ConvertRaced(r) => Goto(r, At("raced", q.comparison, q.key, q.body, 0, NoExpense))
      BY DEF ConvertRaced, Proceed
    <3>4. ConvertContext(r) => Goto(r, At("claim", q.comparison, q.key, q.body, clock, NoExpense))
      BY DEF ConvertContext
    <3>5. ConvertLoad(r) => Goto(r, Idle)
      BY DEF ConvertLoad
    <3> QED
      BY <1>3, <3>1, <3>2, <3>3, <3>4, <3>5
  <2>2. UNCHANGED <<comparison, clock, crossed, late>>
    BY <1>3 DEF ConvertReread, ConvertContext, ConvertRaced, ConvertLoad, OnlyRequests
  <2> QED
    BY <1>1, <2>1, <2>2
<1>4. ASSUME ConvertRacedRead(r)
      PROVE  OverlapsInv'
  <2>1. Proceed("idle", q.comparison, q.key, q.body) = Idle
    BY DEF Proceed
  <2>2. PICK o : /\ Goto(r, o)
                 /\ \/ o = Idle
                    \/ o = Proceed(AfterRead(q.comparison, q.key, q.body, "idle"), q.comparison, q.key, q.body)
    BY <1>4, <2>1 DEF ConvertRacedRead
  <2>3. o.phase # "discard" /\ (o.phase = "purge" => Expired(o.comparison))
    BY <2>2, ReadAims, IdleFields
  <2>4. UNCHANGED <<comparison, clock, crossed, late>>
    BY <1>4 DEF ConvertRacedRead, OnlyRequests
  <2> QED
    BY <1>1, <2>2, <2>3, <2>4
<1> QED
  BY <1>2, <1>3, <1>4, ClaimOverlaps DEF Convert

LEMMA OverlapsStep ==
  ASSUME IInv, OverlapsInv, [Next]_vars
  PROVE  OverlapsInv'
<1>1. ASSUME NEW r \in Requests, NEW c \in Comparisons, GetById(r, c) \/ Discard(r, c)
      PROVE  OverlapsInv'
  <2>1. PICK phase \in {"purge", "discard"} :
          /\ Goto(r, At(phase, c, NoKey, NoBody, 0, NoExpense))
          /\ comparison[c].status = "PENDING" /\ (phase = "purge" => Expired(c))
    BY <1>1 DEF GetById, Discard, Expired
  <2>2. PICK o : o = At(phase, c, NoKey, NoBody, 0, NoExpense)
    OBVIOUS
  <2>3. o.phase = phase /\ o.comparison = c
    BY <2>2 DEF At
  <2>4. UNCHANGED <<comparison, clock, crossed, late>>
    BY <1>1 DEF GetById, Discard, OnlyRequests
  <2> QED
    BY <2>1, <2>2, <2>3, <2>4, Aims
<1>2. ASSUME NEW r \in Requests, DeleteById(r) \/ Abandon(r) PROVE OverlapsInv'
  <2>1. \A c \in Comparisons : comparison'[c] = comparison[c] \/ comparison'[c] = Deleted(comparison[c])
    BY <1>2 DEF DeleteById, Abandon, IInv, TypeOK
  <2>2. Goto(r, Idle) /\ crossed' = crossed \ {r} /\ UNCHANGED <<clock, late>>
    BY <1>2 DEF DeleteById, Abandon
  <2> QED
    BY <2>1, <2>2, Deletion
<1>3. CASE Cleanup \/ \E e \in Expenses : DeleteExpense(e)
  <2>1. \A c \in Comparisons : comparison'[c] = comparison[c] \/ comparison'[c] = Deleted(comparison[c])
    BY <1>3 DEF Cleanup, DeleteExpense
  <2>2. UNCHANGED <<clock, late, request, crossed>>
    BY <1>3 DEF Cleanup, DeleteExpense
  <2> QED
    BY <2>1, <2>2, Deletion
<1>4. CASE Tick \/ UNCHANGED vars \/ \E c \in Comparisons : Create(c)
  <2>1. RowsAge
    BY <1>4 DEF Tick, vars, Create, RowsAge, RowOf, IInv, TypeOK
  <2>2. UNCHANGED <<request, crossed, late>>
    BY <1>4 DEF Tick, vars, Create
  <2>3. clock \in Nat /\ clock' \in Nat /\ clock' >= clock
    BY <1>4 DEF Tick, vars, Create, IInv, TypeOK
  <2> QED
    BY <2>1, <2>2, <2>3, OverlapsKept
<1> QED
  BY <1>1, <1>2, <1>3, <1>4, ConvertOverlaps DEF Next

\* A converted row goes with its expense, or by a handler the conversion crossed.
LEMMA KeptStep ==
  ASSUME IInv, OverlapsInv, [Next]_vars, NEW c \in Comparisons,
         comparison[c].status = "CONVERTED", comparison'[c].status = "deleted"
  PROVE  \/ expenseStatus'[comparison[c].expense] = "deleted"
         \/ \E r \in crossed :
              /\ request[r].comparison = c /\ request'[r] = Idle
              /\ request[r].phase = "discard" \/ c \in late
<1>1. ASSUME NEW r \in Requests, DeleteById(r)
      PROVE  \E p \in crossed : /\ request[p].comparison = c /\ request'[p] = Idle
                                /\ request[p].phase = "discard" \/ c \in late
  <2>1. request[r].comparison = c /\ request'[r] = Idle /\ request[r].phase \in {"purge", "discard"}
    BY <1>1 DEF DeleteById, Goto, IInv, TypeOK
  <2>2. r \in crossed /\ (request[r].phase = "purge" => c \in late)
    BY <2>1 DEF OverlapsInv, Deleting
  <2> QED
    BY <2>1, <2>2
<1>2. ASSUME NEW e \in Expenses, DeleteExpense(e) PROVE expenseStatus'[comparison[c].expense] = "deleted"
  <2>1. comparison[c].expense = e
    BY <1>2 DEF DeleteExpense
  <2> QED
    BY <1>2, <2>1 DEF DeleteExpense, IInv, TypeOK
<1>3. ~Cleanup
  BY DEF Cleanup, Cleanable
<1>4. ~ \E d \in Comparisons : Create(d)
  BY DEF Create, RowOf, IInv, TypeOK
<1>5. ASSUME NEW r \in Requests PROVE ~Convert(r)
  <2>1. ASSUME NEW e \in Expenses, ConvertClaim(r, e)
        PROVE  comparison'[c] = comparison[c] \/ comparison'[c].status = "CONVERTED"
    BY <2>1 DEF ConvertClaim, IInv, TypeOK, RowOf
  <2> QED
    BY <2>1 DEF Convert, ConvertRead, ConvertReread, ConvertContext, ConvertRaced, ConvertRacedRead,
       ConvertLoad, OnlyRequests
<1>6. ~(Tick \/ UNCHANGED vars \/ \E r \in Requests : Abandon(r))
  BY DEF Tick, vars, Abandon
<1>7. ~ \E r \in Requests, d \in Comparisons : GetById(r, d) \/ Discard(r, d)
  BY DEF GetById, Discard, OnlyRequests
<1> QED
  BY <1>1, <1>2, <1>3, <1>4, <1>5, <1>6, <1>7 DEF Next

\* comparison-cleanup.job.ts:12, "nunca toca CONVERTED": no conversion is lost to the hourly job,
\* to a reader or to another conversion; a discard takes one only when it read the row before the
\* conversion, and the purge of an expired row only when, besides, the claim committed late.
THEOREM ConversionKeptHolds == Spec => ConversionKept
<1>1. IInv /\ OverlapsInv /\ [Next]_vars =>
        [\A c \in Comparisons :
           comparison[c].status = "CONVERTED" /\ comparison'[c].status = "deleted" =>
             \/ expenseStatus'[comparison[c].expense] = "deleted"
             \/ \E r \in crossed :
                  /\ request[r].comparison = c /\ request'[r] = Idle
                  /\ request[r].phase = "discard" \/ c \in late]_vars
  BY KeptStep
<1>2. Init => OverlapsInv
  BY IdleFields DEF Init, OverlapsInv, Deleting
<1>3. IInv /\ OverlapsInv /\ [Next]_vars => OverlapsInv'
  BY OverlapsStep
<1> QED
  BY <1>1, <1>2, <1>3, ComparisonInvariant, PTL DEF Spec, ConversionKept

-----------------------------------------------------------------------------
(* The refinement.                                                         *)

OfferedBar == {c \in Comparisons : comparison[c].status # "absent"}
OpenBar == {c \in Comparisons : comparison[c].status = "PENDING"}

\* What each step of a handler, of the job or of the clock is in OneExpense.
LEMMA StepRefines ==
  ASSUME IInv, [Next]_vars
  PROVE  [Contract!Next]_<<OfferedBar, OpenBar, sales, answers>>
<1> DEFINE abs == <<OfferedBar, OpenBar, sales, answers>>
<1>1. ASSUME UNCHANGED <<comparison, sales, answers>>
      PROVE  UNCHANGED abs
  BY <1>1 DEF OfferedBar, OpenBar
<1>2. ASSUME NEW c \in Comparisons, Create(c)
      PROVE  Contract!Offer(c)
  <2>1. RowOf("PENDING", clock + Ttl, NoExpense, NoKey, NoBody).status = "PENDING"
    BY DEF RowOf
  <2>2. \A d \in Comparisons : comparison'[d].status = IF d = c THEN "PENDING" ELSE comparison[d].status
    BY <1>2, <2>1 DEF Create, IInv, TypeOK
  <2> QED
    BY <1>2, <2>2 DEF Create, Contract!Offer
<1>3. ASSUME NEW D \in SUBSET Comparisons, \A c \in D : Exists(c), UNCHANGED <<sales, answers>>,
             \A d \in Comparisons : comparison'[d].status = IF d \in D THEN "deleted" ELSE comparison[d].status
      PROVE  Contract!Withdraw(D)
  BY <1>3 DEF Contract!Withdraw, Exists
<1>4. ASSUME NEW r \in Requests, NEW e \in Expenses, ConvertClaim(r, e)
      PROVE  \E s \in Sale : Contract!Sell(s)
  <2> DEFINE o == request[r]
  <2>1. /\ o.comparison \in Comparisons
        /\ o.key \in Keys
        /\ o.body \in Bodies
    BY <1>4 DEF ConvertClaim, IInv, LoadsOwnSale, Idle, At
  <2>2. PICK s \in Sale : s = SaleOf(o.comparison, e, o.key, o.body)
    BY <2>1 DEF SaleOf, Sale
  <2>3. s.comparison = o.comparison /\ s.expense = e
    BY <2>2 DEF SaleOf
  <2>4. /\ comparison[s.comparison].status = "PENDING"
        /\ expenseStatus[s.expense] = "unused"
        /\ sales' = sales \cup {s}
        /\ answers' = answers \cup {s}
    BY <1>4, <2>2, <2>3 DEF ConvertClaim, Claimable
  <2>5. \A d \in Comparisons :
          comparison'[d].status = IF d = s.comparison THEN "CONVERTED" ELSE comparison[d].status
    BY <1>4, <2>1, <2>3 DEF ConvertClaim, IInv, TypeOK, RowOf
  <2>6. \A t \in sales : t.expense # s.expense
    BY <2>4 DEF IInv, RowsMatchSales
  <2>7. s.comparison \in Comparisons
    BY <2>1, <2>3
  <2>8. Contract!Sell(s)
    BY <2>4, <2>5, <2>6, <2>7 DEF Contract!Sell
  <2> QED
    BY <2>8
<1>5. ASSUME NEW r \in Requests, ConvertLoad(r)
      PROVE  UNCHANGED abs \/ \E s \in Sale : Contract!Confirm(s)
  <2> DEFINE o == request[r]
             sale == SaleOf(o.comparison, o.expense, o.key, o.body)
  <2>1. sale \in sales /\ sale \in Sale
    BY <1>5 DEF ConvertLoad, IInv, TypeOK, LoadsOwnSale
  <2>2. UNCHANGED <<comparison, sales>> /\ (answers' = answers \/ answers' = answers \cup {sale})
    BY <1>5 DEF ConvertLoad
  <2> HIDE DEF sale
  <2> QED
    BY <2>1, <2>2 DEF Contract!Confirm, OfferedBar, OpenBar
<1>6. ASSUME NEW r \in Requests, DeleteById(r)
      PROVE  \E D \in SUBSET Comparisons : Contract!Withdraw(D)
  <2> DEFINE c == request[r].comparison
             D == IF Exists(c) THEN {c} ELSE {}
  <2>1. c \in Comparisons
    BY <1>6, IdleFields DEF DeleteById, IInv, LoadsOwnSale
  <2>2. \A d \in Comparisons : comparison'[d].status = IF d \in D THEN "deleted" ELSE comparison[d].status
    BY <1>6, <2>1, DeletedType DEF DeleteById, IInv, TypeOK
  <2>3. D \in SUBSET Comparisons /\ \A d \in D : Exists(d)
    BY <2>1
  <2>4. UNCHANGED <<sales, answers>>
    BY <1>6 DEF DeleteById
  <2> HIDE DEF D
  <2> QED
    BY <1>3, <2>2, <2>3, <2>4
<1>7. ASSUME Cleanup
      PROVE  \E D \in SUBSET Comparisons : Contract!Withdraw(D)
  <2> DEFINE D == {c \in Comparisons : Cleanable(c)}
  <2>1. \A d \in Comparisons : comparison'[d].status = IF d \in D THEN "deleted" ELSE comparison[d].status
    BY <1>7, DeletedType DEF Cleanup, IInv, TypeOK
  <2>2. \A c \in D : Exists(c)
    BY DEF Cleanable, Exists
  <2> QED
    BY <1>3, <1>7, <2>1, <2>2 DEF Cleanup
<1>8. ASSUME NEW e \in Expenses, DeleteExpense(e)
      PROVE  \E D \in SUBSET Comparisons : Contract!Withdraw(D)
  <2> DEFINE D == {c \in Comparisons : comparison[c].expense = e}
  <2>1. \A d \in Comparisons : comparison'[d].status = IF d \in D THEN "deleted" ELSE comparison[d].status
    BY <1>8, DeletedType DEF DeleteExpense, IInv, TypeOK
  <2>2. \A c \in D : Exists(c)
    BY PaymentComparisonAssumption DEF IInv, OnlyConvertedLinked, Exists
  <2> QED
    BY <1>3, <1>8, <2>1, <2>2 DEF DeleteExpense
<1>9. ASSUME NEW r \in Requests, Convert(r)
      PROVE  [Contract!Next]_abs
  BY <1>1, <1>4, <1>5, <1>9 DEF Convert, Contract!Next, Contract!Sale, Sale, OnlyRequests,
     ConvertRead, ConvertReread, ConvertContext, ConvertRaced, ConvertRacedRead
<1>10. ASSUME UNCHANGED comparison, UNCHANGED <<sales, answers>>
       PROVE  [Contract!Next]_abs
  BY <1>1, <1>10
<1> QED
  <2>1. CASE Next
    BY <2>1, <1>1, <1>2, <1>6, <1>7, <1>8, <1>9 DEF Next, Contract!Next, GetById, Discard, Abandon, Tick,
       OnlyRequests
  <2>2. CASE UNCHANGED vars
    BY <2>2, <1>1 DEF vars
  <2> QED
    BY <2>1, <2>2

\* convertToExpense and the deletions implement the abstract sale: offered, then withdrawn
\* or sold once, and every successful answer names the sale of its own key and body.
THEOREM ContractImplemented == Spec => ImplementsContract
<1>1. Init => Contract!Init
  BY DEF Init, Contract!Init, RowOf
<1>2. IInv /\ [Next]_vars => [Contract!Next]_<<OfferedBar, OpenBar, sales, answers>>
  BY StepRefines
<1> QED
  BY <1>1, <1>2, ComparisonInvariant, PTL DEF Spec, ImplementsContract, Contract!Spec, OfferedBar, OpenBar
=============================================================================
