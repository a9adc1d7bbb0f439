-------------------------- MODULE TelegramChatProofs --------------------------
(* Proofs about TelegramChat, for any number of handlers, senders, accounts, *)
(* entries and amounts: the inductive invariant and the four properties.     *)
EXTENDS TelegramChat, TLAPS

\* The phase of a handler says which row it holds.
LEMMA RowsByPhase ==
  ASSUME NEW q \in HandlerRows
  PROVE  /\ q.phase = "idle" => q = Idle
         /\ q \in Readers <=> q.phase \in {"reading", "answering", "dispatching"}
         /\ q \in Savers <=> q.phase = "saving"
         /\ q \in Pressers <=> q.phase \in {"updating", "picked", "deleting"}
         /\ q \in Clarifiers <=> q.phase = "clarifying"
         /\ q \in Closers <=> q.phase = "closing"
         /\ q \in Choosers <=> q.phase = "choosing"
         /\ q \in Editors <=> q.phase = "editing"
         /\ q \in Registrars <=> q.phase = "registering"
BY DEF HandlerRows, Idle, Readers, Savers, Pressers, Clarifiers, Closers, Choosers, Editors,
       Registrars, HoldingRows

\* Who carries an amount, by the kind of row.
LEMMA CarriesByRow ==
  ASSUME NEW a \in Amounts
  PROVE  /\ ~Carries(Idle, a)
         /\ \A q \in Readers : Carries(q, a) <=> q.text.amount = a
         /\ \A q \in Savers : Carries(q, a) <=> PendingAmount(q.pending) = a
         /\ \A q \in Pressers \cup Clarifiers : ~Carries(q, a)
         /\ \A q \in Closers \cup Choosers \cup Editors \cup Registrars : Carries(q, a) <=> q.amount = a
BY DEF Carries, Idle, Readers, Savers, Pressers, Clarifiers, Closers, Choosers, Editors,
       Registrars, HoldingRows, HoldingPhases

\* The amount of a pending action.
LEMMA PendingFacts ==
  /\ NoPending \in Pendings /\ PendingAmount(NoPending) = NoAmount
  /\ \A p \in Pendings : PendingAmount(p) \in MaybeAmounts /\ (p # NoPending => PendingAmount(p) = p.amount)
  /\ \A p \in Pendings : p.type = "update" => p.id \in Entries /\ p # NoPending
  /\ \A p \in Pendings : p.type = "clarify" => p # NoPending
  /\ \A a \in MaybeAmounts : Clarification(a) \in Pendings /\ PendingAmount(Clarification(a)) = a
  /\ \A e \in Entries, a \in MaybeAmounts : Update(e, a) \in Pendings /\ PendingAmount(Update(e, a)) = a
BY DEF Pendings, PendingAmount, NoPending, MaybeAmounts, Clarification, Update

\* Everything of the invariant but the types.
Placing == AmountAppliedOnce /\ UntypedNowhere /\ OnePlace /\ DeletionsAsked

\* What a handler may become without disturbing where amounts are: it carries what it carried
\* before it cleared anything, or what is pending and nobody else holds.
MayBecome(r, o) ==
  /\ \A a \in Amounts : Carries(o, a) =>
       \/ Carries(request[r], a) /\ request[r] \notin Closers
       \/ o \in Closers /\ PendingAmount(pending) = a /\ (a \notin raced' => ~Held(a))
  /\ o \in Pressers /\ o.phase = "deleting" /\ KindOf[o.target] = "expense" => o.target \in asked

\* A step that moves one handler so, and neither what is pending nor any fate, keeps the invariant.
LEMMA MoveStep ==
  ASSUME IInv, NEW r \in Requests, NEW o \in HandlerRows, Goto(r, o), MayBecome(r, o),
         UNCHANGED <<pending, fate>>, raced \subseteq raced', asked \subseteq asked'
  PROVE  Placing' /\ request' \in [Requests -> HandlerRows]
<1>1. /\ request' \in [Requests -> HandlerRows] /\ request'[r] = o
      /\ \A s \in Requests : s # r => request'[s] = request[s]
  BY DEF IInv, TypeOK, Goto
<1>2. AmountAppliedOnce'
  BY DEF IInv, AmountAppliedOnce
<1>3. DeletionsAsked'
  BY <1>1 DEF IInv, DeletionsAsked, MayBecome
<1>4. UntypedNowhere'
  <2> SUFFICES ASSUME NEW a \in Amounts, fate[a] = "untyped"
               PROVE  PendingAmount(pending') # a /\ \A s \in Requests : ~Carries(request'[s], a)
    BY DEF UntypedNowhere
  <2>1. PendingAmount(pending) # a /\ \A s \in Requests : ~Carries(request[s], a)
    BY DEF IInv, UntypedNowhere
  <2>2. ~Carries(o, a)
    BY <2>1 DEF MayBecome
  <2> QED
    BY <1>1, <2>1, <2>2
<1>5. OnePlace'
  <2> SUFFICES ASSUME NEW a \in Amounts, a \notin raced'
               PROVE  /\ \A s, t \in Requests : Carries(request'[s], a) /\ Carries(request'[t], a) => s = t
                      /\ PendingAmount(pending) = a =>
                           fate[a] = "open" /\ \A s \in Requests : Carries(request'[s], a) => request'[s] \in Closers
                      /\ (\E s \in Requests : Carries(request'[s], a)) => fate[a] = "open"
    BY DEF OnePlace
  <2>1. /\ \A s, t \in Requests : Carries(request[s], a) /\ Carries(request[t], a) => s = t
        /\ PendingAmount(pending) = a =>
             fate[a] = "open" /\ \A s \in Requests : Carries(request[s], a) => request[s] \in Closers
        /\ (\E s \in Requests : Carries(request[s], a)) => fate[a] = "open"
    BY DEF IInv, OnePlace
  <2>2. CASE ~Carries(o, a)
    BY <1>1, <2>1, <2>2
  <2>3. CASE Carries(request[r], a) /\ request[r] \notin Closers
    BY <1>1, <2>1, <2>3
  <2>4. CASE Carries(o, a) /\ o \in Closers /\ PendingAmount(pending) = a /\ ~Held(a)
    <3>1. \A s \in Requests : ~Carries(request[s], a)
      <4> SUFFICES ASSUME NEW s \in Requests, Carries(request[s], a)
                   PROVE  FALSE
        OBVIOUS
      <4>1. request[s] \in Closers
        BY <2>1, <2>4
      <4>2. request[s].phase = "closing" /\ request[s].amount = a
        BY <4>1, CarriesByRow DEF Closers, HoldingRows
      <4> QED
        BY <2>4, <4>2 DEF Held, HoldingPhases
    <3> QED
      BY <1>1, <2>1, <2>4, <3>1
  <2> QED
    BY <2>2, <2>3, <2>4 DEF MayBecome
<1> QED
  BY <1>1, <1>2, <1>3, <1>4, <1>5 DEF Placing

-----------------------------------------------------------------------------
(* Messages.                                                               *)

\* The conjuncts of the types that a step of a handler does not touch.
LEMMA TypeStep ==
  ASSUME IInv, request' \in [Requests -> HandlerRows],
         UNCHANGED <<linked, entry, pending, fate>>, raced' \subseteq Amounts,
         asked' \subseteq ExpensesHere
  PROVE  TypeOK'
BY DEF IInv, TypeOK

\* A step that moves one handler and nothing else but the history of races and confirmations.
LEMMA HandlerStep ==
  ASSUME IInv, NEW r \in Requests, NEW o \in HandlerRows, Goto(r, o), MayBecome(r, o),
         UNCHANGED <<linked, entry, pending, fate>>,
         raced \subseteq raced', raced' \subseteq Amounts,
         asked \subseteq asked', asked' \subseteq ExpensesHere
  PROVE  IInv'
<1>1. Placing' /\ request' \in [Requests -> HandlerRows]
  BY MoveStep
<1>2. TypeOK'
  BY <1>1, TypeStep
<1> QED
  BY <1>1, <1>2 DEF Placing, IInv

\* A handler that ends, or moves on carrying nothing, disturbs nothing.
LEMMA QuietStep ==
  ASSUME IInv, NEW r \in Requests, NEW o \in HandlerRows, Goto(r, o),
         \A a \in Amounts : ~Carries(o, a),
         o \in Pressers /\ o.phase = "deleting" /\ KindOf[o.target] = "expense" => o.target \in asked,
         UNCHANGED <<linked, entry, pending, asked, fate, raced>>
  PROVE  IInv'
<1>1. MayBecome(r, o)
  BY DEF MayBecome
<1> QED
  BY <1>1, HandlerStep DEF IInv, TypeOK

\* An idle handler is a row that carries nothing.
LEMMA IdleFacts == Idle \in HandlerRows /\ Idle \notin Pressers /\ \A a \in Amounts : ~Carries(Idle, a)
BY CarriesByRow DEF HandlerRows, Idle, Pressers

\* A handler that ends disturbs nothing.
LEMMA EndStep ==
  ASSUME IInv, NEW r \in Requests, End(r), UNCHANGED <<linked, entry, pending, asked, fate, raced>>
  PROVE  IInv'
BY QuietStep, IdleFacts DEF End

\* A handler that goes on with the amount of its own row, before any clear.
LEMMA CarryStep ==
  ASSUME IInv, NEW r \in Requests, NEW o \in HandlerRows, Goto(r, o), o \notin Pressers,
         request[r] \notin Closers, \A a \in Amounts : Carries(o, a) => Carries(request[r], a),
         UNCHANGED <<linked, entry, pending, asked, fate, raced>>
  PROVE  IInv'
<1>1. MayBecome(r, o)
  BY DEF MayBecome
<1> QED
  BY <1>1, HandlerStep DEF IInv, TypeOK

\* A handler that takes an amount to clear what is pending.
LEMMA TakeStep ==
  ASSUME IInv, NEW r \in Requests, NEW account, NEW e, NEW a \in MaybeAmounts, NEW next,
         Take(r, account, e, a, next),
         Holding("closing", account, e, a, next) \in Closers,
         a \in Amounts => \/ Carries(request[r], a) /\ request[r] \notin Closers
                         \/ PendingAmount(pending) = a
  PROVE  IInv'
<1> DEFINE o == Holding("closing", account, e, a, next)
<1>1. o \in HandlerRows /\ o.amount = a /\ o.phase = "closing"
  BY DEF HandlerRows, Holding
<1>2. \A b \in Amounts : Carries(o, b) => a = b
  BY <1>1, CarriesByRow
<1>3. /\ raced \subseteq raced' /\ raced' \subseteq Amounts
      /\ a \in Amounts /\ a \notin raced' => ~Held(a)
  <2>1. raced' = IF a # NoAmount /\ Held(a) THEN raced \cup {a} ELSE raced
    BY DEF Take
  <2>2. a \in Amounts <=> a # NoAmount
    BY TelegramChatAssumption DEF MaybeAmounts
  <2>3. raced \subseteq Amounts
    BY DEF IInv, TypeOK
  <2> QED
    BY <2>1, <2>2, <2>3
<1>4. o \notin Pressers
  BY <1>1, RowsByPhase
<1>5. MayBecome(r, o)
  BY <1>2, <1>3, <1>4 DEF MayBecome
<1>6. Goto(r, o) /\ UNCHANGED <<linked, entry, pending, fate, asked>>
  BY DEF Take
<1> HIDE DEF o
<1> QED
  BY <1>1, <1>3, <1>5, <1>6, HandlerStep DEF IInv, TypeOK

\* What the rows of handlers hold.
LEMMA RowFields ==
  /\ \A q \in Readers : q.account \in Accounts /\ q.text \in Texts
  /\ \A q \in Savers : q.pending \in Pendings
  /\ \A q \in Clarifiers : q.account \in Accounts /\ q.target \in MovementsHere
  /\ \A q \in Closers : q.amount \in MaybeAmounts
  /\ \A q \in Choosers : q.account \in Accounts /\ q.target \in Entries /\ q.amount \in MaybeAmounts
  /\ \A q \in Editors : q.account \in Accounts /\ q.target \in Entries /\ q.amount \in Amounts
  /\ \A q \in Registrars : q.account \in Accounts /\ q.target \in MovementsHere /\ q.amount \in Amounts
BY DEF Readers, Savers, Pressers, Clarifiers, Closers, Choosers, Editors, Registrars, HoldingRows,
       MaybeAmounts, ExpensesHere

\* What a button pressed holds.
LEMMA PresserFields ==
  ASSUME NEW q \in Pressers
  PROVE  /\ q.account \in Accounts /\ q.target \in Entries
         /\ q.phase = "picked" => q.target \in ExpensesHere
BY DEF Pressers, ExpensesHere

\* What a message may say.
LEMMA TextFacts ==
  \A text \in Texts :
    /\ text.amount \in MaybeAmounts
    /\ text.intent = "register" => text.kind \in MovementsHere /\ text.amount \in Amounts
BY DEF Texts, RegistrationTexts, MutationTexts, MaybeAmounts

\* A handler is a row.
LEMMA HandlerRow ==
  ASSUME IInv, NEW r \in Requests
  PROVE  request[r] \in HandlerRows
BY DEF IInv, TypeOK

\* Receive: an amount typed now was nowhere before.
LEMMA ReceiveStep ==
  ASSUME IInv, NEW r \in Requests, NEW s \in Senders, NEW text \in Texts, Receive(r, s, text)
  PROVE  IInv'
<1> DEFINE o == [phase |-> "reading", account |-> linked[s], text |-> text]
<1>1. o \in Readers /\ o.text = text
  BY DEF Receive, IInv, TypeOK, Readers
<1>2. o \in HandlerRows /\ o \notin Pressers
  BY <1>1 DEF HandlerRows, Pressers
<1>3. \A b \in Amounts : Carries(o, b) <=> text.amount = b
  BY <1>1, CarriesByRow
<1>4. request' = [request EXCEPT ![r] = o]
  BY DEF Receive, Goto
<1> HIDE DEF o
<1>5. /\ request' \in [Requests -> HandlerRows] /\ request'[r] = o
      /\ \A t \in Requests : t # r => request'[t] = request[t]
  BY <1>2, <1>4 DEF IInv, TypeOK
<1>6. CASE text.amount = NoAmount
  <2>1. \A b \in Amounts : ~Carries(o, b)
    BY <1>3, <1>6, TelegramChatAssumption
  <2> QED
    BY <1>2, <1>4, <1>6, <2>1, QuietStep DEF Receive, Goto
<1>7. CASE text.amount # NoAmount
  <2> DEFINE a == text.amount
  <2>1. a \in Amounts
    BY <1>7, TextFacts DEF MaybeAmounts
  <2>2. fate[a] = "untyped" /\ fate' = [fate EXCEPT ![a] = "open"]
        /\ UNCHANGED <<linked, entry, pending, asked, raced>>
    BY <1>7 DEF Receive
  <2> HIDE DEF a
  <2>3. TypeOK'
    BY <1>5, <2>1, <2>2 DEF IInv, TypeOK
  <2>4. fate'[a] = "open" /\ \A b \in Amounts : b # a => fate'[b] = fate[b]
    BY <2>1, <2>2 DEF IInv, TypeOK
  <2>5. AmountAppliedOnce'
    BY <2>2, <2>4 DEF IInv, AmountAppliedOnce
  <2>6. PendingAmount(pending) # a /\ \A t \in Requests : ~Carries(request[t], a)
    BY <2>1, <2>2 DEF IInv, UntypedNowhere
  <2>7. \A b \in Amounts : Carries(o, b) <=> a = b
    BY <1>3 DEF a
  <2>8. UntypedNowhere'
    <3> SUFFICES ASSUME NEW b \in Amounts, fate'[b] = "untyped"
                 PROVE  PendingAmount(pending') # b /\ \A t \in Requests : ~Carries(request'[t], b)
      BY DEF UntypedNowhere
    <3> QED
      BY <1>5, <2>2, <2>4, <2>7 DEF IInv, UntypedNowhere
  <2>9. OnePlace'
    <3> SUFFICES ASSUME NEW b \in Amounts, b \notin raced
                 PROVE  /\ \A t, u \in Requests : Carries(request'[t], b) /\ Carries(request'[u], b) => t = u
                        /\ PendingAmount(pending) = b =>
                             /\ fate'[b] = "open"
                             /\ \A t \in Requests : Carries(request'[t], b) => request'[t] \in Closers
                        /\ (\E t \in Requests : Carries(request'[t], b)) => fate'[b] = "open"
      BY <2>2 DEF OnePlace
    <3>1. CASE b = a
      BY <1>5, <2>4, <2>6, <3>1
    <3>2. CASE b # a
      BY <1>5, <2>4, <2>7, <3>2 DEF IInv, OnePlace
    <3> QED
      BY <3>1, <3>2
  <2>10. DeletionsAsked'
    BY <1>2, <1>5, <2>2 DEF IInv, DeletionsAsked
  <2> QED
    BY <2>3, <2>5, <2>8, <2>9, <2>10 DEF IInv
<1> QED
  BY <1>6, <1>7

\* A message read on is the same message.
LEMMA ReaderOn ==
  ASSUME NEW q \in Readers, NEW phase \in {"answering", "dispatching"}
  PROVE  /\ [q EXCEPT !.phase = phase] \in HandlerRows \ Pressers
         /\ \A a \in Amounts : Carries([q EXCEPT !.phase = phase], a) => Carries(q, a)
<1>1. [q EXCEPT !.phase = phase] \in Readers /\ [q EXCEPT !.phase = phase].text = q.text
  BY DEF Readers
<1>2. PICK o \in Readers : o = [q EXCEPT !.phase = phase] /\ o.text = q.text
  BY <1>1
<1>3. o \in HandlerRows
  BY DEF HandlerRows
<1>4. o \notin Pressers
  BY DEF Readers, Pressers
<1>5. ASSUME NEW a \in Amounts, Carries(o, a)
      PROVE  Carries(q, a)
  <2>1. o.text.amount = a /\ o.text = q.text
    BY <1>2, <1>5, CarriesByRow
  <2> QED
    BY <2>1, CarriesByRow
<1> QED
  BY <1>2, <1>3, <1>4, <1>5

\* The reads of a message carry its amount on.
LEMMA ReadPendingStep ==
  ASSUME IInv, NEW r \in Requests, ReadPending(r)
  PROVE  IInv'
<1> DEFINE q == request[r]
<1>1. q \in Readers /\ q \notin Closers
  BY HandlerRow, RowsByPhase DEF ReadPending
<1>2. PICK phase \in {"answering", "dispatching"} : Goto(r, [q EXCEPT !.phase = phase])
  BY DEF ReadPending
<1>3. UNCHANGED <<linked, entry, pending, asked, fate, raced>>
  BY DEF ReadPending
<1> HIDE DEF q
<1>4. PICK o \in HandlerRows \ Pressers : o = [q EXCEPT !.phase = phase] /\ \A a \in Amounts : Carries(o, a) => Carries(q, a)
  BY <1>1, ReaderOn
<1> QED
  BY <1>1, <1>2, <1>3, <1>4, CarryStep DEF q

\* An answer takes its own amount for the entry the question was about.
LEMMA AnswerStep ==
  ASSUME IInv, NEW r \in Requests, Answer(r)
  PROVE  IInv'
<1> DEFINE q == request[r]
<1>1. q \in Readers /\ q \notin Closers /\ q.account \in Accounts /\ q.text \in Texts
  BY HandlerRow, RowsByPhase, RowFields DEF Answer
<1>2. PICK p \in Seen :
       IF p.type = "update" /\ q.text.amount # NoAmount
       THEN Take(r, q.account, p.id, q.text.amount,
                 IF KindOf[p.id] = "product" THEN "idle" ELSE "editing")
       ELSE /\ Goto(r, [q EXCEPT !.phase = "dispatching"])
            /\ UNCHANGED <<linked, entry, pending, asked, fate, raced>>
  BY DEF Answer
<1>3. p \in Pendings
  BY PendingFacts DEF Seen, IInv, TypeOK
<1>4. CASE p.type = "update" /\ q.text.amount # NoAmount
  <2>1. p.id \in Entries /\ q.text.amount \in Amounts
    BY <1>1, <1>3, <1>4, PendingFacts, TextFacts DEF MaybeAmounts
  <2>2. PICK next \in {"idle", "editing"} : Take(r, q.account, p.id, q.text.amount, next)
    BY <1>2, <1>4
  <2>3. Holding("closing", q.account, p.id, q.text.amount, next) \in Closers
    BY <1>1, <2>1 DEF Holding, Closers, HoldingRows
  <2>4. Carries(q, q.text.amount) /\ q.text.amount \in MaybeAmounts
    BY <1>1, <2>1, CarriesByRow DEF MaybeAmounts
  <2> QED
    BY <1>1, <2>2, <2>3, <2>4, TakeStep
<1>5. CASE ~(p.type = "update" /\ q.text.amount # NoAmount)
  <2>1. Goto(r, [q EXCEPT !.phase = "dispatching"]) /\ UNCHANGED <<linked, entry, pending, asked, fate, raced>>
    BY <1>2, <1>5
  <2> HIDE DEF q
  <2>2. PICK o \in HandlerRows \ Pressers :
          o = [q EXCEPT !.phase = "dispatching"] /\ \A a \in Amounts : Carries(o, a) => Carries(q, a)
    BY <1>1, ReaderOn
  <2> QED
    BY <1>1, <2>1, <2>2, CarryStep DEF q
<1> QED
  BY <1>4, <1>5

\* The rows handlers go on to, and what they carry.
LEMMA SavingRow ==
  ASSUME NEW p \in Pendings
  PROVE  Saving(p) \in HandlerRows \ Pressers /\ \A a \in Amounts : Carries(Saving(p), a) => PendingAmount(p) = a
<1>1. Saving(p) \in Savers /\ Saving(p).pending = p
  BY DEF Savers, Saving
<1>2. Saving(p) \in HandlerRows /\ Saving(p) \notin Pressers
  BY <1>1 DEF HandlerRows, Savers, Pressers
<1> QED
  BY <1>1, <1>2, CarriesByRow

\* An editor carries its amount.
LEMMA EditingRow ==
  ASSUME NEW account \in Accounts, NEW e \in Entries, NEW a \in Amounts
  PROVE  /\ Holding("editing", account, e, a, "idle") \in HandlerRows \ Pressers
         /\ \A b \in Amounts : Carries(Holding("editing", account, e, a, "idle"), b) => a = b
<1> DEFINE o == Holding("editing", account, e, a, "idle")
<1>1. o \in Editors /\ o.amount = a
  BY DEF Editors, HoldingRows, Holding
<1>2. o \in HandlerRows
  BY <1>1 DEF HandlerRows
<1>3. o \notin Pressers
  BY <1>1 DEF Editors, HoldingRows, Pressers
<1> QED
  BY <1>1, <1>2, <1>3, CarriesByRow

\* A registrar carries its amount.
LEMMA RegisteringRow ==
  ASSUME NEW account \in Accounts, NEW e \in MovementsHere, NEW a \in Amounts
  PROVE  /\ Holding("registering", account, e, a, "idle") \in HandlerRows \ Pressers
         /\ \A b \in Amounts : Carries(Holding("registering", account, e, a, "idle"), b) => a = b
<1> DEFINE o == Holding("registering", account, e, a, "idle")
<1>1. o \in Registrars /\ o.amount = a
  BY DEF Registrars, HoldingRows, Holding
<1>2. o \in HandlerRows
  BY <1>1 DEF HandlerRows
<1>3. o \notin Pressers
  BY <1>1 DEF Registrars, HoldingRows, Pressers
<1> QED
  BY <1>1, <1>2, <1>3, CarriesByRow

\* A dispatched message goes on with its own amount.
LEMMA DispatchStep ==
  ASSUME IInv, NEW r \in Requests, DispatchRegistration(r) \/ AskIntent(r) \/ OfferUpdate(r)
  PROVE  IInv'
<1> DEFINE q == request[r]
<1>1. q \in Readers /\ q \notin Closers /\ q.account \in Accounts /\ q.text \in Texts
  BY HandlerRow, RowsByPhase, RowFields DEF DispatchRegistration, AskIntent, OfferUpdate
<1>2. UNCHANGED <<linked, entry, pending, asked, fate, raced>>
  BY DEF DispatchRegistration, AskIntent, OfferUpdate
<1> DEFINE a == q.text.amount
<1>3. a \in MaybeAmounts /\ \A b \in Amounts : a = b => Carries(q, b)
  BY <1>1, TextFacts, CarriesByRow
<1>4. ASSUME NEW o \in HandlerRows \ Pressers, Goto(r, o), \A b \in Amounts : Carries(o, b) => a = b
      PROVE  IInv'
  <2>1. \A b \in Amounts : Carries(o, b) => Carries(q, b)
    BY <1>3, <1>4
  <2> HIDE DEF a
  <2> QED
    BY <1>1, <1>2, <1>4, <2>1, CarryStep
<1>5. CASE DispatchRegistration(r)
  <2>1. Goto(r, Holding("registering", q.account, q.text.kind, a, "idle"))
        /\ q.text.kind \in MovementsHere /\ a \in Amounts
    BY <1>1, <1>5, TextFacts DEF DispatchRegistration
  <2> HIDE DEF a
  <2> QED
    BY <1>1, <1>4, <2>1, RegisteringRow
<1>6. CASE AskIntent(r)
  <2>1. Goto(r, Saving(Clarification(a)))
    BY <1>6 DEF AskIntent
  <2>2. PICK p \in Pendings : p = Clarification(a) /\ PendingAmount(p) = a
    BY <1>3, PendingFacts
  <2> HIDE DEF a
  <2> QED
    BY <1>4, <2>1, <2>2, SavingRow
<1>7. CASE OfferUpdate(r)
  <2>1. CASE End(r)
    BY <1>2, <2>1, EndStep
  <2>2. CASE \E e \in Entries :
               \/ a # NoAmount /\ Goto(r, Holding("editing", q.account, e, a, "idle"))
               \/ Goto(r, Saving(Update(e, a)))
    <3>1. PICK e \in Entries : \/ a # NoAmount /\ Goto(r, Holding("editing", q.account, e, a, "idle"))
                               \/ Goto(r, Saving(Update(e, a)))
      BY <2>2
    <3>2. CASE a # NoAmount /\ Goto(r, Holding("editing", q.account, e, a, "idle"))
      <4>1. a \in Amounts
        BY <1>3, <3>2 DEF MaybeAmounts
      <4> HIDE DEF a
      <4> QED
        BY <1>1, <1>4, <3>2, <4>1, EditingRow
    <3>3. CASE Goto(r, Saving(Update(e, a)))
      <4>1. PICK p \in Pendings : p = Update(e, a) /\ PendingAmount(p) = a
        BY <1>3, PendingFacts
      <4> HIDE DEF a
      <4> QED
        BY <1>4, <3>3, <4>1, SavingRow
    <3> QED
      BY <3>1, <3>2, <3>3
  <2> QED
    BY <1>7, <2>1, <2>2 DEF OfferUpdate, Listed
<1> QED
  BY <1>5, <1>6, <1>7

-----------------------------------------------------------------------------
(* Buttons.                                                                *)

\* The cancel button carries nothing until it clears.
LEMMA PressCancelStep ==
  ASSUME IInv, NEW r \in Requests, PressCancel(r)
  PROVE  IInv'
<1> DEFINE o == Holding("closing", NoAccount, "none", NoAmount, "idle")
<1>1. o \in Closers /\ o.amount = NoAmount
  BY DEF Closers, HoldingRows, Holding
<1>2. o \in HandlerRows
  BY <1>1 DEF HandlerRows
<1>3. o \notin Pressers
  BY <1>1 DEF Holding, Pressers
<1>4. \A a \in Amounts : ~Carries(o, a)
  BY <1>1, CarriesByRow, TelegramChatAssumption
<1>5. Goto(r, o) /\ UNCHANGED <<linked, entry, pending, asked, fate, raced>>
  BY DEF PressCancel
<1> HIDE DEF o
<1> QED
  BY <1>2, <1>3, <1>4, <1>5, QuietStep

\* A button pressed carries nothing; a deletion is pressed where it was asked.
LEMMA PressStep ==
  ASSUME IInv, NEW r \in Requests, NEW s \in Senders, NEW phase, NEW target, Press(r, s, phase, target),
         \/ phase = "clarifying" /\ target \in MovementsHere
         \/ phase = "updating" /\ target \in Entries
         \/ phase = "picked" /\ target \in ExpensesHere
         \/ phase = "deleting" /\ target \in Entries /\ (KindOf[target] = "expense" => target \in asked)
  PROVE  IInv'
<1> DEFINE o == [phase |-> phase, account |-> linked[s], target |-> target]
<1>1. linked[s] \in Accounts
  BY DEF Press, IInv, TypeOK
<1>2. o \in Pressers \cup Clarifiers
  BY <1>1 DEF Pressers, Clarifiers
<1>3. o \in HandlerRows
  BY <1>2 DEF HandlerRows
<1>4. \A a \in Amounts : ~Carries(o, a)
  BY <1>2, CarriesByRow
<1>5. o.phase = "deleting" /\ KindOf[o.target] = "expense" => o.target \in asked
  OBVIOUS
<1>6. Goto(r, o) /\ UNCHANGED <<linked, entry, pending, asked, fate, raced>>
  BY DEF Press
<1> HIDE DEF o
<1> QED
  BY <1>3, <1>4, <1>5, <1>6, QuietStep

\* A confirmation shown only adds to what was asked.
LEMMA AskConfirmationStep ==
  ASSUME IInv, NEW r \in Requests, AskConfirmation(r)
  PROVE  IInv'
<1> DEFINE q == request[r]
<1>1. q.target \in ExpensesHere
  <2>1. q \in HandlerRows /\ q.phase = "picked"
    BY HandlerRow DEF AskConfirmation
  <2>2. q \in Pressers
    BY <2>1, RowsByPhase
  <2> QED
    BY <2>1, <2>2, PresserFields
<1>2. /\ UNCHANGED <<linked, entry, pending, fate, raced>> /\ Goto(r, Idle)
      /\ asked \subseteq asked' /\ asked' \subseteq asked \cup {q.target}
  BY DEF AskConfirmation, End
<1>3. MayBecome(r, Idle)
  BY IdleFacts DEF MayBecome
<1> QED
  BY <1>1, <1>2, <1>3, IdleFacts, HandlerStep DEF IInv, TypeOK

\* A deletion changes the entry and nothing else.
LEMMA DeleteStep ==
  ASSUME IInv, NEW r \in Requests, Delete(r)
  PROVE  IInv'
<1>1. UNCHANGED <<linked, pending, asked, fate, raced>> /\ Goto(r, Idle)
  BY DEF Delete, End
<1>2. MayBecome(r, Idle)
  BY IdleFacts DEF MayBecome
<1>3. Placing' /\ request' \in [Requests -> HandlerRows]
  BY <1>1, <1>2, IdleFacts, MoveStep
<1>4. entry' \in [Entries -> Amounts \cup {"stored", "unused", "deleted"}]
  BY DEF Delete, IInv, TypeOK
<1> QED
  BY <1>1, <1>3, <1>4 DEF IInv, TypeOK, Placing

\* The button of an entry takes what is pending.
LEMMA TakeForUpdateStep ==
  ASSUME IInv, NEW r \in Requests, TakeForUpdate(r)
  PROVE  IInv'
<1> DEFINE q == request[r]
<1>1. q.account \in Accounts /\ q.target \in Entries
  <2>1. q \in HandlerRows /\ q.phase = "updating"
    BY HandlerRow DEF TakeForUpdate
  <2>2. q \in Pressers
    BY <2>1, RowsByPhase
  <2> QED
    BY <2>1, <2>2, PresserFields
<1>2. PICK p \in Seen :
        Take(r, q.account, q.target, IF p.type = "update" THEN p.amount ELSE NoAmount, "choosing")
  BY DEF TakeForUpdate
<1>3. p \in Pendings /\ (p = pending \/ p = NoPending)
  BY PendingFacts DEF Seen, IInv, TypeOK
<1>4. PICK a \in MaybeAmounts : a = IF p.type = "update" THEN p.amount ELSE NoAmount
  BY <1>3, PendingFacts DEF MaybeAmounts
<1>5. a \in Amounts => PendingAmount(pending) = a
  BY <1>3, <1>4, PendingFacts, TelegramChatAssumption
<1>6. Take(r, q.account, q.target, a, "choosing")
  BY <1>2, <1>4
<1>7. Holding("closing", q.account, q.target, a, "choosing") \in Closers
  BY <1>1 DEF Holding, Closers, HoldingRows
<1> QED
  BY <1>5, <1>6, <1>7, TakeStep

\* The buttons expense and income take the amount of a clarification.
LEMMA TakeForIntentStep ==
  ASSUME IInv, NEW r \in Requests, TakeForIntent(r)
  PROVE  IInv'
<1> DEFINE q == request[r]
<1>1. q.account \in Accounts /\ q.target \in MovementsHere
  BY HandlerRow, RowsByPhase, RowFields DEF TakeForIntent
<1>2. PICK p \in Seen :
        LET b == IF p.type = "clarify" THEN p.amount ELSE NoAmount IN
        IF p = NoPending THEN End(r) /\ UNCHANGED <<linked, entry, pending, asked, fate, raced>>
        ELSE Take(r, q.account, q.target, b, IF b = NoAmount THEN "idle" ELSE "registering")
  BY DEF TakeForIntent
<1>3. p \in Pendings /\ (p = pending \/ p = NoPending)
  BY PendingFacts DEF Seen, IInv, TypeOK
<1>4. PICK a \in MaybeAmounts : a = IF p.type = "clarify" THEN p.amount ELSE NoAmount
  BY <1>3, PendingFacts DEF MaybeAmounts
<1>5. a \in Amounts => PendingAmount(pending) = a
  BY <1>3, <1>4, PendingFacts, TelegramChatAssumption
<1>6. CASE p = NoPending
  BY <1>2, <1>6, EndStep
<1>7. CASE p # NoPending
  <2>1. Take(r, q.account, q.target, a, IF a = NoAmount THEN "idle" ELSE "registering")
    BY <1>2, <1>4, <1>7
  <2>2. CASE a = NoAmount
    <3>1. Take(r, q.account, q.target, a, "idle")
      BY <2>1, <2>2
    <3>2. Holding("closing", q.account, q.target, a, "idle") \in Closers
      BY <1>1, <2>2 DEF Holding, Closers, HoldingRows
    <3> QED
      BY <1>5, <3>1, <3>2, TakeStep
  <2>3. CASE a # NoAmount
    <3>1. Take(r, q.account, q.target, a, "registering")
      BY <2>1, <2>3
    <3>2. a \in Amounts
      BY <2>3 DEF MaybeAmounts
    <3>3. Holding("closing", q.account, q.target, a, "registering") \in Closers
      BY <1>1, <3>2 DEF Holding, Closers, HoldingRows
    <3> QED
      BY <1>5, <3>1, <3>3, TakeStep
  <2> QED
    BY <2>2, <2>3
<1> QED
  BY <1>6, <1>7

\* The button of an entry goes on with the amount it took, or asks for one.
LEMMA ChooseStep ==
  ASSUME IInv, NEW r \in Requests, Choose(r)
  PROVE  IInv'
<1> DEFINE q == request[r]
<1>1. /\ q \in Choosers /\ q \notin Closers
      /\ q.account \in Accounts /\ q.target \in Entries /\ q.amount \in MaybeAmounts
  BY HandlerRow, RowsByPhase, RowFields DEF Choose
<1>2. UNCHANGED <<linked, entry, pending, asked, fate, raced>>
  BY DEF Choose
<1>3. CASE End(r)
  BY <1>2, <1>3, EndStep
<1>4. CASE q.amount # NoAmount /\ Goto(r, [q EXCEPT !.phase = "editing"])
  <2>1. q.amount \in Amounts
    BY <1>1, <1>4 DEF MaybeAmounts
  <2>2. [q EXCEPT !.phase = "editing"] = Holding("editing", q.account, q.target, q.amount, "idle")
    BY <1>1 DEF Choosers, HoldingRows, Holding
  <2>3. PICK o \in HandlerRows \ Pressers :
          /\ o = Holding("editing", q.account, q.target, q.amount, "idle")
          /\ \A b \in Amounts : Carries(o, b) => q.amount = b
    BY <1>1, <2>1, EditingRow
  <2>4. \A b \in Amounts : Carries(o, b) => Carries(q, b)
    BY <1>1, <2>3, CarriesByRow
  <2>5. Goto(r, o)
    BY <1>4, <2>2, <2>3
  <2> QED
    BY <1>1, <1>2, <2>4, <2>5, CarryStep
<1>5. CASE Goto(r, Saving(Update(q.target, NoAmount)))
  <2>1. PICK p \in Pendings : p = Update(q.target, NoAmount) /\ PendingAmount(p) = NoAmount
    BY <1>1, PendingFacts DEF MaybeAmounts
  <2>2. Goto(r, Saving(p))
    BY <1>5, <2>1
  <2>3. \A a \in Amounts : ~Carries(Saving(p), a)
    BY <2>1, SavingRow, TelegramChatAssumption
  <2> QED
    BY <1>2, <2>2, <2>3, SavingRow, QuietStep
<1> QED
  BY <1>3, <1>4, <1>5 DEF Choose

-----------------------------------------------------------------------------
(* What handlers end with, and what happens around them.                   *)

\* A handler that ends: where the handlers are afterwards.
LEMMA Ended ==
  ASSUME IInv, NEW r \in Requests, End(r)
  PROVE  /\ request' \in [Requests -> HandlerRows] /\ request'[r] = Idle
         /\ \A s \in Requests : s # r => request'[s] = request[s]
         /\ \A s \in Requests, a \in Amounts : Carries(request'[s], a) => s # r /\ Carries(request[s], a)
<1>1. /\ request' \in [Requests -> HandlerRows] /\ request'[r] = Idle
      /\ \A s \in Requests : s # r => request'[s] = request[s]
  BY IdleFacts DEF IInv, TypeOK, End, Goto
<1> QED
  BY <1>1, IdleFacts

\* Writing the amount it alone carries settles the amount.
LEMMA WriteStep ==
  ASSUME IInv, NEW r \in Requests, NEW a \in Amounts, request[r] \notin Closers, Carries(request[r], a),
         fate' = fate \/ fate' = [fate EXCEPT ![a] = Applied(a)],
         End(r), UNCHANGED <<linked, pending, asked, raced>>,
         entry' \in [Entries -> Amounts \cup {"stored", "unused", "deleted"}]
  PROVE  IInv'
<1>1. /\ request' \in [Requests -> HandlerRows] /\ request'[r] = Idle
      /\ \A s \in Requests : s # r => request'[s] = request[s]
      /\ \A s \in Requests, b \in Amounts : Carries(request'[s], b) => s # r /\ Carries(request[s], b)
  BY Ended
<1>2. /\ \A b \in Amounts : b # a => fate'[b] = fate[b]
      /\ fate'[a] \in {fate[a], Applied(a)}
      /\ fate' \in [Amounts -> {"untyped", "open", "applied", "cancelled", "misapplied"}]
  BY DEF IInv, TypeOK, Applied
<1>3. fate[a] # "untyped"
  BY DEF IInv, UntypedNowhere
<1>4. a \notin raced => /\ fate[a] = "open" /\ PendingAmount(pending) # a
                       /\ \A s \in Requests : s # r => ~Carries(request[s], a)
  BY DEF IInv, OnePlace
<1>5. TypeOK'
  BY <1>1, <1>2 DEF IInv, TypeOK
<1>6. AmountAppliedOnce'
  BY <1>2, <1>4 DEF IInv, AmountAppliedOnce, Applied
<1>7. UntypedNowhere'
  <2> SUFFICES ASSUME NEW b \in Amounts, fate'[b] = "untyped"
               PROVE  PendingAmount(pending') # b /\ \A s \in Requests : ~Carries(request'[s], b)
    BY DEF UntypedNowhere
  <2>1. b # a
    BY <1>2, <1>3 DEF Applied
  <2> QED
    BY <1>1, <1>2, <2>1 DEF IInv, UntypedNowhere
<1>8. OnePlace'
  <2> SUFFICES ASSUME NEW b \in Amounts, b \notin raced
               PROVE  /\ \A s, t \in Requests : Carries(request'[s], b) /\ Carries(request'[t], b) => s = t
                      /\ PendingAmount(pending) = b =>
                           /\ fate'[b] = "open"
                           /\ \A s \in Requests : Carries(request'[s], b) => request'[s] \in Closers
                      /\ (\E s \in Requests : Carries(request'[s], b)) => fate'[b] = "open"
    BY DEF OnePlace
  <2>1. CASE b = a
    BY <1>1, <1>4, <2>1
  <2>2. CASE b # a
    BY <1>1, <1>2, <2>2 DEF IInv, OnePlace
  <2> QED
    BY <2>1, <2>2
<1>9. DeletionsAsked'
  BY <1>1, IdleFacts DEF IInv, DeletionsAsked
<1> QED
  BY <1>5, <1>6, <1>7, <1>8, <1>9 DEF IInv

\* An edit writes the amount its handler alone carries.
LEMMA EditStep ==
  ASSUME IInv, NEW r \in Requests, Edit(r)
  PROVE  IInv'
<1> DEFINE q == request[r]
<1>1. q \in Editors /\ q \notin Closers
  BY HandlerRow, RowsByPhase DEF Edit
<1>2. PICK a \in Amounts : a = q.amount
  BY <1>1, RowFields
<1>3. Carries(q, a)
  BY <1>1, <1>2, CarriesByRow
<1>4. /\ fate' = fate \/ fate' = [fate EXCEPT ![a] = Applied(a)]
      /\ End(r) /\ UNCHANGED <<linked, pending, asked, raced>>
      /\ entry' = entry \/ entry' = [entry EXCEPT ![q.target] = a]
  BY <1>2 DEF Edit
<1>5. entry' \in [Entries -> Amounts \cup {"stored", "unused", "deleted"}]
  BY <1>4 DEF IInv, TypeOK
<1> QED
  BY <1>1, <1>3, <1>4, <1>5, WriteStep

\* So does a registration.
LEMMA RegisterStep ==
  ASSUME IInv, NEW r \in Requests, Register(r)
  PROVE  IInv'
<1> DEFINE q == request[r]
<1>1. q \in Registrars /\ q \notin Closers
  BY HandlerRow, RowsByPhase DEF Register
<1>2. PICK a \in Amounts : a = q.amount
  BY <1>1, RowFields
<1>3. Carries(q, a)
  BY <1>1, <1>2, CarriesByRow
<1>4. /\ fate' = [fate EXCEPT ![a] = Applied(a)]
      /\ End(r) /\ UNCHANGED <<linked, pending, asked, raced>>
      /\ \E e \in Entries : entry' = [entry EXCEPT ![e] = a]
  BY <1>2 DEF Register
<1>5. entry' \in [Entries -> Amounts \cup {"stored", "unused", "deleted"}]
  BY <1>4 DEF IInv, TypeOK
<1> QED
  BY <1>1, <1>3, <1>4, <1>5, WriteStep

\* What was carried becomes pending.
LEMMA SavePendingStep ==
  ASSUME IInv, NEW r \in Requests, SavePending(r)
  PROVE  IInv'
<1> DEFINE q == request[r]
<1>1. q \in Savers
  BY HandlerRow, RowsByPhase DEF SavePending
<1>2. PICK p \in Pendings : p = q.pending
  BY <1>1, RowFields
<1>3. End(r) /\ UNCHANGED <<linked, entry, asked, fate, raced>> /\ (pending' = p \/ pending' = pending)
  BY <1>2 DEF SavePending
<1>4. CASE pending' = pending
  BY <1>3, <1>4, EndStep
<1>5. CASE pending' = p
  <2>1. \A a \in Amounts : PendingAmount(p) = a => Carries(q, a)
    BY <1>1, <1>2, CarriesByRow
  <2>2. /\ request' \in [Requests -> HandlerRows] /\ request'[r] = Idle
        /\ \A s \in Requests : s # r => request'[s] = request[s]
        /\ \A s \in Requests, b \in Amounts : Carries(request'[s], b) => s # r /\ Carries(request[s], b)
    BY <1>3, Ended
  <2>3. TypeOK'
    BY <1>3, <1>5, <2>2 DEF IInv, TypeOK
  <2>4. AmountAppliedOnce'
    BY <1>3 DEF IInv, AmountAppliedOnce
  <2>5. UntypedNowhere'
    <3> SUFFICES ASSUME NEW b \in Amounts, fate[b] = "untyped"
                 PROVE  PendingAmount(p) # b /\ \A s \in Requests : ~Carries(request'[s], b)
      BY <1>3, <1>5 DEF UntypedNowhere
    <3> QED
      BY <2>1, <2>2 DEF IInv, UntypedNowhere
  <2>6. OnePlace'
    <3> SUFFICES ASSUME NEW b \in Amounts, b \notin raced
                 PROVE  /\ \A s, t \in Requests : Carries(request'[s], b) /\ Carries(request'[t], b) => s = t
                        /\ PendingAmount(p) = b =>
                             /\ fate[b] = "open"
                             /\ \A s \in Requests : Carries(request'[s], b) => request'[s] \in Closers
                        /\ (\E s \in Requests : Carries(request'[s], b)) => fate[b] = "open"
      BY <1>3, <1>5 DEF OnePlace
    <3> HIDE DEF q
    <3>1. CASE PendingAmount(p) = b
      BY <2>1, <2>2, <3>1 DEF IInv, OnePlace, q
    <3>2. CASE PendingAmount(p) # b
      BY <2>2, <3>2 DEF IInv, OnePlace
    <3> QED
      BY <3>1, <3>2
  <2>7. DeletionsAsked'
    BY <1>3, <2>2, IdleFacts DEF IInv, DeletionsAsked
  <2> QED
    BY <2>3, <2>4, <2>5, <2>6, <2>7 DEF IInv
<1> QED
  BY <1>3, <1>4, <1>5

\* After the clear a handler goes on with the amount it took.
LEMMA ClearedRow ==
  ASSUME NEW q \in Closers
  PROVE  \E o \in HandlerRows \ Pressers :
           /\ o = IF q.next = "idle" THEN Idle ELSE [q EXCEPT !.phase = q.next, !.next = "idle"]
           /\ \A a \in Amounts : Carries(o, a) => Carries(q, a)
<1>1. CASE q.next = "idle"
  BY <1>1, IdleFacts
<1>2. CASE q.next # "idle"
  <2>1. [q EXCEPT !.phase = q.next, !.next = "idle"] \in Choosers \cup Editors \cup Registrars
        /\ [q EXCEPT !.phase = q.next, !.next = "idle"].amount = q.amount
    BY <1>2 DEF Closers, Choosers, Editors, Registrars, HoldingRows
  <2>2. PICK o \in Choosers \cup Editors \cup Registrars :
          o = [q EXCEPT !.phase = q.next, !.next = "idle"] /\ o.amount = q.amount
    BY <2>1
  <2>3. o \in HandlerRows
    BY DEF HandlerRows
  <2>4. o \notin Pressers
    BY <2>3, RowsByPhase DEF Choosers, Editors, Registrars, HoldingRows
  <2>5. ASSUME NEW a \in Amounts, Carries(o, a)
        PROVE  Carries(q, a)
    <3>1. o.amount = a /\ o.amount = q.amount
      BY <2>2, <2>5, CarriesByRow
    <3> QED
      BY <3>1, CarriesByRow
  <2> QED
    BY <1>2, <2>2, <2>3, <2>4, <2>5
<1> QED
  BY <1>1, <1>2

\* A clear leaves nothing pending, or is lost and marks what stays.
LEMMA ClearPendingStep ==
  ASSUME IInv, NEW r \in Requests, ClearPending(r)
  PROVE  IInv'
<1> DEFINE q == request[r]
           b == PendingAmount(pending)
<1>1. q \in Closers
  BY HandlerRow, RowsByPhase DEF ClearPending
<1>2. PICK o \in HandlerRows \ Pressers :
        /\ o = IF q.next = "idle" THEN Idle ELSE [q EXCEPT !.phase = q.next, !.next = "idle"]
        /\ \A a \in Amounts : Carries(o, a) => Carries(q, a)
  BY <1>1, ClearedRow
<1>3. Goto(r, o) /\ UNCHANGED <<linked, entry, asked>>
  BY <1>2 DEF ClearPending
<1>4. /\ request' \in [Requests -> HandlerRows] /\ request'[r] = o
      /\ \A s \in Requests : s # r => request'[s] = request[s]
  BY <1>3 DEF IInv, TypeOK, Goto
<1>5. \A s \in Requests, a \in Amounts : Carries(request'[s], a) => Carries(request[s], a)
  BY <1>2, <1>4
<1>6. DeletionsAsked'
  BY <1>2, <1>3, <1>4 DEF IInv, DeletionsAsked
<1>7. b \in MaybeAmounts
  BY PendingFacts DEF IInv, TypeOK
<1>8. CASE /\ pending' = NoPending /\ UNCHANGED raced
           /\ \/ fate' = fate
              \/ b # NoAmount /\ ~Held(b) /\ fate' = [fate EXCEPT ![b] = "cancelled"]
  <2>1. \A a \in Amounts : fate'[a] # fate[a] => a = b /\ ~Held(b) /\ fate'[a] = "cancelled"
    BY <1>8 DEF IInv, TypeOK
  <2>2. fate' \in [Amounts -> {"untyped", "open", "applied", "cancelled", "misapplied"}]
    BY <1>8 DEF IInv, TypeOK
  <2>3. TypeOK'
    BY <1>3, <1>4, <1>8, <2>2, PendingFacts DEF IInv, TypeOK
  <2>4. AmountAppliedOnce'
    BY <1>8, <2>1 DEF IInv, AmountAppliedOnce
  <2>5. \A a \in Amounts : PendingAmount(pending') # a
    BY <1>8, PendingFacts, TelegramChatAssumption
  <2>6. UntypedNowhere'
    <3> SUFFICES ASSUME NEW a \in Amounts, fate'[a] = "untyped"
                 PROVE  \A s \in Requests : ~Carries(request'[s], a)
      BY <2>5 DEF UntypedNowhere
    <3> QED
      BY <1>5, <2>1 DEF IInv, UntypedNowhere
  <2>7. OnePlace'
    <3> SUFFICES ASSUME NEW a \in Amounts, a \notin raced
                 PROVE  /\ \A s, t \in Requests : Carries(request'[s], a) /\ Carries(request'[t], a) => s = t
                        /\ (\E s \in Requests : Carries(request'[s], a)) => fate'[a] = "open"
      BY <1>8, <2>5 DEF OnePlace
    <3>1. \A s, t \in Requests : Carries(request'[s], a) /\ Carries(request'[t], a) => s = t
      BY <1>5 DEF IInv, OnePlace
    <3>2. ASSUME NEW s \in Requests, Carries(request'[s], a)
          PROVE  fate'[a] = "open"
      <4>1. Carries(request[s], a) /\ fate[a] = "open"
        BY <1>5, <3>2 DEF IInv, OnePlace
      <4>2. SUFFICES ASSUME a = b, ~Held(b)
                     PROVE  FALSE
        BY <2>1, <4>1
      <4>3. request[s] \in Closers
        BY <4>1, <4>2 DEF IInv, OnePlace
      <4>4. request[s].phase = "closing" /\ request[s].amount = a
        BY <4>1, <4>3, CarriesByRow DEF Closers, HoldingRows
      <4> QED
        BY <4>2, <4>4 DEF Held, HoldingPhases
    <3> QED
      BY <3>1, <3>2
  <2> QED
    BY <1>6, <2>3, <2>4, <2>6, <2>7 DEF IInv
<1>9. CASE raced' = raced \cup ({b} \ {NoAmount}) /\ UNCHANGED <<pending, fate>>
  <2>1. /\ raced \subseteq raced' /\ raced' \subseteq Amounts
        /\ \A a \in Amounts \ raced' : a # b
    BY <1>7, <1>9, TelegramChatAssumption DEF IInv, TypeOK, MaybeAmounts
  <2>2. TypeOK'
    BY <1>3, <1>4, <1>9, <2>1 DEF IInv, TypeOK
  <2>3. AmountAppliedOnce'
    BY <1>9, <2>1 DEF IInv, AmountAppliedOnce
  <2>4. UntypedNowhere'
    BY <1>5, <1>9 DEF IInv, UntypedNowhere
  <2>5. OnePlace'
    <3> SUFFICES ASSUME NEW a \in Amounts, a \notin raced'
                 PROVE  /\ \A s, t \in Requests : Carries(request'[s], a) /\ Carries(request'[t], a) => s = t
                        /\ PendingAmount(pending) # a
                        /\ (\E s \in Requests : Carries(request'[s], a)) => fate[a] = "open"
      BY <1>9 DEF OnePlace
    <3> QED
      BY <1>5, <2>1 DEF IInv, OnePlace
  <2> QED
    BY <1>6, <2>2, <2>3, <2>4, <2>5 DEF IInv
<1> QED
  BY <1>8, <1>9 DEF ClearPending

\* The chat loses its pending action; links come and go.
LEMMA AroundStep ==
  ASSUME IInv, Around
  PROVE  IInv'
<1>1. UNCHANGED <<entry, asked, request, fate, raced>> /\ pending' \in {pending, NoPending}
  BY DEF Around, Expire, Unlink, LinkByCode
<1>2. /\ linked' \in [Senders -> Accounts \cup {NoAccount}]
      /\ \A s, t \in Senders : linked'[s] = linked'[t] /\ linked'[s] # NoAccount => s = t
  <2>1. CASE UNCHANGED linked
    BY <2>1 DEF IInv, TypeOK
  <2>2. CASE \E s \in Senders : Unlink(s)
    BY <2>2 DEF IInv, TypeOK, Unlink
  <2>3. CASE \E s \in Senders, account \in Accounts : LinkByCode(s, account)
    BY <2>3, TelegramChatAssumption DEF IInv, TypeOK, LinkByCode
  <2> QED
    BY <2>1, <2>2, <2>3 DEF Around, Expire
<1>3. \A a \in Amounts : PendingAmount(pending') = a => PendingAmount(pending) = a
  BY <1>1, PendingFacts, TelegramChatAssumption
<1>4. pending' \in Pendings
  BY <1>1, PendingFacts DEF IInv, TypeOK
<1>5. TypeOK'
  BY <1>1, <1>2, <1>4 DEF IInv, TypeOK
<1>6. AmountAppliedOnce' /\ DeletionsAsked'
  BY <1>1 DEF IInv, AmountAppliedOnce, DeletionsAsked
<1>7. UntypedNowhere'
  BY <1>1, <1>3 DEF IInv, UntypedNowhere
<1>8. OnePlace'
  BY <1>1, <1>3 DEF IInv, OnePlace
<1> QED
  BY <1>5, <1>6, <1>7, <1>8 DEF IInv

-----------------------------------------------------------------------------
(* The theorems.                                                           *)

\* Before any message nothing is pending and nobody carries anything.
LEMMA InitIInv == Init => IInv
<1> SUFFICES ASSUME Init PROVE IInv
  OBVIOUS
<1>1. TypeOK
  BY IdleFacts, PendingFacts DEF Init, TypeOK
<1>2. \A a \in Amounts : PendingAmount(pending) # a
  BY PendingFacts, TelegramChatAssumption DEF Init
<1> QED
  BY <1>1, <1>2, IdleFacts
  DEF Init, IInv, AmountAppliedOnce, UntypedNowhere, OnePlace, DeletionsAsked

\* Every step keeps the invariant.
LEMMA NextIInv == IInv /\ [Next]_vars => IInv'
<1> SUFFICES ASSUME IInv, [Next]_vars PROVE IInv'
  OBVIOUS
<1>1. CASE Message
  BY <1>1, ReceiveStep, ReadPendingStep, AnswerStep, DispatchStep, EndStep DEF Message, OfferDeletion
<1>2. CASE Button
  <2>1. PICK r \in Requests :
          \/ PressCancel(r)
          \/ \E s \in Senders :
               \/ \E kind \in MovementsHere : Press(r, s, "clarifying", kind)
               \/ \E e \in Entries :
                    \/ Press(r, s, "updating", e)
                    \/ KindOf[e] = "expense" /\ Press(r, s, "picked", e)
                    \/ (KindOf[e] = "expense" => e \in asked) /\ Press(r, s, "deleting", e)
          \/ AskConfirmation(r) \/ Delete(r) \/ TakeForUpdate(r) \/ Choose(r) \/ TakeForIntent(r)
    BY <1>2 DEF Button
  <2>2. ASSUME NEW s \in Senders, NEW kind \in MovementsHere, Press(r, s, "clarifying", kind)
        PROVE  IInv'
    BY <2>2, PressStep
  <2>3. ASSUME NEW s \in Senders, NEW e \in Entries,
               \/ Press(r, s, "updating", e)
               \/ KindOf[e] = "expense" /\ Press(r, s, "picked", e)
               \/ (KindOf[e] = "expense" => e \in asked) /\ Press(r, s, "deleting", e)
        PROVE  IInv'
    BY <2>3, PressStep DEF ExpensesHere
  <2> QED
    BY <2>1, <2>2, <2>3, PressCancelStep, AskConfirmationStep, DeleteStep, TakeForUpdateStep, ChooseStep,
       TakeForIntentStep
<1>3. CASE Finish
  BY <1>3, SavePendingStep, ClearPendingStep, EditStep, RegisterStep, EndStep DEF Finish, Refuse
<1>4. CASE Around
  BY <1>4, AroundStep
<1>5. CASE UNCHANGED vars
  BY <1>5 DEF vars, IInv, TypeOK, AmountAppliedOnce, UntypedNowhere, OnePlace, DeletionsAsked
<1> QED
  BY <1>1, <1>2, <1>3, <1>4, <1>5 DEF Next

\* telegram-bot.service.ts:42, 336: every state messages and buttons lead to satisfies the inductive
\* invariant.
THEOREM ChatInvariant == Spec => []IInv
  BY InitIInv, NextIInv, PTL DEF Spec

\* Links, rows, the pending action and the handlers of telegram-bot.service.ts hold what they may.
THEOREM ChatTypes == Spec => []TypeOK
<1>1. IInv => TypeOK
  BY DEF IInv
<1> QED
  BY <1>1, ChatInvariant, PTL

\* telegram-bot.service.ts:396: outside the races named, an amount typed is written at most once and
\* never once it was cancelled, however many handlers, lists and buttons there are.
THEOREM AmountAppliedOnceHolds == Spec => []AmountAppliedOnce
<1>1. IInv => AmountAppliedOnce
  BY DEF IInv
<1> QED
  BY <1>1, ChatInvariant, PTL

\* Only Edit, Register and Delete touch the entries.
LEMMA EntryWriters ==
  ASSUME Next, entry' # entry
  PROVE  \E r \in Requests : Edit(r) \/ Register(r) \/ Delete(r)
<1>1. ~Message
  BY DEF Message, Receive, ReadPending, Answer, Take, DispatchRegistration, AskIntent, OfferDeletion, OfferUpdate
<1>2. ~Around
  BY DEF Around, Expire, Unlink, LinkByCode
<1>3. CASE Button
  BY <1>3 DEF Button, PressCancel, Press, AskConfirmation, TakeForUpdate, Choose, TakeForIntent, Take
<1>4. CASE Finish
  BY <1>4 DEF Finish, SavePending, ClearPending, Refuse
<1> QED
  BY <1>1, <1>2, <1>3, <1>4 DEF Next

\* me.service.ts:1762: the bot writes only what the account of the sender it answers may write.
THEOREM OwnEntriesOnlyHolds == Spec => OwnEntriesOnly
<1>1. ASSUME TypeOK, [Next]_vars, NEW e \in Entries, entry'[e] # entry[e]
      PROVE  \E r \in Requests :
               request[r] # Idle /\ request'[r] = Idle /\ request[r].account \in WritersOf(e)
  <2>1. Next
    BY <1>1 DEF vars
  <2>2. PICK r \in Requests : Edit(r) \/ Register(r) \/ Delete(r)
    BY <1>1, <2>1, EntryWriters
  <2>3. request[r] # Idle
    BY <2>2 DEF Edit, Register, Delete, Idle
  <2>4. request'[r] = Idle
    BY <1>1, <2>2 DEF Edit, Register, Delete, End, Goto, TypeOK
  <2>5. CASE Edit(r) \/ Delete(r)
    <3>1. e = request[r].target /\ Editable(request[r].account, e)
      BY <1>1, <2>5 DEF Edit, Delete, TypeOK
    <3> QED
      BY <2>3, <2>4, <3>1 DEF Editable
  <2>6. CASE Register(r)
    <3>1. OwnerOf[e] = request[r].account
      BY <1>1, <2>6 DEF Register, TypeOK
    <3> QED
      BY <2>3, <2>4, <3>1, TelegramChatAssumption DEF WritersOf
  <2> QED
    BY <2>2, <2>5, <2>6
<1>2. TypeOK /\ [Next]_vars =>
        [\A e \in Entries :
           entry'[e] # entry[e] =>
             \E r \in Requests :
               request[r] # Idle /\ request'[r] = Idle /\ request[r].account \in WritersOf(e)]_vars
  BY <1>1
<1> QED
  BY <1>2, ChatTypes, PTL DEF Spec, OwnEntriesOnly

\* docs/telegram-bot.md:68: an expense goes only after the confirmation that names it was shown.
THEOREM ExpensesDeletedConfirmedHolds == Spec => ExpensesDeletedConfirmed
<1>1. ASSUME IInv, [Next]_vars, NEW e \in Entries,
             KindOf[e] = "expense", entry'[e] = "deleted", entry[e] # "deleted"
      PROVE  e \in asked
  <2>1. Next
    BY <1>1 DEF vars
  <2>2. PICK r \in Requests : Edit(r) \/ Register(r) \/ Delete(r)
    BY <1>1, <2>1, EntryWriters
  <2>3. ASSUME Edit(r) \/ Register(r)
        PROVE  FALSE
    <3>1. request[r] \in Editors \/ request[r] \in Registrars
      BY <1>1, <2>3, HandlerRow, RowsByPhase DEF Edit, Register
    <3>2. request[r].amount \in Amounts
      BY <3>1, RowFields
    <3>3. entry'[e] \in {entry[e], request[r].amount}
      BY <1>1, <2>3 DEF Edit, Register, IInv, TypeOK
    <3> QED
      BY <1>1, <3>2, <3>3, TelegramChatAssumption
  <2>4. CASE Delete(r)
    <3>1. e = request[r].target
      BY <1>1, <2>4 DEF Delete, IInv, TypeOK
    <3>2. request[r].phase = "deleting" /\ request[r] \in Pressers
      BY <1>1, <2>4, HandlerRow, RowsByPhase DEF Delete
    <3> QED
      BY <1>1, <3>1, <3>2 DEF IInv, DeletionsAsked
  <2> QED
    BY <2>2, <2>3, <2>4
<1>2. IInv /\ [Next]_vars =>
        [\A e \in Entries :
           KindOf[e] = "expense" /\ entry'[e] = "deleted" /\ entry[e] # "deleted" => e \in asked]_vars
  BY <1>1
<1> QED
  BY <1>2, ChatInvariant, PTL DEF Spec, ExpensesDeletedConfirmed
=============================================================================
