---------------------------- MODULE TelegramChat ----------------------------
(***************************************************************************)
(* The Telegram bot in one chat: messages that register, edit or delete    *)
(* movements and products, the buttons under its answers, and the action   *)
(* it keeps pending for the chat in the cache for five minutes.            *)
(*                                                                         *)
(* The webhook answers before it handles an update, so two updates of a    *)
(* chat run at once: each handler is a process whose steps end where it    *)
(* awaits the cache or the database.  A chat keeps its old keyboards:      *)
(* any button may be pressed at any time, except the confirmation of a     *)
(* deletion, pressed where it has been shown.                              *)
(*                                                                         *)
(* Abstracted: the words of a message (its intent, its kind and its        *)
(* amount), what a search matches (any entries of that kind), currencies,  *)
(* the answers sent, the queries and the help, which change nothing.       *)
(* Every number typed is an amount of its own.                             *)
(***************************************************************************)
EXTENDS FiniteSets

CONSTANTS
  Senders,            \* Telegram users who write in the chat
  Accounts, NoAccount,
  Entries,            \* ids of expenses, incomes and products
  KindOf,             \* [Entries -> Kinds]
  OwnerOf,            \* [Entries -> Accounts]
  VisibleTo,          \* [Entries -> SUBSET Accounts]: the owner, and who shares the profile
  Stored,             \* the entries that exist at the start
  Amounts, NoAmount,
  Requests            \* updates in flight at a time

Kinds == {"expense", "income", "product"}
\* Bound: messages name the kinds of the entries there are.
KindsHere == {KindOf[e] : e \in Entries}
MovementsHere == KindsHere \cap {"expense", "income"}

ASSUME TelegramChatAssumption ==
  /\ KindOf \in [Entries -> Kinds] /\ OwnerOf \in [Entries -> Accounts]
  /\ VisibleTo \in [Entries -> SUBSET Accounts] /\ \A e \in Entries : OwnerOf[e] \in VisibleTo[e]
  /\ Stored \subseteq Entries
  /\ NoAccount \notin Accounts
  /\ {NoAmount, "stored", "unused", "deleted"} \cap Amounts = {}

VARIABLES
  linked,    \* [Senders -> the account of the active TelegramLink]
  entry,     \* [Entries -> the amount of the row, "stored", "unused" or "deleted"]
  pending,   \* telegram:pending:<chat>
  asked,     \* the expenses whose confirmation of deletion has been shown
  request,   \* [Requests -> a handler between two of its awaits]
  fate,      \* history: [Amounts -> what became of an amount]
  raced      \* history: amounts two handlers held at once, or that outlived a failed clear

vars == <<linked, entry, pending, asked, request, fate, raced>>

\* What parse makes of a message the bot acts upon; an amount without a type is "unclear".
RegistrationTexts ==
  [intent : {"register"}, kind : MovementsHere, amount : Amounts]
  \cup [intent : {"unclear"}, kind : {"any"}, amount : Amounts \cup {NoAmount}]
\* parseMutationIntent.
MutationTexts ==
  [intent : {"update"}, kind : KindsHere, amount : Amounts \cup {NoAmount}]
  \cup [intent : {"delete"}, kind : {"any"}, amount : Amounts \cup {NoAmount}]
Texts == RegistrationTexts \cup MutationTexts

\* TelegramPendingAction: a clarification (awaitingIntent) or a pendingUpdate.
NoPending == [type |-> "none"]
Clarification(a) == [type |-> "clarify", amount |-> a]
Update(e, a) == [type |-> "update", id |-> e, amount |-> a]

Idle == [phase |-> "idle"]
HoldingPhases == {"closing", "choosing", "editing", "registering"}
Held(a) == \E r \in Requests : request[r].phase \in HoldingPhases /\ request[r].amount = a

Live(e) == entry[e] \notin {"unused", "deleted"}
\* What getState and listItems show an account: also the entries of the profiles it shares.
Listed(account, kind) ==
  {e \in Entries : Live(e) /\ account \in VisibleTo[e] /\ KindOf[e] = kind}
Found(account, e) == e \in Listed(account, KindOf[e])
\* Expenses and incomes are their owner's to write; collaborators keep the inventory too.
WritersOf(e) == IF KindOf[e] = "product" THEN VisibleTo[e] ELSE {OwnerOf[e]}

\* cache.get, cache.set: a Redis error reads as a miss and loses a write.
Seen == {pending, NoPending}

\* The amount of a pending action, or of none.
PendingAmount(p) == IF p = NoPending THEN NoAmount ELSE p.amount

\* An amount may be used once, and not after its user cancelled it.
Applied(a) == IF fate[a] = "open" THEN "applied" ELSE "misapplied"

-----------------------------------------------------------------------------
(* Steps the handlers share.                                               *)

Goto(r, next) == request' = [request EXCEPT ![r] = next]
End(r) == Goto(r, Idle)

\* A handler with amount a for entry e, which first clears the pending action or not.
Holding(phase, account, e, a, next) ==
  [phase |-> phase, account |-> account, target |-> e, amount |-> a, next |-> next]

\* A handler about to save an action as pending.
Saving(p) == [phase |-> "saving", pending |-> p]

\* Mutant: the row is looked up by id alone.
EditableById(account, e) == Live(e)

\* updateExpenseFields, updateIncomeFields, updateItem: looked up by id and owner, or collaborator.
Editable(account, e) == Live(e) /\ account \in WritersOf(e)

\* applyPendingUpdate, applyUpdatePick and the last step of executeUpdateByShortId.
Edit(r) ==
  LET q == request[r] IN
  /\ q.phase = "editing"
  /\ IF Editable(q.account, q.target)
     THEN /\ entry' = [entry EXCEPT ![q.target] = q.amount]
          /\ fate' = [fate EXCEPT ![q.amount] = Applied(q.amount)]
     ELSE UNCHANGED <<entry, fate>>
  /\ End(r)
  /\ UNCHANGED <<linked, pending, asked, raced>>

\* createExpense, createIncome.
Register(r) ==
  LET q == request[r] IN
  /\ q.phase = "registering"
  /\ \E e \in Entries :
       /\ entry[e] = "unused" /\ KindOf[e] = q.target /\ OwnerOf[e] = q.account
       /\ entry' = [entry EXCEPT ![e] = q.amount]
  /\ fate' = [fate EXCEPT ![q.amount] = Applied(q.amount)]
  /\ End(r)
  /\ UNCHANGED <<linked, pending, asked, raced>>

\* The edit or the registration is refused: no rate, no profile, a row of a comparison.
Refuse(r) ==
  /\ request[r].phase \in {"editing", "registering"}
  /\ End(r)
  /\ UNCHANGED <<linked, entry, pending, asked, fate, raced>>

\* pending.save, and the question sent after it.
SavePending(r) ==
  /\ request[r].phase = "saving"
  /\ pending' \in {request[r].pending, pending}
  /\ End(r)
  /\ UNCHANGED <<linked, entry, asked, fate, raced>>

\* Mutant: what is pending stays until it expires.
ClearNothing(r) ==
  LET q == request[r] IN
  /\ q.phase = "closing"
  /\ Goto(r, IF q.next = "idle" THEN Idle ELSE [q EXCEPT !.phase = q.next, !.next = "idle"])
  /\ UNCHANGED <<linked, entry, pending, asked, fate, raced>>

\* pending.clear of a handler, or of the button that cancels.
ClearPending(r) ==
  LET q == request[r]
      a == PendingAmount(pending)
      cancels == q.account = NoAccount IN
  /\ q.phase = "closing"
  /\ Goto(r, IF q.next = "idle" THEN Idle ELSE [q EXCEPT !.phase = q.next, !.next = "idle"])
  /\ \/ /\ pending' = NoPending
        /\ fate' = IF cancels /\ a # NoAmount /\ ~Held(a)
                   THEN [fate EXCEPT ![a] = "cancelled"] ELSE fate
        /\ UNCHANGED raced
     \/ /\ raced' = raced \cup ({a} \ {NoAmount})   \* the cache is down
        /\ UNCHANGED <<pending, fate>>
  /\ UNCHANGED <<linked, entry, asked>>

\* A handler takes amount a out of the pending action and goes on to clear it.
Take(r, account, target, a, next) ==
  /\ Goto(r, Holding("closing", account, target, a, next))
  /\ raced' = IF a # NoAmount /\ Held(a) THEN raced \cup {a} ELSE raced
  /\ UNCHANGED <<linked, entry, pending, asked, fate>>

-----------------------------------------------------------------------------
(* Messages: handleUpdate.                                                 *)

\* A message of a linked sender; findActiveLinkByTelegramUserId.
Receive(r, s, text) ==
  /\ request[r] = Idle
  /\ linked[s] # NoAccount
  /\ IF text.amount = NoAmount THEN UNCHANGED fate
     ELSE fate[text.amount] = "untyped" /\ fate' = [fate EXCEPT ![text.amount] = "open"]
  /\ Goto(r, [phase |-> "reading", account |-> linked[s], text |-> text])
  /\ UNCHANGED <<linked, entry, pending, asked, raced>>

\* handleUpdate reads the pending action: an edit that waits for its amount takes the message,
\* otherwise its intent decides.
ReadPending(r) ==
  LET q == request[r] IN
  /\ q.phase = "reading"
  /\ \E p \in Seen :
       Goto(r, [q EXCEPT !.phase = IF p.type = "update" /\ PendingAmount(p) = NoAmount
                                   THEN "answering" ELSE "dispatching"])
  /\ UNCHANGED <<linked, entry, pending, asked, fate, raced>>

\* tryCompletePendingAmount reads it again: any amount in the message is the new amount of the
\* entry the question was about.
Answer(r) ==
  LET q == request[r] IN
  /\ q.phase = "answering"
  /\ \E p \in Seen :
       IF p.type = "update" /\ q.text.amount # NoAmount
       THEN Take(r, q.account, p.id, q.text.amount,
                 IF KindOf[p.id] = "product" THEN "idle" ELSE "editing")
       ELSE /\ Goto(r, [q EXCEPT !.phase = "dispatching"])
            /\ UNCHANGED <<linked, entry, pending, asked, fate, raced>>

\* dispatchIntent: a registration goes on to write its row.
DispatchRegistration(r) ==
  LET q == request[r] IN
  /\ q.phase = "dispatching" /\ q.text.intent = "register"
  /\ Goto(r, Holding("registering", q.account, q.text.kind, q.text.amount, "idle"))
  /\ UNCHANGED <<linked, entry, pending, asked, fate, raced>>

\* askIntentClarification: expense or income?
AskIntent(r) ==
  LET q == request[r] IN
  /\ q.phase = "dispatching" /\ q.text.intent = "unclear"
  /\ Goto(r, Saving(Clarification(q.text.amount)))
  /\ UNCHANGED <<linked, entry, pending, asked, fate, raced>>

\* deleteExpenseIntent, deleteIncomeIntent, deleteInventoryIntent: buttons and nothing else.
OfferDeletion(r) ==
  /\ request[r].phase = "dispatching" /\ request[r].text.intent = "delete"
  /\ End(r)
  /\ UNCHANGED <<linked, entry, pending, asked, fate, raced>>

\* offerUpdatePicks: one match with an amount is edited at once; one of several waits for its
\* button, one without an amount for its answer, and a product without either for nothing.
OfferUpdate(r) ==
  LET q == request[r]
      a == q.text.amount IN
  /\ q.phase = "dispatching" /\ q.text.intent = "update"
  /\ \E picks \in SUBSET Listed(q.account, q.text.kind) :
       \/ /\ picks = {} \/ (Cardinality(picks) = 1 /\ a = NoAmount /\ q.text.kind = "product")
          /\ End(r)
       \/ \E e \in picks :
            IF picks = {e} /\ a # NoAmount THEN Goto(r, Holding("editing", q.account, e, a, "idle"))
            ELSE /\ picks # {e} \/ q.text.kind # "product"
                 /\ Goto(r, Saving(Update(e, a)))
  /\ UNCHANGED <<linked, entry, pending, asked, fate, raced>>

-----------------------------------------------------------------------------
(* Buttons: handleCallback.                                                *)

\* tg:intent:cancel, which asks for no link.
PressCancel(r) ==
  /\ request[r] = Idle
  /\ Goto(r, Holding("closing", NoAccount, "none", NoAmount, "idle"))
  /\ UNCHANGED <<linked, entry, pending, asked, fate, raced>>

\* The other buttons look the sender up first.
Press(r, s, phase, target) ==
  /\ request[r] = Idle
  /\ linked[s] # NoAccount
  /\ Goto(r, [phase |-> phase, account |-> linked[s], target |-> target])
  /\ UNCHANGED <<linked, entry, pending, asked, fate, raced>>

\* Mutant: the first tap deletes.
DeletePicked(r) ==
  LET q == request[r] IN
  /\ q.phase = "picked"
  /\ entry' = IF Editable(q.account, q.target) THEN [entry EXCEPT ![q.target] = "deleted"] ELSE entry
  /\ End(r)
  /\ UNCHANGED <<linked, pending, asked, fate, raced>>

\* tg:pick:del:e, tg:del:e: sendExpenseDeleteConfirm.
AskConfirmation(r) ==
  LET q == request[r] IN
  /\ q.phase = "picked"
  /\ asked' = IF Found(q.account, q.target) THEN asked \cup {q.target} ELSE asked
  /\ End(r)
  /\ UNCHANGED <<linked, entry, pending, fate, raced>>

\* tg:ok:del:e, tg:del:i, tg:del:p: executeDeleteByShortId.
Delete(r) ==
  LET q == request[r] IN
  /\ q.phase = "deleting"
  /\ entry' = IF Editable(q.account, q.target) THEN [entry EXCEPT ![q.target] = "deleted"] ELSE entry
  /\ End(r)
  /\ UNCHANGED <<linked, pending, asked, fate, raced>>

\* tg:upd: executeUpdateByShortId takes the amount pending, whichever list it was typed for.
TakeForUpdate(r) ==
  LET q == request[r] IN
  /\ q.phase = "updating"
  /\ \E p \in Seen :
       Take(r, q.account, q.target, IF p.type = "update" THEN p.amount ELSE NoAmount, "choosing")

\* ... and, once it is cleared, looks the entry up: without an amount it asks for one.
Choose(r) ==
  LET q == request[r] IN
  /\ q.phase = "choosing"
  /\ IF ~Found(q.account, q.target) THEN End(r)
     ELSE IF q.amount # NoAmount THEN Goto(r, [q EXCEPT !.phase = "editing"])
     ELSE IF KindOf[q.target] = "product" THEN End(r)
     ELSE Goto(r, Saving(Update(q.target, NoAmount)))
  /\ UNCHANGED <<linked, entry, pending, asked, fate, raced>>

\* tg:intent:expense, tg:intent:income: the amount of the message that was not clear.
TakeForIntent(r) ==
  LET q == request[r] IN
  /\ q.phase = "clarifying"
  /\ \E p \in Seen :
       LET a == IF p.type = "clarify" THEN p.amount ELSE NoAmount IN
       IF p = NoPending THEN End(r) /\ UNCHANGED <<linked, entry, pending, asked, fate, raced>>
       ELSE Take(r, q.account, q.target, a, IF a = NoAmount THEN "idle" ELSE "registering")

-----------------------------------------------------------------------------
(* What happens around the handlers.                                       *)

\* PENDING_TTL_MS.
Expire ==
  /\ pending # NoPending /\ pending' = NoPending
  /\ UNCHANGED <<linked, entry, asked, request, fate, raced>>

\* The transaction of linkByCode: one link per account and per Telegram user.
LinkByCode(s, account) ==
  /\ linked[s] \in {NoAccount, account}
  /\ linked' = [t \in Senders |-> IF t = s THEN account
                                  ELSE IF linked[t] = account THEN NoAccount ELSE linked[t]]
  /\ UNCHANGED <<entry, pending, asked, request, fate, raced>>

\* DELETE me/telegram/link.
Unlink(s) ==
  /\ linked[s] # NoAccount
  /\ linked' = [linked EXCEPT ![s] = NoAccount]
  /\ UNCHANGED <<entry, pending, asked, request, fate, raced>>

-----------------------------------------------------------------------------
Init ==
  /\ linked = [s \in Senders |-> NoAccount]
  /\ entry = [e \in Entries |-> IF e \in Stored THEN "stored" ELSE "unused"]
  /\ pending = NoPending
  /\ asked = {}
  /\ request = [r \in Requests |-> Idle]
  /\ fate = [a \in Amounts |-> "untyped"]
  /\ raced = {}

Message == \E r \in Requests :
  \/ \E s \in Senders, text \in Texts : Receive(r, s, text)
  \/ ReadPending(r) \/ Answer(r)
  \/ DispatchRegistration(r) \/ AskIntent(r) \/ OfferDeletion(r) \/ OfferUpdate(r)

Button == \E r \in Requests :
  \/ PressCancel(r)
  \/ \E s \in Senders :
       \/ \E kind \in MovementsHere : Press(r, s, "clarifying", kind)
       \/ \E e \in Entries :
            \/ Press(r, s, "updating", e)
            \/ KindOf[e] = "expense" /\ Press(r, s, "picked", e)
            \/ (KindOf[e] = "expense" => e \in asked) /\ Press(r, s, "deleting", e)
  \/ AskConfirmation(r) \/ Delete(r) \/ TakeForUpdate(r) \/ Choose(r) \/ TakeForIntent(r)

Finish == \E r \in Requests :
  SavePending(r) \/ ClearPending(r) \/ Edit(r) \/ Register(r) \/ Refuse(r)

Around == Expire \/ \E s \in Senders : Unlink(s) \/ \E account \in Accounts : LinkByCode(s, account)

Next == Message \/ Button \/ Finish \/ Around

Spec == Init /\ [][Next]_vars

-----------------------------------------------------------------------------
(* Properties.                                                             *)

MaybeAmounts == Amounts \cup {NoAmount}
Pendings ==
  {NoPending} \cup [type : {"clarify"}, amount : MaybeAmounts]
  \cup [type : {"update"}, id : Entries, amount : MaybeAmounts]
\* What waits for a step: each row names what the handler knows there.
Readers == [phase : {"reading", "answering", "dispatching"}, account : Accounts, text : Texts]
Savers == [phase : {"saving"}, pending : Pendings]
ExpensesHere == {e \in Entries : KindOf[e] = "expense"}
Pressers ==
  [phase : {"updating", "deleting"}, account : Accounts, target : Entries]
  \cup [phase : {"picked"}, account : Accounts, target : ExpensesHere]
Clarifiers == [phase : {"clarifying"}, account : Accounts, target : MovementsHere]
HoldingRows(phase, accounts, targets, amounts, next) ==
  [phase : {phase}, account : accounts, target : targets, amount : amounts, next : {next}]
Closers ==
  HoldingRows("closing", {NoAccount}, {"none"}, {NoAmount}, "idle")
  \cup HoldingRows("closing", Accounts, Entries, Amounts, "idle")
  \cup HoldingRows("closing", Accounts, Entries, Amounts, "editing")
  \cup HoldingRows("closing", Accounts, Entries, MaybeAmounts, "choosing")
  \cup HoldingRows("closing", Accounts, MovementsHere, {NoAmount}, "idle")
  \cup HoldingRows("closing", Accounts, MovementsHere, Amounts, "registering")
Choosers == HoldingRows("choosing", Accounts, Entries, MaybeAmounts, "idle")
Editors == HoldingRows("editing", Accounts, Entries, Amounts, "idle")
Registrars == HoldingRows("registering", Accounts, MovementsHere, Amounts, "idle")
HandlerRows ==
  {Idle} \cup Readers \cup Savers \cup Pressers \cup Clarifiers
  \cup Closers \cup Choosers \cup Editors \cup Registrars

\* One link per account; the rows, the pending action and the handlers hold what they may; only
\* what a user typed is pending or about to be written.
TypeOK ==
  /\ linked \in [Senders -> Accounts \cup {NoAccount}]
  /\ \A s, t \in Senders : linked[s] = linked[t] /\ linked[s] # NoAccount => s = t
  /\ entry \in [Entries -> Amounts \cup {"stored", "unused", "deleted"}]
  /\ pending \in Pendings
  /\ asked \subseteq ExpensesHere
  /\ request \in [Requests -> HandlerRows]
  /\ fate \in [Amounts -> {"untyped", "open", "applied", "cancelled", "misapplied"}]
  /\ raced \subseteq Amounts

\* telegram-bot.service.ts:396: an amount the user typed is written at most once, and never once
\* she cancelled it, whatever questions, stale buttons, other senders and expirations come in
\* between.  Two taps whose handlers both read it before it is cleared, and a clear the cache
\* loses, may repeat it.
AmountAppliedOnce == \A a \in Amounts : fate[a] = "misapplied" => a \in raced

\* me.service.ts:1762, 1811: in a chat of several people, and after a link has moved to another
\* account, the bot writes only what the account of the sender it answers may write, although
\* a chat's pending action and buttons, and a list, name entries of others.
OwnEntriesOnly ==
  [][\A e \in Entries :
       entry'[e] # entry[e] =>
         \E r \in Requests : request[r] # Idle /\ request'[r] = Idle /\ request[r].account \in WritersOf(e)]_vars

\* docs/telegram-bot.md:68, "Solo al confirmar se borra el registro": an expense goes only after
\* the confirmation that names it was shown.
ExpensesDeletedConfirmed ==
  [][\A e \in Entries :
       KindOf[e] = "expense" /\ entry'[e] = "deleted" /\ entry[e] # "deleted" => e \in asked]_vars

-----------------------------------------------------------------------------
(* The inductive invariant behind them.                                    *)

\* A handler that may yet write amount a or make it pending.
Carries(q, a) ==
  \/ q \in Readers /\ q.text.amount = a
  \/ q \in Savers /\ PendingAmount(q.pending) = a
  \/ q.phase \in HoldingPhases /\ q.amount = a

\* An amount nobody has typed is nowhere.
UntypedNowhere ==
  \A a \in Amounts : fate[a] = "untyped" =>
    PendingAmount(pending) # a /\ \A r \in Requests : ~Carries(request[r], a)

\* Outside a race an amount is in one place, or pending and with the one handler that is about to
\* clear it; once its fate is settled it is in none.
OnePlace ==
  \A a \in Amounts \ raced :
    /\ \A r, s \in Requests : Carries(request[r], a) /\ Carries(request[s], a) => r = s
    /\ PendingAmount(pending) = a =>
         fate[a] = "open" /\ \A r \in Requests : Carries(request[r], a) => request[r] \in Closers
    /\ (\E r \in Requests : Carries(request[r], a)) => fate[a] = "open"

\* A deletion was confirmed where its confirmation was shown.
DeletionsAsked ==
  \A r \in Requests :
    request[r] \in Pressers /\ request[r].phase = "deleting" /\ KindOf[request[r].target] = "expense" =>
      request[r].target \in asked

\* The inductive invariant: outside a race an amount typed is in one place at most, and nowhere
\* once it is written or cancelled.
IInv == TypeOK /\ AmountAppliedOnce /\ UntypedNowhere /\ OnePlace /\ DeletionsAsked
=============================================================================
