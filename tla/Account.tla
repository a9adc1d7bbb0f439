------------------------------- MODULE Account -------------------------------
(***************************************************************************)
(* One account (auth.service.ts), known by its email: registration, login  *)
(* by password and by Google, the lock after too many wrong passwords, the *)
(* codes that open it and the links that set a password, await by await.   *)
(*                                                                         *)
(* Hashing is a bijection and sessions are signed tokens nobody stores:    *)
(* both leave no state.  A code or a link is its number; an expired one,   *)
(* which no handler accepts, is gone.                                      *)
(***************************************************************************)
EXTENDS Integers, FiniteSets

CONSTANTS
  Requests,     \* handlers that may be in flight together
  Passwords,
  MaxFailed,    \* MAX_FAILED_LOGIN_ATTEMPTS
  MaxAttempts,  \* MAX_UNLOCK_CODE_ATTEMPTS
  MaxIssued     \* bound: codes issued, and links issued

ASSUME AccountAssumption ==
  /\ IsFiniteSet(Requests)
  /\ MaxFailed \in Nat \ {0} /\ MaxAttempts \in Nat \ {0} /\ MaxIssued \in Nat

VARIABLES
  user,         \* the row of the email, or NoUser
  codes,        \* AccountUnlockCode
  links,        \* PasswordResetToken
  issued,       \* how many codes and links there have been
  request,      \* where each handler stands
  interrupted,  \* history: a handler about to lock the account was cut off by a restart
  used,         \* history: the links that have set a password
  overtaken     \* history: handlers about to set a password when another one set it

tokens == <<codes, links, issued>>
history == <<interrupted, used, overtaken>>
vars == <<user, tokens, request, history>>

None == "none"   \* passwordHash null
User(password, failed, locked) ==
  [exists |-> TRUE, password |-> password, failed |-> failed, locked |-> locked]
NoUser == [exists |-> FALSE, password |-> None, failed |-> 0, locked |-> FALSE]

Kinds == {"code", "link"}
Numbers == 1..MaxIssued
\* A number nobody was sent: a code or a link that is wrong.
Wrong == 0

Steps == {"create", "count", "lock", "zero",
          "dropCodes", "createCode", "mailCode", "withdrawCodes", "findCode", "attempt", "unlock",
          "dropLinks", "createLink", "mailLink", "withdrawLink", "replace", "set"}

\* A handler between two awaits: what it will write, the password it read, and the code or link
\* it holds.
At(step, password, seen, number, attempts) ==
  [step |-> step, password |-> password, seen |-> seen, number |-> number, attempts |-> attempts]
About(step) == At(step, None, None, Wrong, 0)
Holding(step, number, attempts) == At(step, None, None, number, attempts)
Idle == About("idle")

Handlers == [step : Steps \cup {"idle"}, password : Passwords \cup {None},
             seen : Passwords \cup {None}, number : Nat, attempts : Nat]

FailedCap == MaxFailed + Cardinality(Requests)   \* bound: wrong passwords counted

Init ==
  /\ user = NoUser /\ codes = {} /\ links = {}
  /\ issued = [k \in Kinds |-> 0]
  /\ request = [r \in Requests |-> Idle]
  /\ interrupted = FALSE /\ used = {} /\ overtaken = {}

Move(r, next) == request' = [request EXCEPT ![r] = next]
Go(r, step) == request[r].step = step
Change(row) == user' = row
Keep == UNCHANGED <<user, tokens, history>>

-----------------------------------------------------------------------------
(* Registration and sessions.                                              *)

\* register, and the first loginWithFirebase, which creates without a password.
Register(r) ==
  /\ request[r] = Idle
  /\ ~user.exists
  /\ \E p \in Passwords \cup {None} : Move(r, At("create", p, None, Wrong, 0))
  /\ Keep

\* The unique index on email refuses whoever comes second.
Create(r) ==
  /\ Go(r, "create")
  /\ Change(IF user.exists THEN user ELSE User(request[r].password, 0, FALSE))
  /\ Move(r, Idle)
  /\ UNCHANGED <<tokens, history>>

\* login: the row is read once.  A locked account and one without a password answer at once.
Login(r) ==
  /\ request[r] = Idle
  /\ user.exists /\ ~user.locked /\ user.password # None
  /\ \E p \in Passwords :
       \/ p # user.password /\ Move(r, About("count"))
       \/ p = user.password /\ user.failed > 0 /\ Move(r, About("zero"))
  /\ Keep

\* Mutant: one more wrong password than the limit.
CountPastLimit(r) ==
  /\ Go(r, "count") /\ user.failed < FailedCap
  /\ Change([user EXCEPT !.failed = @ + 1])
  /\ Move(r, IF user.failed + 1 <= MaxFailed \/ user.locked THEN Idle ELSE About("lock"))
  /\ UNCHANGED <<tokens, history>>

\* recordFailedPasswordLogin: an atomic increment, and the lock in a second statement.
Count(r) ==
  /\ Go(r, "count") /\ user.failed < FailedCap
  /\ Change([user EXCEPT !.failed = @ + 1])
  /\ Move(r, IF user.failed + 1 < MaxFailed \/ user.locked THEN Idle ELSE About("lock"))
  /\ UNCHANGED <<tokens, history>>

Lock(r) ==
  /\ Go(r, "lock")
  /\ Change([user EXCEPT !.locked = TRUE])
  /\ Move(r, Idle)
  /\ UNCHANGED <<tokens, history>>

\* A password that was right forgets the wrong ones, also those counted since it was read.
Zero(r) ==
  /\ Go(r, "zero")
  /\ Change([user EXCEPT !.failed = 0])
  /\ Move(r, Idle)
  /\ UNCHANGED <<tokens, history>>

-----------------------------------------------------------------------------
(* Opening a locked account.                                               *)

Issue(kind) == issued[kind] < MaxIssued /\ issued' = [issued EXCEPT ![kind] = @ + 1]

RequestUnlock(r) ==
  /\ request[r] = Idle
  /\ user.locked /\ user.password # None
  /\ Move(r, About("dropCodes"))
  /\ Keep

\* Mutant: the codes sent before stay valid.
DropNoCode(r) ==
  /\ Go(r, "dropCodes")
  /\ Move(r, About("createCode"))
  /\ Keep

DropCodes(r) ==
  /\ Go(r, "dropCodes")
  /\ codes' = {}
  /\ Move(r, About("createCode"))
  /\ UNCHANGED <<user, links, issued, history>>

CreateCode(r) ==
  /\ Go(r, "createCode")
  /\ Issue("code")
  /\ codes' = codes \cup {[number |-> issued'["code"], attempts |-> 0]}
  /\ Move(r, About("mailCode"))
  /\ UNCHANGED <<user, links, history>>

\* The mail leaves, or fails and every code of the account is withdrawn.
MailCode(r) ==
  /\ Go(r, "mailCode")
  /\ Move(r, Idle) \/ Move(r, About("withdrawCodes"))
  /\ Keep

WithdrawCodes(r) ==
  /\ Go(r, "withdrawCodes")
  /\ codes' = {}
  /\ Move(r, Idle)
  /\ UNCHANGED <<user, links, issued, history>>

VerifyUnlock(r) ==
  /\ request[r] = Idle
  /\ user.locked
  /\ \E n \in {Wrong} \cup 1..issued["code"] : Move(r, Holding("findCode", n, 0))
  /\ Keep

Newest(c) == c \in codes /\ \A other \in codes : other.number <= c.number

FindCode(r) ==
  /\ Go(r, "findCode")
  /\ \/ codes = {} /\ Move(r, Idle)
     \/ \E c \in codes :
          /\ Newest(c)
          /\ Move(r, IF c.number = request[r].number THEN About("unlock")
                     ELSE Holding("attempt", c.number, c.attempts + 1))
  /\ Keep

\* The attempts counted are those read: the row goes at the last one.
Attempt(r) ==
  LET old == {c \in codes : c.number = request[r].number}
      new == {c \in {[number |-> request[r].number, attempts |-> request[r].attempts]} :
                old # {} /\ c.attempts < MaxAttempts}
  IN
  /\ Go(r, "attempt")
  /\ codes' = (codes \ old) \cup new
  /\ Move(r, Idle)
  /\ UNCHANGED <<user, links, issued, history>>

Unlock(r) ==
  /\ Go(r, "unlock")
  /\ Change([user EXCEPT !.failed = 0, !.locked = FALSE])
  /\ codes' = {}
  /\ Move(r, Idle)
  /\ UNCHANGED <<links, issued, history>>

-----------------------------------------------------------------------------
(* Setting a password.                                                     *)

RequestReset(r) ==
  /\ request[r] = Idle
  /\ user.exists
  /\ Move(r, About("dropLinks"))
  /\ Keep

DropLinks(r) ==
  /\ Go(r, "dropLinks")
  /\ links' = {}
  /\ Move(r, About("createLink"))
  /\ UNCHANGED <<user, codes, issued, history>>

CreateLink(r) ==
  /\ Go(r, "createLink")
  /\ Issue("link")
  /\ links' = links \cup {issued'["link"]}
  /\ Move(r, Holding("mailLink", issued'["link"], 0))
  /\ UNCHANGED <<user, codes, history>>

MailLink(r) ==
  /\ Go(r, "mailLink")
  /\ Move(r, Idle) \/ Move(r, Holding("withdrawLink", request[r].number, 0))
  /\ Keep

WithdrawLink(r) ==
  /\ Go(r, "withdrawLink")
  /\ links' = links \ {request[r].number}
  /\ Move(r, Idle)
  /\ UNCHANGED <<user, codes, issued, history>>

\* resetPassword: a link that is there, and another password.
ResetPassword(r) ==
  /\ request[r] = Idle
  /\ \E n \in links, p \in Passwords :
       p # user.password /\ Move(r, At("replace", p, user.password, n, 0))
  /\ Keep

\* The password is set, in the stead of what the other handlers about to set one have read.
Setting == {"replace", "set"}
SetBy(r) ==
  /\ Change([user EXCEPT !.password = request[r].password])
  /\ overtaken' = {q \in Requests \ {r} : request[q].step \in Setting}

\* Mutant: the link, and the others of the account, stay valid.
ReplaceKeepingLinks(r) ==
  /\ Go(r, "replace")
  /\ SetBy(r)
  /\ used' = used \cup {request[r].number}
  /\ Move(r, Idle)
  /\ UNCHANGED <<tokens, interrupted>>

Replace(r) ==
  /\ Go(r, "replace")
  /\ SetBy(r)
  /\ links' = {} /\ used' = used \cup {request[r].number}
  /\ Move(r, Idle)
  /\ UNCHANGED <<codes, issued, interrupted>>

\* setupPassword: only where there is none.
SetupPassword(r) ==
  /\ request[r] = Idle
  /\ user.exists /\ user.password = None
  /\ \E p \in Passwords : Move(r, At("set", p, user.password, Wrong, 0))
  /\ Keep

Set(r) ==
  /\ Go(r, "set")
  /\ SetBy(r)
  /\ Move(r, Idle)
  /\ UNCHANGED <<tokens, interrupted, used>>

-----------------------------------------------------------------------------

\* Codes and links live as long as each other: the oldest goes first.
Expire ==
  /\ \/ \E c \in codes : /\ \A other \in codes : other.number >= c.number
                         /\ codes' = codes \ {c} /\ UNCHANGED links
     \/ \E n \in links : /\ \A other \in links : other >= n
                         /\ links' = links \ {n} /\ UNCHANGED codes
  /\ UNCHANGED <<user, issued, request, history>>

Restart ==
  /\ request' = [r \in Requests |-> Idle]
  /\ interrupted' = (interrupted \/ \E r \in Requests : Go(r, "lock"))
  /\ overtaken' = {}
  /\ UNCHANGED <<user, tokens, used>>

Handle(r) ==
  \/ Register(r) \/ Create(r) \/ Login(r) \/ Count(r) \/ Lock(r) \/ Zero(r)
  \/ RequestUnlock(r) \/ DropCodes(r) \/ CreateCode(r) \/ MailCode(r) \/ WithdrawCodes(r)
  \/ VerifyUnlock(r) \/ FindCode(r) \/ Attempt(r) \/ Unlock(r)
  \/ RequestReset(r) \/ DropLinks(r) \/ CreateLink(r) \/ MailLink(r) \/ WithdrawLink(r)
  \/ ResetPassword(r) \/ Replace(r) \/ SetupPassword(r) \/ Set(r)

Next == (\E r \in Requests : Handle(r)) \/ Expire \/ Restart

Spec == Init /\ [][Next]_vars

-----------------------------------------------------------------------------
(* Properties.                                                             *)

TypeOK ==
  /\ user \in [exists : BOOLEAN, password : Passwords \cup {None}, failed : Nat, locked : BOOLEAN]
  /\ issued \in [Kinds -> 0..MaxIssued]
  /\ codes \subseteq [number : Numbers, attempts : Nat]
  /\ links \subseteq Numbers
  /\ request \in [Requests -> Handlers]
  /\ interrupted \in BOOLEAN

\* An account with MaxFailed wrong passwords is locked, or a handler is about to lock it
\* (auth.service.ts:534): logins that were under way when it got there cannot keep it open.
\* Only a handler cut off between the two statements can: by a restart, which stands for the
\* second statement failing as well.
LockedAtLimit ==
  user.failed >= MaxFailed
    => user.locked \/ (\E r \in Requests : Go(r, "lock")) \/ interrupted

\* What the handlers that set a password hold.
HandlerOK(h) ==
  /\ h.step = "replace" => h.number # Wrong /\ h.seen # h.password
  /\ h.step = "set" => h.seen = None
SettersAreRight == \A r \in Requests : HandlerOK(request[r])

\* Before there is an account there are only registrations.
OnlyRegistering ==
  ~user.exists =>
    user = NoUser /\ links = {} /\ \A r \in Requests : request[r].step \in {"idle", "create"}

\* The inductive invariant.
IInv ==
  /\ TypeOK
  /\ OnlyRegistering
  /\ LockedAtLimit
  /\ SettersAreRight

\* What keeps the valid codes, or links, within the handlers: each handler about to add one has
\* withdrawn all there were, and a restart only takes handlers away.
Adding(step) == {r \in Requests : Go(r, step)}
RoomToAdd(valid, step) ==
  /\ IsFiniteSet(valid)
  /\ Cardinality(valid) + Cardinality(Adding(step)) <= Cardinality(Requests)
TokensInv == RoomToAdd(codes, "createCode") /\ RoomToAdd(links, "createLink")

\* Each request for a code or a link withdraws those before it (auth.service.ts:308, 409), in a
\* statement of its own: no more are valid together than handlers can overlap.
OneValidPerHandler ==
  Cardinality(codes) <= Cardinality(Requests) /\ Cardinality(links) <= Cardinality(Requests)

\* The links that have set a password are gone, and a handler about to set one that nobody
\* overtook still has the password it read, and a link nobody has used.
LinksInv ==
  /\ used \cup links \subseteq 1..issued["link"]
  /\ used \cap links = {}
  /\ overtaken \subseteq Requests
  /\ \A r \in Requests : Go(r, "replace") => request[r].number \in 1..issued["link"]
  /\ \A r \in Requests \ overtaken :
       /\ request[r].step \in Setting => request[r].seen = user.password
       /\ Go(r, "replace") => request[r].number \notin used

\* A password goes only for another one, brought by a link that has set none before
\* (schema.prisma:126, "Token de un solo uso") and by a handler that read the password that goes:
\* never for that of setupPassword (auth.service.ts:485, "si ya hay hash, error explicito") nor of
\* a second registration.  Only a handler that was about to set one while another one did,
\* and was overtaken, replaces it unseen or by the same link.
PasswordReplaced ==
  [][user.password # None /\ user'.password # user.password =>
       \E r \in Requests :
         /\ request'[r] = Idle
         /\ \/ /\ Go(r, "replace") /\ request[r].seen = user.password
               /\ request[r].number \notin used
            \/ request[r].step \in Setting /\ r \in overtaken]_vars
=============================================================================
