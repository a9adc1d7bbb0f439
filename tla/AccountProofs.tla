--------------------------- MODULE AccountProofs ---------------------------
(***************************************************************************)
(* The inductive invariant of Account, for every number of handlers,       *)
(* passwords and attempts.                                                 *)
(***************************************************************************)
EXTENDS Account, FiniteSetTheorems, TLAPS

\* A shorthand of three variables, expanded in every step.
USE DEF history

UserOK == user \in [exists : BOOLEAN, password : Passwords \cup {None}, failed : Nat, locked : BOOLEAN]
TokensOK ==
  /\ issued \in [Kinds -> 0..MaxIssued]
  /\ codes \subseteq [number : Numbers, attempts : Nat]
  /\ links \subseteq Numbers

-----------------------------------------------------------------------------
(* What a step does to the handlers.                                       *)

LEMMA HandlerConstructors ==
  ASSUME NEW step \in Steps \cup {"idle"}, NEW p \in Passwords \cup {None},
         NEW seen \in Passwords \cup {None}, NEW n \in Nat, NEW attempts \in Nat
  PROVE  At(step, p, seen, n, attempts) \in Handlers
BY DEF At, Handlers

LEMMA RequestMove ==
  ASSUME TypeOK, SettersAreRight, NEW r \in Requests, NEW next \in Handlers, HandlerOK(next), Move(r, next)
  PROVE  /\ request' \in [Requests -> Handlers]
         /\ SettersAreRight'
         /\ request'[r] = next
         /\ \A q \in Requests : q # r => request'[q] = request[q]
<1>1. request'[r] = next /\ \A q \in Requests : q # r => request'[q] = request[q]
  BY DEF Move, TypeOK
<1>2. request' \in [Requests -> Handlers]
  BY DEF Move, TypeOK
<1>3. SettersAreRight'
  <2>1. ASSUME NEW q \in Requests PROVE HandlerOK(request'[q])
    BY <1>1 DEF SettersAreRight
  <2> QED
    BY <2>1 DEF SettersAreRight, HandlerOK
<1> QED
  BY <1>1, <1>2, <1>3

LEMMA IdleOK == Idle \in Handlers /\ HandlerOK(Idle)
<1>1. Idle \in Handlers
  BY HandlerConstructors DEF Idle, About, Wrong
<1> QED
  BY <1>1 DEF Idle, About, At, HandlerOK

\* A lock under way stays under way when another handler moves.
LEMMA LockMove ==
  ASSUME LockedAtLimit, NEW r \in Requests, ~Go(r, "lock"),
         \A q \in Requests : q # r => request'[q] = request[q],
         user'.failed = user.failed, user'.locked = user.locked, interrupted' = interrupted
  PROVE  LockedAtLimit'
<1> SUFFICES ASSUME user.failed >= MaxFailed, ~user.locked, ~interrupted
             PROVE  \E q \in Requests : request'[q].step = "lock"
  BY DEF LockedAtLimit, Go
<1>1. PICK q \in Requests : request[q].step = "lock"
  BY DEF LockedAtLimit, Go
<1>2. q # r
  BY <1>1 DEF Go
<1> QED
  BY <1>1, <1>2

\* A step that only moves its handler.
LEMMA QuietMove ==
  ASSUME IInv, Keep, NEW r \in Requests, ~Go(r, "lock"),
         NEW next \in Handlers, HandlerOK(next), Move(r, next),
         user.exists \/ next.step \in {"idle", "create"}
  PROVE  IInv'
<1>1. /\ request' \in [Requests -> Handlers] /\ SettersAreRight'
      /\ \A q \in Requests : q # r => request'[q] = request[q]
  BY RequestMove DEF IInv
<1>2. LockedAtLimit'
  BY <1>1, LockMove DEF IInv, Keep
<1>3. OnlyRegistering'
  BY RequestMove DEF IInv, OnlyRegistering, Keep, tokens, NoUser
<1> QED
  BY <1>1, <1>2, <1>3 DEF IInv, TypeOK, Keep, tokens

\* A step that ends its handler and changes only codes or links.
LEMMA TokenMove ==
  ASSUME IInv, NEW r \in Requests, ~Go(r, "lock"), NEW next \in Handlers, HandlerOK(next), Move(r, next),
         UNCHANGED <<user, interrupted>>, TokensOK', user.exists
  PROVE  IInv'
<1>1. /\ request' \in [Requests -> Handlers] /\ SettersAreRight'
      /\ \A q \in Requests : q # r => request'[q] = request[q]
  BY RequestMove DEF IInv
<1>2. LockedAtLimit'
  BY <1>1, LockMove DEF IInv
<1> QED
  BY <1>1, <1>2 DEF IInv, TypeOK, TokensOK, OnlyRegistering

\* A step that ends its handler and changes the account.
LEMMA UserMove ==
  ASSUME IInv, NEW r \in Requests, Move(r, Idle), UNCHANGED interrupted, UserOK', TokensOK',
         user'.exists, LockedAtLimit'
  PROVE  IInv'
<1>1. request' \in [Requests -> Handlers] /\ SettersAreRight'
  BY RequestMove, IdleOK DEF IInv
<1> QED
  BY <1>1 DEF IInv, TypeOK, TokensOK, UserOK, OnlyRegistering

-----------------------------------------------------------------------------

LEMMA InitInv == Init => IInv
<1> SUFFICES ASSUME Init PROVE IInv
  OBVIOUS
<1> USE AccountAssumption
<1>1. TypeOK
  <2>1. user \in [exists : BOOLEAN, password : Passwords \cup {None}, failed : Nat, locked : BOOLEAN]
    BY DEF Init, NoUser
  <2>2. request \in [Requests -> Handlers]
    BY IdleOK DEF Init
  <2>3. issued \in [Kinds -> 0..MaxIssued]
    BY DEF Init
  <2>4. interrupted \in BOOLEAN /\ codes = {} /\ links = {}
    BY Zenon DEF Init
  <2> QED
    BY <2>1, <2>2, <2>3, <2>4 DEF TypeOK
<1>2. LockedAtLimit
  BY SMT DEF Init, NoUser, LockedAtLimit
<1>3. SettersAreRight
  BY IdleOK DEF Init, SettersAreRight
<1>4. OnlyRegistering
  BY DEF Init, OnlyRegistering, Idle, About, At
<1> QED
  BY <1>1, <1>2, <1>3, <1>4 DEF IInv

LEMMA Exists ==
  ASSUME IInv, NEW r \in Requests, request[r].step \notin {"idle", "create"}
  PROVE  user.exists
BY DEF IInv, OnlyRegistering

-----------------------------------------------------------------------------
(* Steps that read.                                                        *)

LEMMA AboutOK ==
  ASSUME NEW step \in Steps \ {"replace", "set"}
  PROVE  About(step) \in Handlers /\ HandlerOK(About(step))
<1>1. About(step) \in Handlers
  BY HandlerConstructors DEF About, Wrong
<1>2. About(step).step = step
  BY DEF About, At
<1> QED
  BY <1>1, <1>2 DEF HandlerOK

LEMMA HoldingOK ==
  ASSUME NEW step \in Steps \ {"replace", "set"}, NEW n \in Nat, NEW attempts \in Nat
  PROVE  Holding(step, n, attempts) \in Handlers /\ HandlerOK(Holding(step, n, attempts))
<1>1. Holding(step, n, attempts) \in Handlers
  BY HandlerConstructors DEF Holding
<1>2. Holding(step, n, attempts).step = step
  BY DEF Holding, At
<1> QED
  BY <1>1, <1>2 DEF HandlerOK

LEMMA NotLocking ==
  ASSUME NEW r \in Requests, request[r] = Idle
  PROVE  ~Go(r, "lock")
BY DEF Go, Idle, About, At

LEMMA RegisterInv ==
  ASSUME IInv, NEW r \in Requests, Register(r)
  PROVE  IInv'
<1>1. PICK p \in Passwords \cup {None} : Move(r, At("create", p, None, Wrong, 0)) /\ Keep /\ request[r] = Idle
  BY DEF Register
<1> DEFINE next == At("create", p, None, Wrong, 0)
<1>2. next \in Handlers
  BY HandlerConstructors DEF Steps, Wrong
<1>3. HandlerOK(next)
  BY DEF HandlerOK, At
<1>4. next.step = "create"
  BY DEF At
<1> HIDE DEF next
<1> QED
  BY <1>1, <1>2, <1>3, <1>4, QuietMove, NotLocking DEF next

LEMMA LoginInv ==
  ASSUME IInv, NEW r \in Requests, Login(r)
  PROVE  IInv'
<1>1. request[r] = Idle /\ user.exists /\ Keep /\ (Move(r, About("count")) \/ Move(r, About("zero")))
  BY DEF Login
<1>2. \A step \in {"count", "zero"} : About(step) \in Handlers /\ HandlerOK(About(step))
  BY AboutOK DEF Steps
<1> QED
  BY <1>1, <1>2, QuietMove, NotLocking

LEMMA RequestUnlockInv ==
  ASSUME IInv, NEW r \in Requests, RequestUnlock(r)
  PROVE  IInv'
<1>1. request[r] = Idle /\ Keep /\ Move(r, About("dropCodes"))
  BY DEF RequestUnlock
<1>2. About("dropCodes") \in Handlers /\ HandlerOK(About("dropCodes"))
  BY AboutOK DEF Steps
<1>9. user.exists
  BY DEF RequestUnlock, IInv, OnlyRegistering, NoUser
<1> QED
  BY <1>9, <1>1, <1>2, QuietMove, NotLocking

LEMMA RequestResetInv ==
  ASSUME IInv, NEW r \in Requests, RequestReset(r)
  PROVE  IInv'
<1>1. request[r] = Idle /\ user.exists /\ Keep /\ Move(r, About("dropLinks"))
  BY DEF RequestReset
<1>2. About("dropLinks") \in Handlers /\ HandlerOK(About("dropLinks"))
  BY AboutOK DEF Steps
<1> QED
  BY <1>1, <1>2, QuietMove, NotLocking

LEMMA MailCodeInv ==
  ASSUME IInv, NEW r \in Requests, MailCode(r)
  PROVE  IInv'
<1>1. ~Go(r, "lock") /\ Keep /\ (Move(r, Idle) \/ Move(r, About("withdrawCodes")))
  BY DEF MailCode, Go
<1>2. About("withdrawCodes") \in Handlers /\ HandlerOK(About("withdrawCodes"))
  BY AboutOK DEF Steps
<1>9. user.exists
  BY Exists DEF MailCode, Go
<1> QED
  BY <1>9, <1>1, <1>2, QuietMove, IdleOK

LEMMA MailLinkInv ==
  ASSUME IInv, NEW r \in Requests, MailLink(r)
  PROVE  IInv'
<1>1. /\ ~Go(r, "lock") /\ Keep
      /\ Move(r, Idle) \/ Move(r, Holding("withdrawLink", request[r].number, 0))
  BY DEF MailLink, Go
<1>2. request[r].number \in Nat
  BY DEF IInv, TypeOK, Handlers
<1>3. /\ Holding("withdrawLink", request[r].number, 0) \in Handlers
      /\ HandlerOK(Holding("withdrawLink", request[r].number, 0))
  BY <1>2, HoldingOK DEF Steps
<1>9. user.exists
  BY Exists DEF MailLink, Go
<1> QED
  BY <1>9, <1>1, <1>3, QuietMove, IdleOK

LEMMA VerifyUnlockInv ==
  ASSUME IInv, NEW r \in Requests, VerifyUnlock(r)
  PROVE  IInv'
<1>1. PICK n \in {Wrong} \cup 1..issued["code"] : request[r] = Idle /\ Keep /\ Move(r, Holding("findCode", n, 0))
  BY DEF VerifyUnlock
<1>2. n \in Nat
  BY DEF IInv, TypeOK, Kinds, Wrong
<1>3. Holding("findCode", n, 0) \in Handlers /\ HandlerOK(Holding("findCode", n, 0))
  BY <1>2, HoldingOK DEF Steps
<1>9. user.exists
  BY DEF VerifyUnlock, IInv, OnlyRegistering, NoUser
<1> QED
  BY <1>9, <1>1, <1>3, QuietMove, NotLocking

LEMMA FindCodeInv ==
  ASSUME IInv, NEW r \in Requests, FindCode(r)
  PROVE  IInv'
<1>1. ~Go(r, "lock") /\ Keep
  BY DEF FindCode, Go
<1>6. user.exists
  BY Exists DEF FindCode, Go
<1>2. CASE Move(r, Idle)
  BY <1>1, <1>2, <1>6, QuietMove, IdleOK
<1>3. CASE Move(r, About("unlock"))
  <2>1. About("unlock") \in Handlers /\ HandlerOK(About("unlock"))
    BY AboutOK DEF Steps
  <2> QED
    BY <1>1, <1>3, <1>6, <2>1, QuietMove
<1>4. ASSUME NEW c \in codes, Move(r, Holding("attempt", c.number, c.attempts + 1)) PROVE IInv'
  <2>1. c.number \in Nat /\ c.attempts + 1 \in Nat
    BY DEF IInv, TypeOK, Numbers
  <2>2. /\ Holding("attempt", c.number, c.attempts + 1) \in Handlers
        /\ HandlerOK(Holding("attempt", c.number, c.attempts + 1))
    BY <2>1, HoldingOK DEF Steps
  <2> QED
    BY <1>1, <1>4, <1>6, <2>2, QuietMove
<1>5. \/ Move(r, Idle) \/ Move(r, About("unlock"))
      \/ \E c \in codes : Move(r, Holding("attempt", c.number, c.attempts + 1))
  BY DEF FindCode
<1> QED
  BY <1>2, <1>3, <1>4, <1>5

LEMMA ResetPasswordInv ==
  ASSUME IInv, NEW r \in Requests, ResetPassword(r)
  PROVE  IInv'
<1>1. PICK n \in links, p \in Passwords :
        request[r] = Idle /\ Keep /\ p # user.password /\ Move(r, At("replace", p, user.password, n, 0))
  BY DEF ResetPassword
<1> DEFINE next == At("replace", p, user.password, n, 0)
<1>2. n \in Nat /\ n # Wrong /\ user.password \in Passwords \cup {None}
  BY DEF IInv, TypeOK, Numbers, Wrong
<1>3. next \in Handlers
  BY <1>2, HandlerConstructors DEF Steps
<1>4. HandlerOK(next)
  BY <1>1, <1>2 DEF HandlerOK, At
<1>9. user.exists
  BY DEF ResetPassword, IInv, OnlyRegistering
<1> HIDE DEF next
<1> QED
  BY <1>9, <1>1, <1>3, <1>4, QuietMove, NotLocking DEF next

LEMMA SetupPasswordInv ==
  ASSUME IInv, NEW r \in Requests, SetupPassword(r)
  PROVE  IInv'
<1>1. PICK p \in Passwords :
        request[r] = Idle /\ Keep /\ user.password = None /\ Move(r, At("set", p, user.password, Wrong, 0))
  BY DEF SetupPassword
<1> DEFINE next == At("set", p, user.password, Wrong, 0)
<1>2. next \in Handlers
  BY <1>1, HandlerConstructors DEF Steps, Wrong
<1>3. HandlerOK(next)
  BY <1>1 DEF HandlerOK, At
<1>9. user.exists
  BY DEF SetupPassword, IInv, OnlyRegistering
<1> HIDE DEF next
<1> QED
  BY <1>9, <1>1, <1>2, <1>3, QuietMove, NotLocking DEF next

-----------------------------------------------------------------------------
(* Steps that issue, withdraw or use a code or a link.                     *)

LEMMA DropCodesInv ==
  ASSUME IInv, NEW r \in Requests, DropCodes(r)
  PROVE  IInv'
<1>1. ~Go(r, "lock") /\ Move(r, About("createCode")) /\ UNCHANGED <<user, interrupted>>
  BY DEF DropCodes, Go
<1>2. About("createCode") \in Handlers /\ HandlerOK(About("createCode"))
  BY AboutOK DEF Steps
<1>3. TokensOK'
  BY DEF DropCodes, IInv, TypeOK, TokensOK
<1>9. user.exists
  BY Exists DEF DropCodes, Go
<1> QED
  BY <1>9, <1>1, <1>2, <1>3, TokenMove

LEMMA Issued ==
  ASSUME TypeOK, NEW kind \in Kinds, Issue(kind)
  PROVE  issued' \in [Kinds -> 0..MaxIssued] /\ issued'[kind] \in Numbers
BY AccountAssumption DEF TypeOK, Issue, Numbers

LEMMA CreateCodeInv ==
  ASSUME IInv, NEW r \in Requests, CreateCode(r)
  PROVE  IInv'
<1>1. ~Go(r, "lock") /\ Move(r, About("mailCode")) /\ UNCHANGED <<user, interrupted>>
  BY DEF CreateCode, Go
<1>2. About("mailCode") \in Handlers /\ HandlerOK(About("mailCode"))
  BY AboutOK DEF Steps
<1>3. issued' \in [Kinds -> 0..MaxIssued] /\ issued'["code"] \in Numbers
  BY Issued DEF CreateCode, IInv, Kinds
<1>4. TokensOK'
  BY <1>3 DEF CreateCode, IInv, TypeOK, TokensOK
<1>9. user.exists
  BY Exists DEF CreateCode, Go
<1> QED
  BY <1>9, <1>1, <1>2, <1>4, TokenMove

LEMMA WithdrawCodesInv ==
  ASSUME IInv, NEW r \in Requests, WithdrawCodes(r)
  PROVE  IInv'
<1>1. ~Go(r, "lock") /\ Move(r, Idle) /\ UNCHANGED <<user, interrupted>>
  BY DEF WithdrawCodes, Go
<1>2. TokensOK'
  BY DEF WithdrawCodes, IInv, TypeOK, TokensOK
<1>9. user.exists
  BY Exists DEF WithdrawCodes, Go
<1> QED
  BY <1>9, <1>1, <1>2, TokenMove, IdleOK

LEMMA AttemptInv ==
  ASSUME IInv, NEW r \in Requests, Attempt(r)
  PROVE  IInv'
<1>1. ~Go(r, "lock") /\ Move(r, Idle) /\ UNCHANGED <<user, links, issued, interrupted>>
  BY DEF Attempt, Go
<1>2. request[r].number \in Nat /\ request[r].attempts \in Nat
  BY DEF IInv, TypeOK, Handlers
<1> DEFINE old == {c \in codes : c.number = request[r].number}
           row == [number |-> request[r].number, attempts |-> request[r].attempts]
           new == {c \in {row} : old # {} /\ c.attempts < MaxAttempts}
<1>3. codes' = (codes \ old) \cup new
  BY DEF Attempt
<1>4. old # {} => request[r].number \in Numbers
  BY DEF IInv, TypeOK
<1>5. new \subseteq [number : Numbers, attempts : Nat]
  BY <1>2, <1>4
<1>6. codes' \subseteq [number : Numbers, attempts : Nat]
  <2> HIDE DEF new, old
  <2> QED
    BY <1>3, <1>5 DEF IInv, TypeOK
<1>7. TokensOK'
  BY <1>1, <1>6 DEF IInv, TypeOK, TokensOK
<1>9. user.exists
  BY Exists DEF Attempt, Go
<1> QED
  BY <1>9, <1>1, <1>7, TokenMove, IdleOK

LEMMA DropLinksInv ==
  ASSUME IInv, NEW r \in Requests, DropLinks(r)
  PROVE  IInv'
<1>1. ~Go(r, "lock") /\ Move(r, About("createLink")) /\ UNCHANGED <<user, interrupted>>
  BY DEF DropLinks, Go
<1>2. About("createLink") \in Handlers /\ HandlerOK(About("createLink"))
  BY AboutOK DEF Steps
<1>3. TokensOK'
  BY DEF DropLinks, IInv, TypeOK, TokensOK
<1>9. user.exists
  BY Exists DEF DropLinks, Go
<1> QED
  BY <1>9, <1>1, <1>2, <1>3, TokenMove

LEMMA CreateLinkInv ==
  ASSUME IInv, NEW r \in Requests, CreateLink(r)
  PROVE  IInv'
<1>1. ~Go(r, "lock") /\ Move(r, Holding("mailLink", issued'["link"], 0)) /\ UNCHANGED <<user, interrupted>>
  BY DEF CreateLink, Go
<1>2. issued' \in [Kinds -> 0..MaxIssued] /\ issued'["link"] \in Numbers
  BY Issued DEF CreateLink, IInv, Kinds
<1>3. issued'["link"] \in Nat
  BY <1>2 DEF Numbers
<1>4. Holding("mailLink", issued'["link"], 0) \in Handlers /\ HandlerOK(Holding("mailLink", issued'["link"], 0))
  BY <1>3, HoldingOK DEF Steps
<1>5. TokensOK'
  BY <1>2 DEF CreateLink, IInv, TypeOK, TokensOK
<1>9. user.exists
  BY Exists DEF CreateLink, Go
<1> QED
  BY <1>9, <1>1, <1>4, <1>5, TokenMove

LEMMA WithdrawLinkInv ==
  ASSUME IInv, NEW r \in Requests, WithdrawLink(r)
  PROVE  IInv'
<1>1. ~Go(r, "lock") /\ Move(r, Idle) /\ UNCHANGED <<user, interrupted>>
  BY DEF WithdrawLink, Go
<1>2. TokensOK'
  BY DEF WithdrawLink, IInv, TypeOK, TokensOK
<1>9. user.exists
  BY Exists DEF WithdrawLink, Go
<1> QED
  BY <1>9, <1>1, <1>2, TokenMove, IdleOK

-----------------------------------------------------------------------------
(* Steps that write the account.                                           *)

LEMMA CreateInv ==
  ASSUME IInv, NEW r \in Requests, Create(r)
  PROVE  IInv'
<1>1. Move(r, Idle) /\ UNCHANGED <<tokens, interrupted>> /\ ~Go(r, "lock")
  BY DEF Create, Go
<1>2. TokensOK'
  BY <1>1 DEF IInv, TypeOK, TokensOK, tokens
<1>3. CASE user.exists
  <2>1. UNCHANGED <<user, interrupted>>
    BY <1>1, <1>3 DEF Create, Change
  <2> QED
    BY <1>1, <1>2, <1>3, <2>1, TokenMove, IdleOK
<1>4. CASE ~user.exists
  <2>1. user' = User(request[r].password, 0, FALSE)
    BY <1>4 DEF Create, Change
  <2>2. request[r].password \in Passwords \cup {None}
    BY DEF IInv, TypeOK, Handlers
  <2>3. UserOK' /\ user'.exists
    BY <2>1, <2>2 DEF UserOK, User
  <2>4. LockedAtLimit'
    BY <2>1, AccountAssumption, SMT DEF User, LockedAtLimit
  <2> QED
    BY <1>1, <1>2, <2>3, <2>4, UserMove
<1> QED
  BY <1>3, <1>4
\* A row written over the account.
LEMMA Written ==
  ASSUME TypeOK, user.exists, NEW p \in Passwords \cup {None}, NEW failed \in Nat, NEW locked \in BOOLEAN,
         user' = [user EXCEPT !.password = p, !.failed = failed, !.locked = locked]
  PROVE  /\ UserOK' /\ user'.exists
         /\ user'.password = p /\ user'.failed = failed /\ user'.locked = locked
BY DEF TypeOK, UserOK

LEMMA CountInv ==
  ASSUME IInv, NEW r \in Requests, Count(r)
  PROVE  IInv'
<1>1. user.exists
  BY Exists DEF Count, Go
<1>2. user.failed \in Nat /\ user.locked \in BOOLEAN /\ user.password \in Passwords \cup {None}
  BY DEF IInv, TypeOK
<1>3. user' = [user EXCEPT !.password = user.password, !.failed = user.failed + 1, !.locked = user.locked]
  BY DEF Count, Change, IInv, TypeOK
<1>4. UserOK' /\ user'.exists /\ user'.failed = user.failed + 1 /\ user'.locked = user.locked
  <2>1. user.failed + 1 \in Nat
    BY <1>2
  <2> QED
    BY <1>1, <1>2, <1>3, <2>1, Written DEF IInv
<1>5. UNCHANGED <<tokens, interrupted>>
  BY DEF Count
<1>6. TokensOK'
  BY <1>5 DEF IInv, TypeOK, TokensOK, tokens
<1>7. CASE Move(r, Idle) /\ (user.failed + 1 < MaxFailed \/ user.locked)
  <2>1. LockedAtLimit'
    BY <1>2, <1>4, <1>7, AccountAssumption DEF LockedAtLimit
  <2> QED
    BY <1>4, <1>5, <1>6, <1>7, <2>1, UserMove
<1>8. CASE Move(r, About("lock"))
  <2>1. About("lock") \in Handlers /\ HandlerOK(About("lock")) /\ About("lock").step = "lock"
    BY AboutOK DEF Steps, About, At
  <2>2. request' \in [Requests -> Handlers] /\ SettersAreRight' /\ request'[r].step = "lock"
    BY <1>8, <2>1, RequestMove DEF IInv
  <2>3. LockedAtLimit'
    BY <2>2 DEF LockedAtLimit, Go
  <2>4. interrupted' \in BOOLEAN
    BY <1>5 DEF IInv, TypeOK
  <2>5. TypeOK'
    BY <1>4, <1>6, <2>2, <2>4 DEF TypeOK, TokensOK, UserOK
  <2> QED
    BY <1>4, <2>2, <2>3, <2>5 DEF IInv, OnlyRegistering
<1> QED
  BY <1>7, <1>8 DEF Count

LEMMA LockInv ==
  ASSUME IInv, NEW r \in Requests, Lock(r)
  PROVE  IInv'
<1>1. user.exists
  BY Exists DEF Lock, Go
<1>2. /\ user.failed \in Nat /\ user.locked \in BOOLEAN /\ user.password \in Passwords \cup {None}
      /\ request[r].password \in Passwords \cup {None}
  BY DEF IInv, TypeOK, Handlers
<1>3. user' = [user EXCEPT !.password = user.password, !.failed = user.failed, !.locked = TRUE]
  BY <1>1, <1>2 DEF Lock, Change, IInv, TypeOK
<1>4. /\ UserOK' /\ user'.exists
      /\ user'.failed = user.failed /\ user'.locked = TRUE
  BY <1>1, <1>2, <1>3, Written DEF IInv
<1>5. Move(r, Idle) /\ UNCHANGED interrupted
  BY DEF Lock, Go
<1>6. TokensOK'
  BY DEF Lock, IInv, TypeOK, TokensOK, tokens
<1>7. LockedAtLimit'
  BY <1>4 DEF LockedAtLimit
<1> QED
  BY <1>4, <1>5, <1>6, <1>7, UserMove

LEMMA ZeroInv ==
  ASSUME IInv, NEW r \in Requests, Zero(r)
  PROVE  IInv'
<1>1. user.exists
  BY Exists DEF Zero, Go
<1>2. /\ user.failed \in Nat /\ user.locked \in BOOLEAN /\ user.password \in Passwords \cup {None}
      /\ request[r].password \in Passwords \cup {None}
  BY DEF IInv, TypeOK, Handlers
<1>3. user' = [user EXCEPT !.password = user.password, !.failed = 0, !.locked = user.locked]
  BY <1>1, <1>2 DEF Zero, Change, IInv, TypeOK
<1>4. /\ UserOK' /\ user'.exists
      /\ user'.failed = 0 /\ user'.locked = user.locked
  BY <1>1, <1>2, <1>3, Written DEF IInv
<1>5. Move(r, Idle) /\ UNCHANGED interrupted /\ ~Go(r, "lock")
  BY DEF Zero, Go
<1>6. TokensOK'
  BY DEF Zero, IInv, TypeOK, TokensOK, tokens
<1>7. LockedAtLimit'
  BY <1>4, AccountAssumption DEF LockedAtLimit
<1> QED
  BY <1>4, <1>5, <1>6, <1>7, UserMove

LEMMA UnlockInv ==
  ASSUME IInv, NEW r \in Requests, Unlock(r)
  PROVE  IInv'
<1>1. user.exists
  BY Exists DEF Unlock, Go
<1>2. /\ user.failed \in Nat /\ user.locked \in BOOLEAN /\ user.password \in Passwords \cup {None}
      /\ request[r].password \in Passwords \cup {None}
  BY DEF IInv, TypeOK, Handlers
<1>3. user' = [user EXCEPT !.password = user.password, !.failed = 0, !.locked = FALSE]
  BY <1>1, <1>2 DEF Unlock, Change, IInv, TypeOK
<1>4. /\ UserOK' /\ user'.exists
      /\ user'.failed = 0 /\ user'.locked = FALSE
  BY <1>1, <1>2, <1>3, Written DEF IInv
<1>5. Move(r, Idle) /\ UNCHANGED interrupted /\ ~Go(r, "lock")
  BY DEF Unlock, Go
<1>6. TokensOK'
  BY DEF Unlock, IInv, TypeOK, TokensOK, tokens
<1>7. LockedAtLimit'
  BY <1>4, AccountAssumption DEF LockedAtLimit
<1> QED
  BY <1>4, <1>5, <1>6, <1>7, UserMove

LEMMA ReplaceInv ==
  ASSUME IInv, NEW r \in Requests, Replace(r)
  PROVE  IInv'
<1>1. user.exists
  BY Exists DEF Replace, Go
<1>2. /\ user.failed \in Nat /\ user.locked \in BOOLEAN /\ user.password \in Passwords \cup {None}
      /\ request[r].password \in Passwords \cup {None}
  BY DEF IInv, TypeOK, Handlers
<1>3. user' = [user EXCEPT !.password = request[r].password, !.failed = user.failed, !.locked = user.locked]
  BY <1>1, <1>2 DEF Replace, SetBy, Change, IInv, TypeOK
<1>4. /\ UserOK' /\ user'.exists
      /\ user'.failed = user.failed /\ user'.locked = user.locked
  BY <1>1, <1>2, <1>3, Written DEF IInv
<1>5. Move(r, Idle) /\ UNCHANGED interrupted /\ ~Go(r, "lock")
  BY DEF Replace, Go
<1>6. TokensOK'
  BY DEF Replace, IInv, TypeOK, TokensOK, tokens
<1>7. LockedAtLimit'
  <2>1. \A q \in Requests : q # r => request'[q] = request[q]
    BY <1>5, RequestMove, IdleOK DEF IInv
  <2> QED
    BY <1>4, <1>5, <2>1, LockMove DEF IInv
<1> QED
  BY <1>4, <1>5, <1>6, <1>7, UserMove

LEMMA SetInv ==
  ASSUME IInv, NEW r \in Requests, Set(r)
  PROVE  IInv'
<1>1. user.exists
  BY Exists DEF Set, Go
<1>2. /\ user.failed \in Nat /\ user.locked \in BOOLEAN /\ user.password \in Passwords \cup {None}
      /\ request[r].password \in Passwords \cup {None}
  BY DEF IInv, TypeOK, Handlers
<1>3. user' = [user EXCEPT !.password = request[r].password, !.failed = user.failed, !.locked = user.locked]
  BY <1>1, <1>2 DEF Set, SetBy, Change, IInv, TypeOK
<1>4. /\ UserOK' /\ user'.exists
      /\ user'.failed = user.failed /\ user'.locked = user.locked
  BY <1>1, <1>2, <1>3, Written DEF IInv
<1>5. Move(r, Idle) /\ UNCHANGED interrupted /\ ~Go(r, "lock")
  BY DEF Set, Go
<1>6. TokensOK'
  BY DEF Set, IInv, TypeOK, TokensOK, tokens
<1>7. LockedAtLimit'
  <2>1. \A q \in Requests : q # r => request'[q] = request[q]
    BY <1>5, RequestMove, IdleOK DEF IInv
  <2> QED
    BY <1>4, <1>5, <2>1, LockMove DEF IInv
<1> QED
  BY <1>4, <1>5, <1>6, <1>7, UserMove

-----------------------------------------------------------------------------

LEMMA ExpireInv ==
  ASSUME IInv, Expire
  PROVE  IInv'
<1>1. UNCHANGED <<user, issued, request, interrupted>> /\ codes' \subseteq codes /\ links' \subseteq links
  BY DEF Expire
<1>2. TypeOK'
  BY <1>1 DEF IInv, TypeOK
<1>3. OnlyRegistering' /\ LockedAtLimit' /\ SettersAreRight'
  BY <1>1 DEF IInv, OnlyRegistering, LockedAtLimit, SettersAreRight, Go
<1> QED
  BY <1>2, <1>3 DEF IInv

LEMMA RestartInv ==
  ASSUME IInv, Restart
  PROVE  IInv'
<1>1. /\ UNCHANGED <<user, tokens>> /\ \A q \in Requests : request'[q] = Idle
      /\ request' \in [Requests -> Handlers]
  BY IdleOK DEF Restart
<1>2. /\ interrupted' \in BOOLEAN
      /\ interrupted \/ (\E r \in Requests : Go(r, "lock")) => interrupted'
  BY DEF Restart, IInv, TypeOK
<1>3. TypeOK'
  BY <1>1, <1>2 DEF IInv, TypeOK, tokens
<1>4. SettersAreRight'
  BY <1>1, IdleOK DEF SettersAreRight
<1>5. LockedAtLimit'
  BY <1>1, <1>2 DEF IInv, LockedAtLimit
<1>6. OnlyRegistering'
  BY <1>1 DEF IInv, OnlyRegistering, tokens, Idle, About, At
<1> QED
  BY <1>3, <1>4, <1>5, <1>6 DEF IInv

LEMMA StepInv == IInv /\ [Next]_vars => IInv'
<1> SUFFICES ASSUME IInv, [Next]_vars PROVE IInv'
  OBVIOUS
<1>1. ASSUME NEW r \in Requests, Handle(r) PROVE IInv'
  BY <1>1, RegisterInv, CreateInv, LoginInv, CountInv, LockInv, ZeroInv, RequestUnlockInv, DropCodesInv,
     CreateCodeInv, MailCodeInv, WithdrawCodesInv, VerifyUnlockInv, FindCodeInv, AttemptInv, UnlockInv,
     RequestResetInv, DropLinksInv, CreateLinkInv, MailLinkInv, WithdrawLinkInv, ResetPasswordInv,
     ReplaceInv, SetupPasswordInv, SetInv DEF Handle
<1>2. CASE UNCHANGED vars
  BY <1>2 DEF vars, tokens, IInv, TypeOK, OnlyRegistering, LockedAtLimit, SettersAreRight, HandlerOK, Go
<1> QED
  BY <1>1, <1>2, ExpireInv, RestartInv DEF Next

\* The inductive invariant of an account holds whatever handlers, codes and links there are.
THEOREM AccountInvariant == Spec => []IInv
<1> QED
  BY InitInv, StepInv, PTL DEF Spec

\* An account at its limit of wrong passwords is locked or about to be (auth.service.ts:529).
THEOREM LockedAtLimitHolds == Spec => []LockedAtLimit
<1>1. IInv => LockedAtLimit
  BY DEF IInv
<1> QED
  BY <1>1, AccountInvariant, PTL

-----------------------------------------------------------------------------
(* Passwords.                                                              *)

\* What a step leaves of the password and of the links that have set one.
LEMMA LinksQuiet ==
  ASSUME IInv, LinksInv, user'.password = user.password, links' \subseteq links,
         UNCHANGED <<used, overtaken>>, issued'["link"] = issued["link"],
         \A q \in Requests : \/ request'[q] = request[q]
                             \/ request'[q].step \notin Setting
                             \/ /\ request'[q].seen = user.password
                                /\ request'[q].step = "replace" => request'[q].number \in links
  PROVE  LinksInv'
<1>1. ASSUME NEW q \in Requests
      PROVE  /\ request'[q].step = "replace" => request'[q].number \in 1..issued["link"]
             /\ q \notin overtaken =>
                  /\ request'[q].step \in Setting => request'[q].seen = user.password
                  /\ request'[q].step = "replace" => request'[q].number \notin used
  BY <1>1 DEF LinksInv, Go, Setting
<1> QED
  BY <1>1 DEF LinksInv, Go

\* The handlers that do not set a password go on to other steps, or to one with what they read.
LEMMA SetterMove ==
  ASSUME IInv, NEW r \in Requests, Handle(r), ~Replace(r), ~Set(r)
  PROVE  \A q \in Requests : \/ request'[q] = request[q]
                             \/ request'[q].step \notin Setting
                             \/ /\ request'[q].seen = user.password
                                /\ request'[q].step = "replace" => request'[q].number \in links
<1> DEFINE Right(next) == \/ next.step \notin Setting
                          \/ /\ next.seen = user.password
                             /\ next.step = "replace" => next.number \in links
<1>1. /\ \A step : step \notin Setting => Right(About(step))
      /\ \A step, n, attempts : step \notin Setting => Right(Holding(step, n, attempts))
      /\ Right(Idle)
      /\ \A p : Right(At("create", p, None, Wrong, 0))
      /\ \A p : \A n \in links : Right(At("replace", p, user.password, n, 0))
      /\ \A p : Right(At("set", p, user.password, Wrong, 0))
  BY DEF About, Holding, At, Idle, Setting
<1> HIDE DEF Right
<1>2. \E next : Move(r, next) /\ Right(next)
  <2>1. CASE \/ Create(r) \/ Lock(r) \/ Zero(r) \/ WithdrawCodes(r) \/ Attempt(r) \/ Unlock(r)
             \/ WithdrawLink(r)
    BY <1>1, <2>1 DEF Create, Lock, Zero, WithdrawCodes, Attempt, Unlock, WithdrawLink
  <2>2. CASE Register(r)
    BY <1>1, <2>2 DEF Register
  <2>3. CASE Login(r) \/ Count(r)
    BY <1>1, <2>3 DEF Login, Count, Setting
  <2>4. CASE \/ RequestUnlock(r) \/ DropCodes(r) \/ CreateCode(r) \/ MailCode(r)
             \/ RequestReset(r) \/ DropLinks(r)
    BY <1>1, <2>4 DEF RequestUnlock, DropCodes, CreateCode, MailCode, RequestReset, DropLinks, Setting
  <2>5. CASE VerifyUnlock(r) \/ CreateLink(r) \/ MailLink(r)
    BY <1>1, <2>5 DEF VerifyUnlock, CreateLink, MailLink, Setting
  <2>6. CASE FindCode(r)
    BY <1>1, <2>6 DEF FindCode, Setting
  <2>7. CASE ResetPassword(r)
    BY <1>1, <2>7 DEF ResetPassword
  <2>8. CASE SetupPassword(r)
    BY <1>1, <2>8 DEF SetupPassword
  <2> QED
    BY <2>1, <2>2, <2>3, <2>4, <2>5, <2>6, <2>7, <2>8 DEF Handle
<1>3. PICK next : Move(r, next) /\ Right(next)
  BY <1>2
<1>4. \A q \in Requests : request'[q] = IF q = r THEN next ELSE request[q]
  BY <1>3 DEF Move, IInv, TypeOK
<1> QED
  BY <1>3, <1>4 DEF Right

\* Every step but two leaves a password alone.
LEMMA PasswordKept ==
  ASSUME IInv, user.exists, NEW r \in Requests, Handle(r), ~Replace(r), ~Set(r)
  PROVE  user'.password = user.password
BY DEF Handle, IInv, TypeOK, Keep, Change, User, Register, Create, Login, Count, Lock, Zero,
   RequestUnlock, DropCodes, CreateCode, MailCode, WithdrawCodes, VerifyUnlock, FindCode, Attempt,
   Unlock, RequestReset, DropLinks, CreateLink, MailLink, WithdrawLink, ResetPassword, SetupPassword

\* Without an account nobody is about to set its password.
LEMMA NoSetter ==
  ASSUME IInv, ~user.exists, NEW r \in Requests, Handle(r)
  PROVE  \A q \in Requests : request'[q].step \notin Setting
<1>1. /\ user = NoUser /\ links = {} /\ request[r].step \in {"idle", "create"}
      /\ \A q \in Requests : request[q].step \notin Setting
  BY DEF IInv, OnlyRegistering, Setting
<1>2. Register(r) \/ Create(r)
  BY <1>1 DEF Handle, Login, Count, Lock, Zero, RequestUnlock, DropCodes, CreateCode, MailCode,
     WithdrawCodes, VerifyUnlock, FindCode, Attempt, Unlock, RequestReset, DropLinks, CreateLink,
     MailLink, WithdrawLink, ResetPassword, Replace, SetupPassword, Set, Go, NoUser
<1>3. PICK next : Move(r, next) /\ next.step \in {"idle", "create"}
  <2>1. Idle.step = "idle" /\ \A p : At("create", p, None, Wrong, 0).step = "create"
    BY DEF At, Idle, About
  <2>2. Move(r, Idle) \/ \E p : Move(r, At("create", p, None, Wrong, 0))
    BY <1>2 DEF Register, Create
  <2> QED
    BY <2>1, <2>2
<1> QED
  BY <1>1, <1>3 DEF Move, Setting, IInv, TypeOK

\* A step that ends its handler and leaves what the others are about to write.
LEMMA OthersStay ==
  ASSUME IInv, NEW r \in Requests, Move(r, Idle)
  PROVE  /\ request'[r] = Idle /\ request'[r].step \notin Setting
         /\ \A q \in Requests : q # r => request'[q] = request[q]
<1>1. Idle.step \notin Setting
  BY DEF Idle, About, At, Setting
<1> QED
  BY <1>1, RequestMove, IdleOK DEF IInv

\* The password is set: whoever else is about to set one is overtaken.
LEMMA SetStep ==
  ASSUME IInv, LinksInv, NEW r \in Requests, Replace(r) \/ Set(r)
  PROVE  LinksInv'
<1>1. /\ Move(r, Idle) /\ UNCHANGED issued /\ links' \subseteq links
      /\ overtaken' = {q \in Requests \ {r} : request[q].step \in Setting}
  BY DEF Replace, Set, SetBy, tokens
<1>2. ASSUME NEW q \in Requests, q \notin overtaken' PROVE request'[q].step \notin Setting
  BY <1>1, <1>2, OthersStay
<1>3. used' \cup links' \subseteq 1..issued["link"] /\ used' \cap links' = {}
  <2>1. CASE Set(r)
    BY <2>1 DEF Set, tokens, LinksInv
  <2>2. CASE Replace(r)
    <3>1. request[r].number \in 1..issued["link"]
      BY <2>2 DEF LinksInv, Replace
    <3> QED
      BY <2>2, <3>1 DEF Replace, LinksInv
  <2> QED
    BY <2>1, <2>2
<1>4. overtaken' \subseteq Requests
  BY <1>1
<1>5. ASSUME NEW q \in Requests, request'[q].step = "replace"
      PROVE  request'[q].number \in 1..issued["link"]
  <2>1. request'[q] = request[q]
    BY <1>1, <1>5, OthersStay DEF Setting
  <2> QED
    BY <1>5, <2>1 DEF LinksInv, Go
<1>6. 1..issued'["link"] = 1..issued["link"]
  BY <1>1
<1> QED
  BY <1>2, <1>3, <1>4, <1>5, <1>6 DEF LinksInv, Go, Setting

\* A new link is one nobody has used.
LEMMA CreateLinkLinks ==
  ASSUME IInv, LinksInv, NEW r \in Requests, CreateLink(r)
  PROVE  LinksInv'
<1>1. /\ issued' = [issued EXCEPT !["link"] = @ + 1] /\ issued["link"] \in Nat
      /\ links' = links \cup {issued'["link"]} /\ UNCHANGED <<user, used, overtaken>>
  BY AccountAssumption DEF CreateLink, Issue, IInv, TypeOK, Kinds
<1>2. /\ issued'["link"] = issued["link"] + 1
      /\ 1..issued["link"] \subseteq 1..issued'["link"] /\ issued'["link"] \in 1..issued'["link"]
      /\ issued'["link"] \notin 1..issued["link"]
  BY <1>1 DEF IInv, TypeOK, Kinds
<1>3. used \cup links' \subseteq 1..issued'["link"] /\ used \cap links' = {}
  BY <1>1, <1>2 DEF LinksInv
<1>4. /\ request'[r].step \notin Setting
      /\ \A q \in Requests : q # r => request'[q] = request[q]
  BY DEF CreateLink, Move, IInv, TypeOK, Holding, At, Setting
<1>5. \A q \in Requests : request'[q].step = "replace" => request'[q].number \in 1..issued'["link"]
  BY <1>2, <1>4 DEF LinksInv, Go, Setting
<1>6. \A q \in Requests \ overtaken :
        /\ request'[q].step \in Setting => request'[q].seen = user.password
        /\ request'[q].step = "replace" => request'[q].number \notin used
  BY <1>4 DEF LinksInv, Go, Setting
<1> QED
  BY <1>1, <1>3, <1>5, <1>6 DEF LinksInv, Go

\* Any other step adds no link and uses none.
LEMMA LinksOther ==
  ASSUME IInv, NEW r \in Requests, Handle(r), ~CreateLink(r), ~Replace(r), ~Set(r)
  PROVE  /\ UNCHANGED <<used, overtaken>> /\ links' \subseteq links /\ issued'["link"] = issued["link"]
<1>1. CASE CreateCode(r)
  <2>1. UNCHANGED <<links, history>> /\ issued' = [issued EXCEPT !["code"] = @ + 1]
    BY <1>1 DEF CreateCode, Issue
  <2>2. "link" \in DOMAIN issued
    BY DEF IInv, TypeOK, Kinds
  <2> QED
    BY <2>1, <2>2
<1>2. CASE ~CreateCode(r)
  BY <1>2 DEF Handle, Register, Create, Login, Count, Lock, Zero, RequestUnlock, DropCodes,
     MailCode, WithdrawCodes, VerifyUnlock, FindCode, Attempt, Unlock, RequestReset, DropLinks, MailLink,
     WithdrawLink, ResetPassword, SetupPassword, Keep, tokens
<1> QED
  BY <1>1, <1>2

LEMMA LinksInvKept == IInv /\ LinksInv /\ [Next]_vars => LinksInv'
<1> SUFFICES ASSUME IInv, LinksInv, [Next]_vars PROVE LinksInv'
  OBVIOUS
<1>1. ASSUME NEW r \in Requests, Handle(r), ~CreateLink(r), ~Replace(r), ~Set(r) PROVE LinksInv'
  <2>1. /\ UNCHANGED <<used, overtaken>> /\ links' \subseteq links /\ issued'["link"] = issued["link"]
    BY <1>1, LinksOther
  <2>2. \A q \in Requests : \/ request'[q] = request[q]
                             \/ request'[q].step \notin Setting
                             \/ /\ request'[q].seen = user.password
                                /\ request'[q].step = "replace" => request'[q].number \in links
    BY <1>1, SetterMove
  <2>3. CASE user.exists
    <3>1. user'.password = user.password
      BY <1>1, <2>3, PasswordKept
    <3> QED
      BY <2>1, <2>2, <3>1, LinksQuiet
  <2>4. CASE ~user.exists
    <3>1. \A q \in Requests : request'[q].step \notin Setting
      BY <1>1, <2>4, NoSetter
    <3> QED
      BY <2>1, <3>1 DEF LinksInv, Go, Setting
  <2> QED
    BY <2>3, <2>4
<1>2. CASE Expire
  <2>1. /\ UNCHANGED <<user, issued, request, used, overtaken>> /\ links' \subseteq links
    BY <1>2 DEF Expire
  <2> QED
    BY <2>1, LinksQuiet
<1>3. CASE Restart
  <2>1. /\ UNCHANGED <<user, links, issued, used>> /\ overtaken' = {}
        /\ \A q \in Requests : request'[q] = Idle
    BY <1>3 DEF Restart, tokens
  <2>2. Idle.step \notin Setting
    BY DEF Idle, About, At, Setting
  <2> QED
    BY <2>1, <2>2 DEF LinksInv, Go, Setting
<1>4. CASE UNCHANGED vars
  BY <1>4 DEF vars, tokens, LinksInv, Go
<1> QED
  BY <1>1, <1>2, <1>3, <1>4, CreateLinkLinks, SetStep DEF Next

\* The step of a password that goes.
LEMMA PasswordStep ==
  ASSUME IInv, LinksInv, Next, user.password # None, user'.password # user.password
  PROVE  \E r \in Requests :
           /\ request'[r] = Idle
           /\ \/ /\ Go(r, "replace") /\ request[r].seen = user.password
                 /\ request[r].number \notin used
              \/ request[r].step \in Setting /\ r \in overtaken
<1>1. PICK r \in Requests : Handle(r)
  BY DEF Next, Expire, Restart
<1>2. user.exists
  BY DEF IInv, OnlyRegistering, NoUser
<1>3. Replace(r) \/ Set(r)
  BY <1>1, <1>2, PasswordKept
<1>4. request'[r] = Idle /\ request[r].step \in Setting /\ (Go(r, "replace") \/ Go(r, "set"))
  BY <1>3, OthersStay DEF Replace, Set, Go, Setting
<1>5. CASE r \in overtaken
  BY <1>4, <1>5
<1>6. CASE r \notin overtaken
  <2>1. request[r].seen = user.password /\ (Go(r, "replace") => request[r].number \notin used)
    BY <1>4, <1>6 DEF LinksInv
  <2>2. ~Go(r, "set")
    BY <2>1 DEF IInv, SettersAreRight, HandlerOK, Go
  <2> QED
    BY <1>4, <2>1, <2>2
<1> QED
  BY <1>5, <1>6

\* A password goes only for another one, brought by a link that has set none before and by a
\* handler that read the password that goes (schema.prisma:126, auth.service.ts:450, 486): never
\* for one of setupPassword or of a registration; a handler that another one setting a password
\* overtook is the exception.
THEOREM PasswordReplacedHolds == Spec => PasswordReplaced
<1>1. IInv /\ LinksInv /\ [Next]_vars =>
        [user.password # None /\ user'.password # user.password =>
           \E r \in Requests :
             /\ request'[r] = Idle
             /\ \/ /\ Go(r, "replace") /\ request[r].seen = user.password
                   /\ request[r].number \notin used
                \/ request[r].step \in Setting /\ r \in overtaken]_vars
  BY PasswordStep DEF vars
<1>2. Init => LinksInv
  <2> SUFFICES ASSUME Init PROVE LinksInv
    OBVIOUS
  <2>1. Idle.step \notin Setting
    BY DEF Idle, About, At, Setting
  <2> QED
    BY <2>1 DEF Init, LinksInv, Go, Setting
<1> QED
  BY <1>1, <1>2, LinksInvKept, AccountInvariant, PTL DEF Spec, PasswordReplaced

-----------------------------------------------------------------------------
(* Codes and links that are valid together.                                *)

\* The handlers about to add a code or a link are finitely many, and no more than there are.
LEMMA AddingBounded ==
  ASSUME NEW step
  PROVE  /\ IsFiniteSet(Adding(step)) /\ IsFiniteSet(Requests)
         /\ Cardinality(Adding(step)) \in Nat /\ Cardinality(Requests) \in Nat
         /\ Cardinality(Adding(step)) <= Cardinality(Requests)
<1>1. IsFiniteSet(Requests) /\ Adding(step) \subseteq Requests
  BY AccountAssumption DEF Adding
<1> QED
  BY <1>1, FS_Subset, FS_CardinalityType

\* Nothing valid: every handler may be about to add.
LEMMA RoomWhenEmpty ==
  ASSUME NEW step
  PROVE  RoomToAdd({}, step)
BY AddingBounded, FS_EmptySet DEF RoomToAdd

\* Fewer valid and fewer about to add.
LEMMA RoomShrinks ==
  ASSUME NEW valid, NEW fewer, NEW step, RoomToAdd(valid, step), IsFiniteSet(fewer),
         Cardinality(fewer) <= Cardinality(valid), Adding(step)' \subseteq Adding(step)
  PROVE  IsFiniteSet(fewer) /\ Cardinality(fewer) + Cardinality(Adding(step)') <= Cardinality(Requests)
<1>1. /\ IsFiniteSet(Adding(step)') /\ Cardinality(Adding(step)') <= Cardinality(Adding(step))
      /\ Cardinality(Adding(step)') \in Nat /\ Cardinality(Adding(step)) \in Nat
  BY AddingBounded, FS_Subset, FS_CardinalityType
<1>2. Cardinality(fewer) \in Nat /\ Cardinality(valid) \in Nat /\ Cardinality(Requests) \in Nat
  BY AddingBounded, FS_CardinalityType DEF RoomToAdd
<1> QED
  BY <1>1, <1>2 DEF RoomToAdd

LEMMA OneMore ==
  ASSUME NEW S, NEW x, IsFiniteSet(S)
  PROVE  /\ IsFiniteSet(S \cup {x}) /\ Cardinality(S) \in Nat /\ Cardinality(S \cup {x}) \in Nat
         /\ Cardinality(S \cup {x}) <= Cardinality(S) + 1
<1>1. IsFiniteSet(S \cup {x}) /\ Cardinality(S \cup {x}) \in {Cardinality(S), Cardinality(S) + 1}
  BY FS_AddElement
<1>2. Cardinality(S) \in Nat
  BY FS_CardinalityType
<1> QED
  BY <1>1, <1>2

\* The handler that adds one is no longer about to.
LEMMA RoomIsTaken ==
  ASSUME NEW valid, NEW c, NEW step, NEW r \in Requests, RoomToAdd(valid, step), Go(r, step),
         Adding(step)' \subseteq Adding(step) \ {r}
  PROVE  /\ IsFiniteSet(valid \cup {c})
         /\ Cardinality(valid \cup {c}) + Cardinality(Adding(step)') <= Cardinality(Requests)
<1>1. r \in Adding(step)
  BY DEF Adding
<1>2. /\ IsFiniteSet(Adding(step) \ {r})
      /\ Cardinality(Adding(step) \ {r}) = Cardinality(Adding(step)) - 1
  BY <1>1, AddingBounded, FS_RemoveElement
<1>3. /\ Cardinality(Adding(step)') \in Nat
      /\ Cardinality(Adding(step)') <= Cardinality(Adding(step)) - 1
  BY <1>2, FS_Subset, FS_CardinalityType
<1>4. /\ IsFiniteSet(valid \cup {c}) /\ Cardinality(valid \cup {c}) \in Nat /\ Cardinality(valid) \in Nat
      /\ Cardinality(valid \cup {c}) <= Cardinality(valid) + 1
  BY OneMore DEF RoomToAdd
<1>5. Cardinality(Adding(step)) \in Nat /\ Cardinality(Requests) \in Nat
  BY AddingBounded
<1> QED
  BY <1>3, <1>4, <1>5 DEF RoomToAdd

\* Only the handler that drops the old ones goes on to add.
LEMMA AddingMove ==
  ASSUME TypeOK, NEW r \in Requests, NEW next, Move(r, next), NEW step, next.step # step
  PROVE  Adding(step)' \subseteq Adding(step) \ {r}
BY DEF TypeOK, Move, Adding, Go

\* Where each step leaves its handler: about to add only after dropping the old ones.
LEMMA Landing ==
  ASSUME NEW r \in Requests, Handle(r)
  PROVE  \E next : /\ Move(r, next)
                   /\ next.step = "createCode" => DropCodes(r)
                   /\ next.step = "createLink" => DropLinks(r)
<1> DEFINE Lands == \E next : /\ Move(r, next)
                              /\ next.step = "createCode" => DropCodes(r)
                              /\ next.step = "createLink" => DropLinks(r)
<1>1. /\ \A step : About(step).step = step
      /\ \A step, n, attempts : Holding(step, n, attempts).step = step
      /\ \A step, p, seen, n : At(step, p, seen, n, 0).step = step
      /\ Idle.step = "idle"
  BY DEF About, Holding, At, Idle
<1>2. CASE DropCodes(r) \/ DropLinks(r)
  BY <1>1, <1>2 DEF DropCodes, DropLinks
<1>3. CASE \/ Create(r) \/ Lock(r) \/ Zero(r) \/ WithdrawCodes(r) \/ Attempt(r) \/ Unlock(r)
           \/ WithdrawLink(r) \/ Replace(r) \/ Set(r)
  <2>1. Move(r, Idle)
    BY <1>3 DEF Create, Lock, Zero, WithdrawCodes, Attempt, Unlock, WithdrawLink, Replace, Set
  <2> QED
    BY <1>1, <2>1
<1>4. CASE Register(r)
  <2>1. PICK p : Move(r, At("create", p, None, Wrong, 0))
    BY <1>4 DEF Register
  <2> QED
    BY <1>1, <2>1
<1>5. CASE Login(r)
  BY <1>1, <1>5 DEF Login
<1>6. CASE Count(r)
  BY <1>1, <1>6 DEF Count
<1>7. CASE RequestUnlock(r) \/ RequestReset(r)
  BY <1>1, <1>7 DEF RequestUnlock, RequestReset
<1>8. CASE CreateCode(r) \/ MailCode(r)
  BY <1>1, <1>8 DEF CreateCode, MailCode
<1>9. CASE CreateLink(r) \/ MailLink(r)
  BY <1>1, <1>9 DEF CreateLink, MailLink
<1>10. CASE VerifyUnlock(r)
  BY <1>1, <1>10 DEF VerifyUnlock
<1>11. CASE FindCode(r)
  BY <1>1, <1>11 DEF FindCode
<1>12. CASE ResetPassword(r) \/ SetupPassword(r)
  <2>1. \E step \in {"replace", "set"} : \E p, seen, n : Move(r, At(step, p, seen, n, 0))
    BY <1>12 DEF ResetPassword, SetupPassword
  <2> QED
    BY <1>1, <2>1
<1> QED
  BY <1>2, <1>3, <1>4, <1>5, <1>6, <1>7, <1>8, <1>9, <1>10, <1>11, <1>12 DEF Handle

LEMMA Adders ==
  ASSUME TypeOK, NEW r \in Requests, Handle(r)
  PROVE  /\ ~DropCodes(r) => Adding("createCode")' \subseteq Adding("createCode") \ {r}
         /\ ~DropLinks(r) => Adding("createLink")' \subseteq Adding("createLink") \ {r}
BY Landing, AddingMove

\* An attempt puts back at most one code, for one it took.
LEMMA AttemptRoom ==
  ASSUME NEW r \in Requests, Attempt(r), IsFiniteSet(codes)
  PROVE  IsFiniteSet(codes') /\ Cardinality(codes') <= Cardinality(codes)
<1> DEFINE old == {c \in codes : c.number = request[r].number}
           row == [number |-> request[r].number, attempts |-> request[r].attempts]
           new == {c \in {row} : old # {} /\ c.attempts < MaxAttempts}
<1>1. codes' = (codes \ old) \cup new
  BY DEF Attempt
<1>2. new = {} \/ (new = {row} /\ old # {})
  BY Zenon
<1>3. old \subseteq codes
  OBVIOUS
<1> HIDE DEF old, row, new
<1>4. CASE new = {}
  <2>1. codes' \subseteq codes
    BY <1>1, <1>4
  <2> QED
    BY <2>1, FS_Subset
<1>5. CASE new = {row} /\ old # {}
  <2>1. PICK c \in old : TRUE
    BY <1>5
  <2>2. /\ IsFiniteSet(codes \ {c}) /\ Cardinality(codes \ {c}) = Cardinality(codes) - 1
        /\ Cardinality(codes) \in Nat
    BY <2>1, <1>3, FS_RemoveElement, FS_CardinalityType
  <2>3. /\ IsFiniteSet(codes \ old) /\ Cardinality(codes \ old) <= Cardinality(codes) - 1
        /\ Cardinality(codes \ old) \in Nat
    <3>1. codes \ old \subseteq codes \ {c}
      BY <2>1
    <3> QED
      BY <3>1, <2>2, FS_Subset, FS_CardinalityType
  <2>4. codes' = (codes \ old) \cup {row}
    BY <1>1, <1>5
  <2>5. IsFiniteSet(codes') /\ Cardinality(codes') <= Cardinality(codes \ old) + 1 /\ Cardinality(codes') \in Nat
    BY <2>3, <2>4, OneMore
  <2> QED
    BY <2>2, <2>3, <2>5
<1> QED
  BY <1>2, <1>4, <1>5

\* What a step does to the codes, and to the links.
LEMMA CodesStep ==
  ASSUME NEW r \in Requests, Handle(r), ~DropCodes(r), ~CreateCode(r), ~Attempt(r)
  PROVE  codes' \subseteq codes
BY DEF Handle, Register, Create, Login, Count, Lock, Zero, RequestUnlock, MailCode, WithdrawCodes,
   VerifyUnlock, FindCode, Unlock, RequestReset, DropLinks, CreateLink, MailLink, WithdrawLink,
   ResetPassword, Replace, SetupPassword, Set, Keep, tokens

LEMMA LinksStep ==
  ASSUME NEW r \in Requests, Handle(r), ~DropLinks(r), ~CreateLink(r)
  PROVE  links' \subseteq links
BY DEF Handle, Register, Create, Login, Count, Lock, Zero, RequestUnlock, DropCodes, CreateCode,
   MailCode, WithdrawCodes, VerifyUnlock, FindCode, Attempt, Unlock, RequestReset, MailLink,
   WithdrawLink, ResetPassword, Replace, SetupPassword, Set, Keep, tokens

LEMMA CodesInvStep ==
  ASSUME TypeOK, RoomToAdd(codes, "createCode"), Next
  PROVE  RoomToAdd(codes, "createCode")'
<1>1. ASSUME NEW r \in Requests, Handle(r) PROVE RoomToAdd(codes, "createCode")'
  <2>1. CASE DropCodes(r)
    <3>1. codes' = {}
      BY <2>1 DEF DropCodes
    <3>2. /\ Cardinality(Adding("createCode")') <= Cardinality(Requests)
          /\ Cardinality(Adding("createCode")') \in Nat
      <4>1. IsFiniteSet(Requests) /\ Adding("createCode")' \subseteq Requests
        BY AccountAssumption DEF Adding
      <4> QED
        BY <4>1, FS_Subset, FS_CardinalityType
    <3> QED
      BY <3>1, <3>2, AddingBounded, FS_EmptySet DEF RoomToAdd
  <2>2. CASE CreateCode(r)
    <3>1. ~DropCodes(r) /\ Go(r, "createCode")
      BY <2>2 DEF DropCodes, CreateCode, Go
    <3>2. PICK c : codes' = codes \cup {c}
      BY <2>2 DEF CreateCode
    <3> QED
      BY <1>1, <3>1, <3>2, Adders, RoomIsTaken DEF RoomToAdd
  <2>3. CASE Attempt(r)
    <3>1. ~DropCodes(r)
      BY <2>3 DEF DropCodes, Attempt, Go
    <3> QED
      BY <1>1, <2>3, <3>1, AttemptRoom, Adders, RoomShrinks DEF RoomToAdd
  <2>4. CASE ~DropCodes(r) /\ ~CreateCode(r) /\ ~Attempt(r)
    <3>1. IsFiniteSet(codes') /\ Cardinality(codes') <= Cardinality(codes)
      BY <1>1, <2>4, CodesStep, FS_Subset DEF RoomToAdd
    <3> QED
      BY <1>1, <2>4, <3>1, Adders, RoomShrinks DEF RoomToAdd
  <2> QED
    BY <2>1, <2>2, <2>3, <2>4
<1>2. CASE Expire \/ Restart
  <2>1. codes' \subseteq codes /\ Adding("createCode")' \subseteq Adding("createCode")
    BY <1>2 DEF Expire, Restart, Adding, Go, Idle, About, At, tokens
  <2>2. IsFiniteSet(codes') /\ Cardinality(codes') <= Cardinality(codes)
    BY <2>1, FS_Subset DEF RoomToAdd
  <2> QED
    BY <2>1, <2>2, RoomShrinks DEF RoomToAdd
<1> QED
  BY <1>1, <1>2 DEF Next

LEMMA LinksInvStep ==
  ASSUME TypeOK, RoomToAdd(links, "createLink"), Next
  PROVE  RoomToAdd(links, "createLink")'
<1>1. ASSUME NEW r \in Requests, Handle(r) PROVE RoomToAdd(links, "createLink")'
  <2>1. CASE DropLinks(r)
    <3>1. links' = {}
      BY <2>1 DEF DropLinks
    <3>2. /\ Cardinality(Adding("createLink")') <= Cardinality(Requests)
          /\ Cardinality(Adding("createLink")') \in Nat
      <4>1. IsFiniteSet(Requests) /\ Adding("createLink")' \subseteq Requests
        BY AccountAssumption DEF Adding
      <4> QED
        BY <4>1, FS_Subset, FS_CardinalityType
    <3> QED
      BY <3>1, <3>2, AddingBounded, FS_EmptySet DEF RoomToAdd
  <2>2. CASE CreateLink(r)
    <3>1. ~DropLinks(r) /\ Go(r, "createLink")
      BY <2>2 DEF DropLinks, CreateLink, Go
    <3>2. PICK n : links' = links \cup {n}
      BY <2>2 DEF CreateLink
    <3> QED
      BY <1>1, <3>1, <3>2, Adders, RoomIsTaken DEF RoomToAdd
  <2>3. CASE ~DropLinks(r) /\ ~CreateLink(r)
    <3>1. IsFiniteSet(links') /\ Cardinality(links') <= Cardinality(links)
      BY <1>1, <2>3, LinksStep, FS_Subset DEF RoomToAdd
    <3> QED
      BY <1>1, <2>3, <3>1, Adders, RoomShrinks DEF RoomToAdd
  <2> QED
    BY <2>1, <2>2, <2>3
<1>2. CASE Expire \/ Restart
  <2>1. links' \subseteq links /\ Adding("createLink")' \subseteq Adding("createLink")
    BY <1>2 DEF Expire, Restart, Adding, Go, Idle, About, At, tokens
  <2>2. IsFiniteSet(links') /\ Cardinality(links') <= Cardinality(links)
    BY <2>1, FS_Subset DEF RoomToAdd
  <2> QED
    BY <2>1, <2>2, RoomShrinks DEF RoomToAdd
<1> QED
  BY <1>1, <1>2 DEF Next

LEMMA TokensStep == IInv /\ TokensInv /\ [Next]_vars => TokensInv'
<1> SUFFICES ASSUME IInv, TokensInv, [Next]_vars PROVE TokensInv'
  OBVIOUS
<1>1. CASE Next
  BY <1>1, CodesInvStep, LinksInvStep DEF TokensInv, IInv
<1>2. CASE UNCHANGED vars
  BY <1>2 DEF TokensInv, RoomToAdd, Adding, Go, vars, tokens
<1> QED
  BY <1>1, <1>2

\* Each handler that mails a code or a link withdrew those before it, in a statement of its own:
\* no more are valid together than there are handlers (auth.service.ts:308, 409).
THEOREM OneValidPerHandlerHolds == Spec => []OneValidPerHandler
<1>1. Init => TokensInv
  <2> SUFFICES ASSUME Init PROVE TokensInv
    OBVIOUS
  <2> QED
    BY RoomWhenEmpty DEF Init, TokensInv
<1>2. TokensInv => OneValidPerHandler
  <2> SUFFICES ASSUME TokensInv PROVE OneValidPerHandler
    OBVIOUS
  <2>1. \A valid, step : RoomToAdd(valid, step) => Cardinality(valid) <= Cardinality(Requests)
    BY AddingBounded, FS_CardinalityType DEF RoomToAdd
  <2> QED
    BY <2>1 DEF TokensInv, OneValidPerHandler
<1> QED
  BY <1>1, <1>2, TokensStep, AccountInvariant, PTL DEF Spec
=============================================================================
