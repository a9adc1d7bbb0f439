------------------------ MODULE CollaboratorsProofs ------------------------
(***************************************************************************)
(* The inductive invariant of Collaborators and what follows from it, for  *)
(* every number of guests, handlers and invitations.                       *)
(***************************************************************************)
EXTENDS Collaborators, TLAPS

\* A handler's phase tells which row it is.
LEMMA RowsByPhase ==
  ASSUME NEW h \in HandlerRows
  PROVE  /\ h.phase \in WritingPhases =>
              /\ h \in WritingRows /\ h.user \in Guests /\ h.overtaken \in BOOLEAN
              /\ h.seen \in SeenBy(h.phase)
              /\ h = Writing(h.phase, h.user, h.seen, h.overtaken)
         /\ h.phase = "filling" =>
              /\ h.user \in Users /\ h.shows \in BOOLEAN /\ h.overtaken \in BOOLEAN
              /\ h = Filling(h.user, h.shows, h.overtaken)
         /\ h.phase = "deleting" =>
              /\ h.notify \in SUBSET Guests /\ h.overtaken \in BOOLEAN
              /\ h = Deleting(h.notify, h.overtaken)
         /\ h.phase = "loading" => h.user \in Users
         /\ h.phase = "clearing" => h.todo \in SUBSET Users /\ h = Clearing(h.todo)
         /\ h.phase \in WritingPhases \cup {"idle", "loading", "filling", "deleting", "clearing"}
<1>1. CASE h = Idle
  BY <1>1 DEF Idle, WritingPhases
<1>2. CASE h \in LoadingRows
  BY <1>2 DEF LoadingRows, Loading, WritingPhases
<1>3. CASE h \in FillingRows
  BY <1>3 DEF FillingRows, Filling, WritingPhases
<1>4. CASE h \in WritingRows
  <2>0. PICK p \in WritingPhases :
          h \in {Writing(p, g, s, o) : g \in Guests, s \in SeenBy(p), o \in BOOLEAN}
    BY <1>4 DEF WritingRows
  <2>1. PICK g \in Guests, s \in SeenBy(p), o \in BOOLEAN : h = Writing(p, g, s, o)
    BY <2>0
  <2>2. h.phase = p /\ h.user = g /\ h.seen = s /\ h.overtaken = o
    BY <2>1 DEF Writing
  <2> QED
    BY <1>4, <2>1, <2>2 DEF WritingPhases
<1>5. CASE h \in DeletingRows
  BY <1>5 DEF DeletingRows, Deleting, WritingPhases
<1>6. CASE h \in ClearingRows
  BY <1>6 DEF ClearingRows, Clearing, WritingPhases
<1> QED
  BY <1>1, <1>2, <1>3, <1>4, <1>5, <1>6 DEF HandlerRows

LEMMA WritingIsRow ==
  ASSUME NEW p \in WritingPhases, NEW g \in Guests, NEW s \in SeenBy(p), NEW o \in BOOLEAN
  PROVE  Writing(p, g, s, o) \in HandlerRows
BY DEF HandlerRows, WritingRows

LEMMA FillingIsRow ==
  ASSUME NEW u \in Users, NEW s \in BOOLEAN, NEW o \in BOOLEAN
  PROVE  Filling(u, s, o) \in HandlerRows
BY DEF HandlerRows, FillingRows

LEMMA DeletingIsRow ==
  ASSUME NEW n \in SUBSET Guests, NEW o \in BOOLEAN
  PROVE  Deleting(n, o) \in HandlerRows
BY DEF HandlerRows, DeletingRows

LEMMA ClearingIsRow ==
  ASSUME NEW t \in SUBSET Users
  PROVE  Clearing(t) \in HandlerRows
BY DEF HandlerRows, ClearingRows

\* Overtaking a handler keeps where it stands.
LEMMA OvertakeRow ==
  ASSUME NEW h \in HandlerRows
  PROVE  /\ Overtake(h) \in HandlerRows
         /\ Overtake(h).phase = h.phase
         /\ h.phase \in WritingPhases \cup {"filling", "deleting"} => Overtake(h).overtaken
         /\ h.phase \notin WritingPhases \cup {"filling", "deleting"} => Overtake(h) = h
<1>1. CASE h.phase \in WritingPhases
  <2>1. h.user \in Guests /\ h.seen \in SeenBy(h.phase)
    BY <1>1, RowsByPhase
  <2>2. Overtake(h) = Writing(h.phase, h.user, h.seen, TRUE)
    BY <1>1 DEF Overtake
  <2>3. Overtake(h) \in HandlerRows
    BY <1>1, <2>1, <2>2, WritingIsRow
  <2> QED
    BY <1>1, <2>2, <2>3 DEF Writing
<1>2. CASE h.phase = "filling"
  <2>1. Overtake(h) = Filling(h.user, h.shows, TRUE)
    BY <1>2 DEF Overtake, WritingPhases
  <2>2. h.user \in Users /\ h.shows \in BOOLEAN
    BY <1>2, RowsByPhase
  <2>3. Filling(h.user, h.shows, TRUE) \in HandlerRows
    BY <2>2, FillingIsRow
  <2> QED
    BY <1>2, <2>1, <2>3 DEF Filling
<1>3. CASE h.phase = "deleting"
  <2>1. Overtake(h) = Deleting(h.notify, TRUE)
    BY <1>3 DEF Overtake, WritingPhases
  <2>2. h.notify \in SUBSET Guests
    BY <1>3, RowsByPhase
  <2>3. Deleting(h.notify, TRUE) \in HandlerRows
    BY <2>2, DeletingIsRow
  <2> QED
    BY <1>3, <2>1, <2>3 DEF Deleting
<1>4. CASE h.phase \notin WritingPhases \cup {"filling", "deleting"}
  BY <1>4 DEF Overtake
<1> QED
  BY <1>1, <1>2, <1>3, <1>4

LEMMA InitInvariant == Init => IInv
<1> SUFFICES ASSUME Init PROVE IInv
  OBVIOUS
<1>1. TypeOK
  BY CollaboratorAssumption DEF Init, TypeOK, HandlerRows
<1>2. ReadsHold
  BY DEF Init, ReadsHold, ReadHolds, Idle, WritingPhases
<1>3. CascadeHolds /\ ListedAsStored
  BY DEF Init, CascadeHolds, ListedAsStored
<1> QED
  BY <1>1, <1>2, <1>3 DEF IInv

-----------------------------------------------------------------------------
(* Steps that move one handler, those that commit, and the rest.           *)

\* A handler that has no list to delete moves and nothing else changes.
LEMMA MoveStep ==
  ASSUME IInv, NEW r \in Requests, NEW next \in HandlerRows,
         request' = [request EXCEPT ![r] = next],
         request[r].phase = "clearing" => request[r].todo = {},
         ReadHolds(next),
         UNCHANGED <<redis, profile, created, row, list, missed>>
  PROVE  IInv'
<1>1. TypeOK'
  BY DEF IInv, TypeOK
<1>2. ReadsHold'
  <2>1. ASSUME NEW q \in Requests PROVE ReadHolds(request[q])'
    <3>1. request'[q] = request[q] \/ request'[q] = next
      BY DEF IInv, TypeOK
    <3> QED
      BY <3>1 DEF IInv, ReadsHold, ReadHolds, Shows, Accepted
  <2> QED
    BY <2>1 DEF ReadsHold
<1>3. CascadeHolds'
  BY DEF IInv, CascadeHolds
<1>4. ListedAsStored'
  <2> SUFFICES ASSUME NEW u \in Users, ~redis, list[u] # NoList, list[u].shows # Shows(u),
                      ~list[u].overtaken, u \notin missed
               PROVE  \E q \in Requests : request'[q].phase = "clearing" /\ u \in request'[q].todo
    BY DEF ListedAsStored, Shows, Accepted
  <2>1. PICK q \in Requests : request[q].phase = "clearing" /\ u \in request[q].todo
    BY DEF IInv, ListedAsStored
  <2>2. q # r
    BY <2>1
  <2> QED
    BY <2>1, <2>2 DEF IInv, TypeOK
<1> QED
  BY <1>1, <1>2, <1>3, <1>4 DEF IInv

\* A commit on the invitation of one guest, whose list will be deleted.
LEMMA CommitStep ==
  ASSUME IInv, NEW r \in Requests, NEW g \in Guests,
         NEW new \in RowsIn(Statuses) \cup {NoRow}, NEW todo \in SUBSET Users, g \in todo,
         request[r].phase \in WritingPhases,
         CommitRow(r, g, new, todo),
         created' \in 0..MaxRows,
         profile \/ new = NoRow
  PROVE  IInv'
<1> USE DEF CommitRow
<1>0. TypeOK /\ ReadsHold /\ CascadeHolds /\ ListedAsStored
  BY DEF IInv
<1>1. request'[r] = Clearing(todo) /\ Clearing(todo) \in HandlerRows
  BY DEF HandlerRows, ClearingRows
<1>2. ASSUME NEW q \in Requests, q # r
      PROVE  /\ request'[q] \in HandlerRows
             /\ request'[q].phase = request[q].phase
             /\ request[q].phase = "clearing" => request'[q] = request[q]
  <2>1. request[q] \in HandlerRows
    BY <1>0 DEF TypeOK
  <2> QED
    BY <2>1, <1>2, OvertakeRow DEF Concerns, WritingPhases
<1>3. TypeOK'
  <2>1. request' \in [Requests -> HandlerRows]
    BY <1>1, <1>2
  <2> QED
    BY <1>0, <2>1 DEF TypeOK
<1>4. \A h \in Guests : h # g => row'[h] = row[h]
  BY <1>0 DEF TypeOK
<1>5. \A u \in Users : u # g => Shows(u)' = Shows(u)
  BY <1>4 DEF Shows, Accepted, Users
<1>6. ReadsHold'
  <2>1. ASSUME NEW q \in Requests PROVE ReadHolds(request[q])'
    <3>1. CASE q = r
      BY <1>1, <3>1 DEF ReadHolds, Clearing, WritingPhases
    <3>2. CASE q # r /\ Concerns(request[q], g)
      <4>1. request'[q] = Overtake(request[q]) /\ request[q] \in HandlerRows
        BY <1>0, <3>2 DEF TypeOK
      <4> QED
        BY <4>1, OvertakeRow DEF ReadHolds, WritingPhases
    <3>3. CASE q # r /\ ~Concerns(request[q], g)
      <4>1. request'[q] = request[q] /\ request[q] \in HandlerRows
        BY <1>0, <3>3 DEF TypeOK
      <4>2. ReadHolds(request[q])
        BY <1>0 DEF ReadsHold
      <4> QED
        BY <4>1, <4>2, <3>3, <1>4, <1>5, RowsByPhase DEF ReadHolds, Concerns
    <3> QED
      BY <3>1, <3>2, <3>3
  <2> QED
    BY <2>1 DEF ReadsHold
<1>7. CascadeHolds'
  BY <1>0 DEF CascadeHolds, TypeOK
<1>8. ListedAsStored'
  <2> SUFFICES ASSUME NEW u \in Users, ~redis, list[u] # NoList, list[u].shows # Shows(u)',
                      ~list[u].overtaken, u \notin missed
               PROVE  \E q \in Requests : request'[q].phase = "clearing" /\ u \in request'[q].todo
    BY DEF ListedAsStored
  <2>1. CASE u = g
    BY <2>1, <1>1 DEF Clearing
  <2>2. CASE u # g
    <3>1. PICK q \in Requests : request[q].phase = "clearing" /\ u \in request[q].todo
      BY <1>0, <2>2, <1>5 DEF ListedAsStored
    <3>2. q # r
      BY <3>1 DEF WritingPhases
    <3> QED
      BY <3>1, <3>2, <1>2
  <2> QED
    BY <2>1, <2>2
<1> QED
  BY <1>3, <1>6, <1>7, <1>8 DEF IInv

\* Every step the owner or a guest's handler takes before its write.
LEMMA BeginStep ==
  ASSUME IInv, NEW r \in Requests, NEW next \in HandlerRows, Begin(r, next), ReadHolds(next)
  PROVE  IInv'
<1>1. request[r].phase = "clearing" => request[r].todo = {}
  BY DEF Begin, Idle
<1>2. request' = [request EXCEPT ![r] = next]
  BY DEF Begin
<1>3. UNCHANGED <<redis, profile, created, row, list, missed>>
  BY DEF Begin
<1> QED
  BY <1>1, <1>2, <1>3, MoveStep

LEMMA FailStep ==
  ASSUME IInv, NEW r \in Requests, Fail(r), request[r].phase = "clearing" => request[r].todo = {}
  PROVE  IInv'
<1>1. Idle \in HandlerRows /\ ReadHolds(Idle)
  BY DEF HandlerRows, ReadHolds, Idle, WritingPhases
<1> QED
  BY <1>1, MoveStep DEF Fail

LEMMA ReadSteps ==
  ASSUME IInv, NEW r \in Requests, NEW g \in Guests,
         InviteRead(r, g) \/ RevokeRead(r, g) \/ AnswerRead(r, g)
  PROVE  IInv'
<1>0. row[g] \in RowsIn(Statuses) \cup {NoRow}
  BY DEF IInv, TypeOK
<1>1. ASSUME NEW p \in WritingPhases, row[g] \in SeenBy(p), Begin(r, Writing(p, g, row[g], FALSE))
      PROVE  IInv'
  <2> DEFINE next == Writing(p, g, row[g], FALSE)
  <2>1. next \in HandlerRows
    BY <1>1, WritingIsRow
  <2>2. ReadHolds(next)
    BY <1>1 DEF ReadHolds, Writing, WritingPhases
  <2> HIDE DEF next
  <2>3. Begin(r, next)
    BY <1>1 DEF next
  <2> QED
    BY <2>1, <2>2, <2>3, BeginStep
<1>2. CASE InviteRead(r, g)
  <2>1. row[g] \in SeenBy("inviting")
    BY <1>0, <1>2 DEF InviteRead, SeenBy, RowsIn, Invitation, Statuses, NoRow
  <2> QED
    BY <1>1, <1>2, <2>1 DEF InviteRead, WritingPhases
<1>3. CASE RevokeRead(r, g)
  <2>1. row[g] \in SeenBy("revoking")
    BY <1>0, <1>3 DEF RevokeRead, SeenBy
  <2> QED
    BY <1>1, <1>3, <2>1 DEF RevokeRead, WritingPhases
<1>4. CASE AnswerRead(r, g)
  <2>1. row[g] \in SeenBy("accepting") /\ row[g] \in SeenBy("rejecting")
    BY <1>0, <1>4 DEF AnswerRead, SeenBy, RowsIn, Invitation, Statuses, NoRow
  <2> QED
    BY <1>1, <1>4, <2>1 DEF AnswerRead, WritingPhases
<1> QED
  BY <1>2, <1>3, <1>4

\* The row a handler found by its id is an invitation, and its writes are rows again.
LEMMA FoundRow ==
  ASSUME IInv, NEW r \in Requests, request[r].phase \in WritingPhases, Found(r)
  PROVE  /\ request[r].user \in Guests
         /\ profile
         /\ \A s \in Statuses : Invitation(row[request[r].user].id, s) \in RowsIn(Statuses)
<1> DEFINE g == request[r].user
<1>1. g \in Guests
  BY RowsByPhase DEF IInv, TypeOK
<1>2. row[g] \in RowsIn(Statuses) /\ row[g] # NoRow
  BY <1>1 DEF IInv, TypeOK, Found
<1>3. row[g].id \in 1..MaxRows
  <2>1. PICK i \in 1..MaxRows, s \in Statuses : row[g] = Invitation(i, s)
    BY <1>2 DEF RowsIn
  <2> QED
    BY <2>1 DEF Invitation
<1>4. profile
  BY <1>1, <1>2 DEF IInv, TypeOK, CascadeHolds
<1> QED
  BY <1>1, <1>3, <1>4 DEF RowsIn

LEMMA WriteSteps ==
  ASSUME IInv, NEW r \in Requests,
         InviteCreate(r) \/ InviteUpdate(r) \/ RevokeWrite(r) \/ AcceptWrite(r) \/ RejectWrite(r)
  PROVE  IInv'
<1> DEFINE g == request[r].user
<1>0. request[r].phase \in WritingPhases /\ g \in Guests /\ created \in 0..MaxRows /\ MaxRows \in Nat
  BY RowsByPhase, CollaboratorAssumption
     DEF IInv, TypeOK, InviteCreate, InviteUpdate, RevokeWrite, AcceptWrite, RejectWrite, WritingPhases
<1>1. CASE Fail(r)
  BY <1>0, <1>1, FailStep DEF WritingPhases
<1>2. ASSUME NEW s \in Statuses, NEW todo \in SUBSET Users, g \in todo, Found(r), UNCHANGED created,
             CommitRow(r, g, Invitation(row[g].id, s), todo)
      PROVE  IInv'
  <2>1. profile /\ Invitation(row[g].id, s) \in RowsIn(Statuses)
    BY <1>0, <1>2, FoundRow
  <2> HIDE DEF g
  <2> QED
    BY <1>0, <1>2, <2>1, CommitStep
<1>3. {Owner, g} \in SUBSET Users /\ {g} \in SUBSET Users
  BY <1>0 DEF Users
<1>4. CASE InviteCreate(r) /\ ~Fail(r)
  <2>1. /\ created' = created + 1 /\ created < MaxRows /\ profile
        /\ CommitRow(r, g, Invitation(created + 1, "pending"), {Owner, g})
    BY <1>4 DEF InviteCreate
  <2>2. Invitation(created + 1, "pending") \in RowsIn(Statuses)
    BY <1>0, <2>1 DEF RowsIn, Statuses
  <2>3. created' \in 0..MaxRows
    BY <1>0, <2>1
  <2> HIDE DEF g
  <2> QED
    BY <1>0, <1>3, <2>1, <2>2, <2>3, CommitStep
<1>5. CASE InviteUpdate(r) /\ ~Fail(r)
  BY <1>2, <1>3, <1>5 DEF InviteUpdate, Statuses
<1>6. CASE RevokeWrite(r) /\ ~Fail(r)
  <2>1. CASE request[r].seen.status = "pending"
    <3>1. CommitRow(r, g, NoRow, {Owner, g}) /\ UNCHANGED created
      BY <1>6, <2>1 DEF RevokeWrite
    <3> HIDE DEF g
    <3> QED
      BY <1>0, <1>3, <3>1, CommitStep
  <2>2. CASE request[r].seen.status # "pending"
    BY <1>2, <1>3, <1>6, <2>2 DEF RevokeWrite, Statuses
  <2> QED
    BY <2>1, <2>2
<1>7. CASE AcceptWrite(r) /\ ~Fail(r)
  BY <1>2, <1>3, <1>7 DEF AcceptWrite, Statuses
<1>8. CASE RejectWrite(r) /\ ~Fail(r)
  BY <1>2, <1>3, <1>8 DEF RejectWrite, Statuses
<1> QED
  BY <1>1, <1>4, <1>5, <1>6, <1>7, <1>8

LEMMA DeleteReadStep ==
  ASSUME IInv, NEW r \in Requests, DeleteRead(r)
  PROVE  IInv'
<1> DEFINE notify == {g \in Guests : Accepted(g)}
           next == Deleting(notify, FALSE)
<1>1. next \in HandlerRows
  BY DeletingIsRow
<1>2. ReadHolds(next)
  BY DEF ReadHolds, Deleting, WritingPhases
<1>3. Begin(r, next)
  BY DEF DeleteRead
<1> HIDE DEF next
<1> QED
  BY <1>1, <1>2, <1>3, BeginStep

LEMMA DeleteWriteStep ==
  ASSUME IInv, NEW r \in Requests, DeleteWrite(r)
  PROVE  IInv'
<1>0. TypeOK /\ ReadsHold /\ CascadeHolds /\ ListedAsStored
  BY DEF IInv
<1>1. CASE ~profile
  BY <1>1, FailStep DEF DeleteWrite
<1>2. CASE profile
  <2> DEFINE todo == {Owner} \cup request[r].notify
  <2>0. request[r].phase = "deleting" /\ request[r].notify \in SUBSET Guests /\ request[r] \in HandlerRows
    BY <1>0, RowsByPhase DEF DeleteWrite, TypeOK
  <2>1. /\ profile' = FALSE /\ row' = [g \in Guests |-> NoRow]
        /\ request' = [q \in Requests |-> IF q = r THEN Clearing(todo) ELSE Overtake(request[q])]
        /\ missed' = IF request[r].overtaken THEN missed \cup {g \in Guests : Accepted(g)} ELSE missed
        /\ UNCHANGED <<redis, created, list>>
    BY <1>2 DEF DeleteWrite
  <2>2. request'[r] = Clearing(todo) /\ Clearing(todo) \in HandlerRows
    BY <2>0, <2>1, ClearingIsRow DEF Users
  <2>3. ASSUME NEW q \in Requests, q # r
        PROVE  /\ request'[q] = Overtake(request[q]) /\ request[q] \in HandlerRows
               /\ request'[q] \in HandlerRows
               /\ request[q].phase = "clearing" => request'[q] = request[q]
    <3>1. request'[q] = Overtake(request[q]) /\ request[q] \in HandlerRows
      BY <1>0, <2>1, <2>3 DEF TypeOK
    <3> QED
      BY <3>1, OvertakeRow DEF WritingPhases
  <2>4. TypeOK'
    <3>1. request' \in [Requests -> HandlerRows]
      BY <2>1, <2>2, <2>3
    <3>2. missed' \in SUBSET Guests
      BY <1>0, <2>1 DEF TypeOK
    <3> QED
      BY <1>0, <2>1, <3>1, <3>2 DEF TypeOK
  <2>5. ReadsHold'
    <3>1. ASSUME NEW q \in Requests PROVE ReadHolds(request[q])'
      <4>1. CASE q = r
        BY <2>2, <4>1 DEF ReadHolds, Clearing, WritingPhases
      <4>2. CASE q # r
        BY <2>3, <4>2, OvertakeRow DEF ReadHolds, WritingPhases
      <4> QED
        BY <4>1, <4>2
    <3> QED
      BY <3>1 DEF ReadsHold
  <2>6. CascadeHolds'
    BY <2>1 DEF CascadeHolds
  <2>7. ListedAsStored'
    <3> SUFFICES ASSUME NEW u \in Users, ~redis, list[u] # NoList, list[u].shows # Shows(u)',
                        ~list[u].overtaken, u \notin missed'
                 PROVE  \E q \in Requests : request'[q].phase = "clearing" /\ u \in request'[q].todo
      BY <2>1 DEF ListedAsStored
    <3>1. CASE u \in todo
      BY <2>2, <3>1 DEF Clearing
    <3>2. CASE u \notin todo
      <4>1. u \in Guests /\ u # Owner /\ u \notin request[r].notify
        BY <3>2 DEF Users
      <4>2. Shows(u)' = FALSE /\ Shows(u) = Accepted(u)
        BY <2>1, <4>1 DEF Shows, Accepted, NoRow
      <4>3. Accepted(u) = FALSE
        <5>1. ~Accepted(u)
          BY <1>0, <2>0, <2>1, <4>1 DEF ReadsHold, ReadHolds
        <5> QED
          BY <5>1 DEF Accepted
      <4>4. list[u].shows # Shows(u) /\ u \notin missed
        <5>1. Shows(u)' = Shows(u)
          BY <4>2, <4>3
        <5>2. u \notin missed
          BY <2>1
        <5> QED
          BY <5>1, <5>2
      <4>5. PICK q \in Requests : request[q].phase = "clearing" /\ u \in request[q].todo
        BY <1>0, <4>4 DEF ListedAsStored
      <4> QED
        BY <2>0, <2>3, <4>5
    <3> QED
      BY <3>1, <3>2
  <2> QED
    BY <2>4, <2>5, <2>6, <2>7 DEF IInv
<1> QED
  BY <1>0, <1>1, <1>2 DEF TypeOK

LEMMA ListReadSteps ==
  ASSUME IInv, NEW r \in Requests, (\E u \in Users : ListMiss(r, u)) \/ ListLoad(r) \/ Done(r)
  PROVE  IInv'
<1>1. CASE \E u \in Users : ListMiss(r, u)
  <2>1. PICK u \in Users : ListMiss(r, u)
    BY <1>1
  <2> DEFINE next == Loading(u)
  <2>2. next \in HandlerRows /\ ReadHolds(next) /\ Begin(r, next)
    BY <2>1 DEF ListMiss, HandlerRows, LoadingRows, ReadHolds, Loading, WritingPhases
  <2> HIDE DEF next
  <2> QED
    BY <2>2, BeginStep
<1>2. CASE ListLoad(r)
  <2> DEFINE u == request[r].user  next == Filling(u, Shows(u), FALSE)
  <2>1. u \in Users
    BY <1>2, RowsByPhase DEF ListLoad, IInv, TypeOK
  <2>2. Shows(u) \in BOOLEAN
    BY <2>1 DEF Shows, Accepted, IInv, TypeOK
  <2>3. next \in HandlerRows
    BY <2>1, <2>2, FillingIsRow
  <2>4. ReadHolds(next)
    BY DEF ReadHolds, Filling, WritingPhases
  <2>5. /\ request' = [request EXCEPT ![r] = next]
        /\ request[r].phase = "loading"
        /\ UNCHANGED <<redis, profile, created, row, list, missed>>
    BY <1>2 DEF ListLoad
  <2> HIDE DEF next
  <2> QED
    BY <2>3, <2>4, <2>5, MoveStep
<1>3. CASE Done(r)
  BY <1>3, FailStep DEF Done, Clearing
<1> QED
  BY <1>1, <1>2, <1>3

LEMMA ListFillStep ==
  ASSUME IInv, NEW r \in Requests, ListFill(r)
  PROVE  IInv'
<1> DEFINE u == request[r].user
<1>0. TypeOK /\ ReadsHold /\ CascadeHolds /\ ListedAsStored
  BY DEF IInv
<1>1. /\ u \in Users /\ request[r].shows \in BOOLEAN /\ request[r].overtaken \in BOOLEAN
      /\ request[r].phase = "filling"
  BY <1>0, RowsByPhase DEF TypeOK, ListFill
<1>2. /\ list' = [list EXCEPT ![u] = List(request[r].shows, request[r].overtaken)]
      /\ request' = [request EXCEPT ![r] = Idle]
      /\ UNCHANGED <<redis, profile, created, row, missed>>
  BY DEF ListFill
<1>3. TypeOK'
  <2>1. List(request[r].shows, request[r].overtaken) \in Lists
    BY <1>1 DEF Lists
  <2>2. Idle \in HandlerRows
    BY DEF HandlerRows
  <2> QED
    BY <1>0, <1>2, <2>1, <2>2 DEF TypeOK
<1>4. ReadsHold'
  <2>1. ASSUME NEW q \in Requests PROVE ReadHolds(request[q])'
    <3>1. request'[q] = request[q] \/ request'[q] = Idle
      BY <1>0, <1>2 DEF TypeOK
    <3> QED
      BY <1>0, <1>2, <3>1 DEF ReadsHold, ReadHolds, Shows, Accepted, Idle, WritingPhases
  <2> QED
    BY <2>1 DEF ReadsHold
<1>5. CascadeHolds'
  BY <1>0, <1>2 DEF CascadeHolds
<1>6. ListedAsStored'
  <2> SUFFICES ASSUME NEW v \in Users, ~redis, list'[v] # NoList, list'[v].shows # Shows(v),
                      ~list'[v].overtaken, v \notin missed
               PROVE  \E q \in Requests : request'[q].phase = "clearing" /\ v \in request'[q].todo
    BY <1>2 DEF ListedAsStored, Shows, Accepted
  <2>1. v # u
    <3>1. SUFFICES ASSUME v = u PROVE FALSE
      OBVIOUS
    <3>2. list'[u] = List(request[r].shows, request[r].overtaken)
      BY <1>0, <1>1, <1>2 DEF TypeOK
    <3>3. request[r].shows # Shows(u) /\ ~request[r].overtaken
      BY <3>1, <3>2 DEF List
    <3> QED
      BY <1>0, <1>1, <3>3 DEF ReadsHold, ReadHolds
  <2>2. list'[v] = list[v]
    BY <1>0, <1>2, <2>1 DEF TypeOK
  <2>3. PICK q \in Requests : request[q].phase = "clearing" /\ v \in request[q].todo
    BY <1>0, <2>2 DEF ListedAsStored
  <2> QED
    BY <1>0, <1>1, <1>2, <2>3 DEF TypeOK
<1> QED
  BY <1>3, <1>4, <1>5, <1>6 DEF IInv

\* The steps that only lose cached lists: u's, when it is not due to another handler.
LEMMA ListClearStep ==
  ASSUME IInv, NEW r \in Requests, NEW u \in Users, ListClear(r, u)
  PROVE  IInv'
<1> DEFINE next == Clearing(request[r].todo \ {u})
<1>0. TypeOK /\ ReadsHold /\ CascadeHolds /\ ListedAsStored
  BY DEF IInv
<1>1. request[r].phase = "clearing" /\ request[r].todo \in SUBSET Users
  BY <1>0, RowsByPhase DEF TypeOK, ListClear
<1>2. /\ list' = [list EXCEPT ![u] = NoList] \/ (redis /\ UNCHANGED list)
      /\ request' = [request EXCEPT ![r] = next]
      /\ UNCHANGED <<redis, profile, created, row, missed>>
  BY DEF ListClear
<1>3. TypeOK'
  <2>1. next \in HandlerRows
    BY <1>1, ClearingIsRow
  <2> HIDE DEF next
  <2> QED
    BY <1>0, <1>2, <2>1 DEF TypeOK
<1>4. ReadsHold'
  <2>1. ASSUME NEW q \in Requests PROVE ReadHolds(request[q])'
    <3>1. request'[q] = request[q] \/ request'[q] = next
      BY <1>0, <1>2 DEF TypeOK
    <3> QED
      BY <1>0, <1>2, <3>1 DEF ReadsHold, ReadHolds, Shows, Accepted, Clearing, WritingPhases
  <2> QED
    BY <2>1 DEF ReadsHold
<1>5. CascadeHolds'
  BY <1>0, <1>2 DEF CascadeHolds
<1>6. ListedAsStored'
  <2> SUFFICES ASSUME NEW v \in Users, ~redis, list'[v] # NoList, list'[v].shows # Shows(v),
                      ~list'[v].overtaken, v \notin missed
               PROVE  \E q \in Requests : request'[q].phase = "clearing" /\ v \in request'[q].todo
    BY <1>2 DEF ListedAsStored, Shows, Accepted
  <2>1. v # u /\ list'[v] = list[v]
    BY <1>0, <1>2 DEF TypeOK
  <2>2. PICK q \in Requests : request[q].phase = "clearing" /\ v \in request[q].todo
    BY <1>0, <2>1 DEF ListedAsStored
  <2>3. CASE q = r
    BY <1>0, <1>2, <2>1, <2>2, <2>3 DEF TypeOK, Clearing
  <2>4. CASE q # r
    BY <1>0, <1>2, <2>2, <2>4 DEF TypeOK
  <2> QED
    BY <2>3, <2>4
<1> QED
  BY <1>3, <1>4, <1>5, <1>6 DEF IInv

LEMMA EnvironmentSteps ==
  ASSUME IInv, (\E u \in Users : ListExpire(u)) \/ Restart
  PROVE  IInv'
<1>0. TypeOK /\ ReadsHold /\ CascadeHolds /\ ListedAsStored
  BY DEF IInv
<1>1. CASE \E u \in Users : ListExpire(u)
  <2>1. PICK u \in Users : ListExpire(u)
    BY <1>1
  <2>2. TypeOK'
    BY <1>0, <2>1 DEF TypeOK, ListExpire
  <2>3. ReadsHold' /\ CascadeHolds'
    BY <1>0, <2>1 DEF ReadsHold, ReadHolds, CascadeHolds, Shows, Accepted, ListExpire
  <2>4. ASSUME NEW v \in Users, list'[v] # NoList PROVE list'[v] = list[v]
    BY <1>0, <2>1, <2>4 DEF TypeOK, ListExpire
  <2>5. ListedAsStored'
    BY <1>0, <2>1, <2>4 DEF ListedAsStored, ListExpire, Shows, Accepted
  <2> QED
    BY <2>2, <2>3, <2>5 DEF IInv
<1>2. CASE Restart
  <2>1. TypeOK'
    BY <1>0, <1>2 DEF TypeOK, Restart, HandlerRows
  <2>2. ReadsHold' /\ CascadeHolds'
    BY <1>0, <1>2 DEF ReadsHold, ReadHolds, CascadeHolds, Restart, Idle, WritingPhases
  <2>3. ListedAsStored'
    BY <1>0, <1>2 DEF ListedAsStored, Restart
  <2> QED
    BY <2>1, <2>2, <2>3 DEF IInv
<1> QED
  BY <1>1, <1>2

LEMMA NextInvariant == IInv /\ [Next]_vars => IInv'
<1> SUFFICES ASSUME IInv, [Next]_vars PROVE IInv'
  OBVIOUS
<1>1. CASE \E r \in Requests, g \in Guests : InviteRead(r, g) \/ RevokeRead(r, g) \/ AnswerRead(r, g)
  BY <1>1, ReadSteps
<1>2. CASE \E r \in Requests : DeleteRead(r)
  BY <1>2, DeleteReadStep
<1>3. CASE \E r \in Requests : Answer(r)
  BY <1>3, WriteSteps, DeleteWriteStep DEF Answer
<1>4. CASE \E r \in Requests : (\E u \in Users : ListMiss(r, u)) \/ ListLoad(r) \/ Done(r)
  BY <1>4, ListReadSteps
<1>5. CASE \E r \in Requests : (\E u \in Users : ListClear(r, u)) \/ ListFill(r)
  BY <1>5, ListClearStep, ListFillStep
<1>6. CASE (\E u \in Users : ListExpire(u)) \/ Restart
  BY <1>6, EnvironmentSteps
<1>7. CASE UNCHANGED vars
  <2>1. TypeOK' /\ ReadsHold' /\ CascadeHolds'
    BY <1>7 DEF IInv, TypeOK, ReadsHold, ReadHolds, CascadeHolds, Shows, Accepted, vars
  <2>2. ListedAsStored'
    BY <1>7 DEF IInv, ListedAsStored, Shows, Accepted, vars
  <2> QED
    BY <2>1, <2>2 DEF IInv
<1> QED
  BY <1>1, <1>2, <1>3, <1>4, <1>5, <1>6, <1>7 DEF Next

\* The inductive invariant of the sharing of a profile: what a handler holds is true until a
\* commit overtakes it, invitations go with the profile, lists tell the access.
THEOREM CollaboratorsInvariant == Spec => []IInv
BY InitInvariant, NextInvariant, PTL DEF Spec

\* loadProfilesForUser and invalidateProfileList: in one process a cached list tells who has
\* access, with the three named exceptions, for any number of guests and handlers.
THEOREM ListedAsStoredHolds == Spec => []ListedAsStored
<1>1. IInv => ListedAsStored
  BY DEF IInv
<1> QED
  BY <1>1, CollaboratorsInvariant, PTL

-----------------------------------------------------------------------------
(* The lifecycle of an invitation.                                         *)

LEMMA CommitLifecycle ==
  ASSUME IInv, NEW r \in Requests, request[r].phase \in WritingPhases,
         NEW new, NEW todo, CommitRow(r, request[r].user, new, todo),
         ~request[r].overtaken => <<row[request[r].user].status, new.status>> \in Lifecycle,
         NEW g \in Guests, row'[g].status # row[g].status
  PROVE  \/ <<row[g].status, row'[g].status>> \in Lifecycle
         \/ \E q \in Requests : Overtaken(q) /\ request[q].user = g /\ request'[q] # request[q]
<1>1. request[r].user = g /\ row'[g] = new
  BY DEF CommitRow, IInv, TypeOK
<1>2. request'[r] # request[r]
  BY DEF CommitRow, Clearing, WritingPhases
<1> QED
  BY <1>1, <1>2 DEF Overtaken

LEMMA StepLifecycle ==
  ASSUME IInv, [Next]_vars, NEW g \in Guests, profile', row'[g].status # row[g].status
  PROVE  \/ <<row[g].status, row'[g].status>> \in Lifecycle
         \/ \E q \in Requests : Overtaken(q) /\ request[q].user = g /\ request'[q] # request[q]
<1>1. PICK r \in Requests : Answer(r) /\ ~Fail(r) /\ ~DeleteWrite(r)
  <2>1. row' # row
    OBVIOUS
  <2> QED
    BY <2>1 DEF Next, vars, InviteRead, RevokeRead, AnswerRead, DeleteRead, Begin, Fail, ListMiss, ListClear,
                ListLoad, ListFill, Done, ListExpire, Restart, DeleteWrite
<1> DEFINE u == request[r].user
<1>2. request[r].phase \in WritingPhases /\ u \in Guests /\ request[r].seen \in SeenBy(request[r].phase)
  BY <1>1, RowsByPhase DEF Answer, InviteCreate, InviteUpdate, RevokeWrite, AcceptWrite, RejectWrite,
                           WritingPhases, IInv, TypeOK
<1>3. ~request[r].overtaken => row[u] = request[r].seen
  BY <1>2 DEF IInv, ReadsHold, ReadHolds
<1>4. CASE InviteCreate(r)
  <2>1. CommitRow(r, u, Invitation(created + 1, "pending"), {Owner, u}) /\ row[u] = NoRow
    BY <1>1, <1>4 DEF InviteCreate
  <2>2. <<row[u].status, Invitation(created + 1, "pending").status>> \in Lifecycle
    BY <2>1 DEF NoRow, Invitation, Lifecycle
  <2> QED
    BY <1>2, <2>1, <2>2, CommitLifecycle
<1>5. CASE InviteUpdate(r)
  <2>1. CommitRow(r, u, Invitation(row[u].id, "pending"), {Owner, u})
    BY <1>1, <1>5 DEF InviteUpdate
  <2>2. request[r].seen.status \in {"rejected", "revoked"}
    BY <1>2, <1>5 DEF InviteUpdate, SeenBy, RowsIn, Invitation
  <2>3. ~request[r].overtaken => <<row[u].status, Invitation(row[u].id, "pending").status>> \in Lifecycle
    BY <1>3, <2>2 DEF Invitation, Lifecycle
  <2> QED
    BY <1>2, <2>1, <2>3, CommitLifecycle
<1>6. CASE RevokeWrite(r)
  <2> DEFINE new == IF request[r].seen.status = "pending" THEN NoRow ELSE Invitation(row[u].id, "revoked")
  <2>1. CommitRow(r, u, new, {Owner, u})
    BY <1>1, <1>6 DEF RevokeWrite
  <2>2. request[r].seen.status \in Statuses
    BY <1>2, <1>6 DEF RevokeWrite, SeenBy, RowsIn, Invitation
  <2>3. ~request[r].overtaken /\ row[u].status # new.status => <<row[u].status, new.status>> \in Lifecycle
    BY <1>3, <2>2 DEF Invitation, Lifecycle, NoRow, Statuses
  <2>4. row'[g] = IF g = u THEN new ELSE row[g]
    BY <2>1 DEF CommitRow, IInv, TypeOK
  <2>5. u = g /\ row[u].status # new.status
    BY <2>4
  <2> HIDE DEF new
  <2> QED
    BY <1>2, <2>1, <2>3, <2>5, CommitLifecycle
<1>7. CASE AcceptWrite(r)
  <2>1. CommitRow(r, u, Invitation(row[u].id, "accepted"), {Owner, u})
    BY <1>1, <1>7 DEF AcceptWrite
  <2>2. request[r].seen.status = "pending"
    BY <1>2, <1>7 DEF AcceptWrite, SeenBy, RowsIn, Invitation
  <2>3. ~request[r].overtaken => <<row[u].status, Invitation(row[u].id, "accepted").status>> \in Lifecycle
    BY <1>3, <2>2 DEF Invitation, Lifecycle
  <2> QED
    BY <1>2, <2>1, <2>3, CommitLifecycle
<1>8. CASE RejectWrite(r)
  <2>1. CommitRow(r, u, Invitation(row[u].id, "rejected"), {u})
    BY <1>1, <1>8 DEF RejectWrite
  <2>2. request[r].seen.status = "pending"
    BY <1>2, <1>8 DEF RejectWrite, SeenBy, RowsIn, Invitation
  <2>3. ~request[r].overtaken => <<row[u].status, Invitation(row[u].id, "rejected").status>> \in Lifecycle
    BY <1>3, <2>2 DEF Invitation, Lifecycle
  <2> QED
    BY <1>2, <2>1, <2>3, CommitLifecycle
<1> QED
  BY <1>1, <1>4, <1>5, <1>6, <1>7, <1>8 DEF Answer

\* An invitation leaves its lifecycle only by a write by id that another commit on the row
\* overtook: a revoked guest does not return, an accepted one is not set back.
THEOREM LifecycleHolds == Spec => LifecycleKept
<1>1. IInv /\ [Next]_vars =>
        [\A g \in Guests :
           profile' /\ row'[g].status # row[g].status =>
             \/ <<row[g].status, row'[g].status>> \in Lifecycle
             \/ \E r \in Requests : Overtaken(r) /\ request[r].user = g /\ request'[r] # request[r]]_vars
  BY StepLifecycle
<1> QED
  BY <1>1, CollaboratorsInvariant, PTL DEF Spec, LifecycleKept
=============================================================================
