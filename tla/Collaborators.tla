--------------------------- MODULE Collaborators ---------------------------
(***************************************************************************)
(* Sharing a commerce profile: the invitation of a guest                   *)
(* (profile_collaborators, one row per profile and guest), the deletion of *)
(* the profile and the cached profile list of each user                    *)
(* (profile-collaborator.service.ts, deleteProfile of me.service.ts).      *)
(*                                                                         *)
(* Every handler reads, then writes by id what it read, then deletes the   *)
(* cached lists, with other handlers in between.  Of a list only one bit   *)
(* matters: whether it shows the profile, which for the owner the first    *)
(* query decides and for a guest the second.  Expiry may come at any time. *)
(***************************************************************************)
EXTENDS Naturals

CONSTANTS
  Owner,       \* the owner of the profile
  Guests,      \* registered users he may invite
  Requests,    \* handlers in flight
  MaxRows      \* bound: invitations created

ASSUME CollaboratorAssumption == Owner \notin Guests /\ MaxRows \in Nat

VARIABLES
  redis,       \* TRUE with REDIS_URL, FALSE with the memory of one process
  profile,     \* TRUE until the profile is deleted
  created,     \* invitations created so far, whose number is their id
  row,         \* [Guests -> an invitation or NoRow]
  list,        \* [Users -> a cached list or NoList]
  request,     \* where each handler stands
  missed       \* history: guests who joined while the profile was being deleted

vars == <<redis, profile, created, row, list, request, missed>>

Users == Guests \cup {Owner}
Statuses == {"pending", "accepted", "rejected", "revoked"}

NoRow == [status |-> "none"]
Invitation(id, status) == [id |-> id, status |-> status]
RowsIn(statuses) == {Invitation(i, s) : i \in 1..MaxRows, s \in statuses}

\* overtaken (history): a commit on the same subject came between the read and the write.
NoList == [cached |-> FALSE]
List(shows, overtaken) == [cached |-> TRUE, shows |-> shows, overtaken |-> overtaken]
Lists == {List(s, o) : s \in BOOLEAN, o \in BOOLEAN}

Idle == [phase |-> "idle"]
Loading(u) == [phase |-> "loading", user |-> u]
Filling(u, shows, overtaken) ==
  [phase |-> "filling", user |-> u, shows |-> shows, overtaken |-> overtaken]
Writing(phase, g, seen, overtaken) ==
  [phase |-> phase, user |-> g, seen |-> seen, overtaken |-> overtaken]
Deleting(notify, overtaken) ==
  [phase |-> "deleting", notify |-> notify, overtaken |-> overtaken]
Clearing(todo) == [phase |-> "clearing", todo |-> todo]

WritingPhases == {"inviting", "revoking", "accepting", "rejecting"}
\* What a handler may have read when it goes on to write.
SeenBy(phase) ==
  IF phase = "inviting" THEN RowsIn({"rejected", "revoked"}) \cup {NoRow}
  ELSE IF phase = "revoking" THEN RowsIn(Statuses) ELSE RowsIn({"pending"})

LoadingRows == {Loading(u) : u \in Users}
FillingRows == {Filling(u, s, o) : u \in Users, s \in BOOLEAN, o \in BOOLEAN}
WritingRows ==
  UNION {{Writing(p, g, s, o) : g \in Guests, s \in SeenBy(p), o \in BOOLEAN} : p \in WritingPhases}
DeletingRows == {Deleting(n, o) : n \in SUBSET Guests, o \in BOOLEAN}
ClearingRows == {Clearing(t) : t \in SUBSET Users}
HandlerRows ==
  {Idle} \cup LoadingRows \cup FillingRows \cup WritingRows \cup DeletingRows \cup ClearingRows

TypeOK ==
  /\ redis \in BOOLEAN /\ profile \in BOOLEAN
  /\ created \in 0..MaxRows
  /\ row \in [Guests -> RowsIn(Statuses) \cup {NoRow}]
  /\ list \in [Users -> Lists \cup {NoList}]
  /\ request \in [Requests -> HandlerRows]
  /\ missed \in SUBSET Guests

Accepted(g) == row[g].status = "accepted"

\* loadProfilesForUser: the owner's profiles and the accepted invitations.
Shows(u) == IF u = Owner THEN profile ELSE Accepted(u)

Init ==
  /\ redis \in BOOLEAN
  /\ profile = TRUE
  /\ created = 0
  /\ row = [g \in Guests |-> NoRow]
  /\ list = [u \in Users |-> NoList]
  /\ request = [r \in Requests |-> Idle]
  /\ missed = {}

-----------------------------------------------------------------------------
(* Steps shared by the handlers.                                           *)

\* A handler has run its checks and read what it will write by id.
Begin(r, next) ==
  /\ request[r] = Idle
  /\ request' = [request EXCEPT ![r] = next]
  /\ UNCHANGED <<redis, profile, created, row, list, missed>>

\* The write of r failed, or the connection did: the handler answers with an error.
Fail(r) ==
  /\ request' = [request EXCEPT ![r] = Idle]
  /\ UNCHANGED <<redis, profile, created, row, list, missed>>

Overtake(h) ==
  IF h.phase \in WritingPhases THEN Writing(h.phase, h.user, h.seen, TRUE)
  ELSE IF h.phase = "filling" THEN Filling(h.user, h.shows, TRUE)
  ELSE IF h.phase = "deleting" THEN Deleting(h.notify, TRUE)
  ELSE h

\* Who has read what a commit on guest g changes.
Concerns(h, g) ==
  h.phase = "deleting" \/ (h.phase \in WritingPhases \cup {"filling"} /\ h.user = g)

\* r commits the row of g and goes on to delete the lists of todo.
CommitRow(r, g, new, todo) ==
  /\ row' = [row EXCEPT ![g] = new]
  /\ request' = [q \in Requests |->
                   IF q = r THEN Clearing(todo)
                   ELSE IF Concerns(request[q], g) THEN Overtake(request[q]) ELSE request[q]]
  /\ UNCHANGED <<redis, profile, list, missed>>

\* The row r read is still there: update and delete by id find it.
Found(r) == row[request[r].user] # NoRow /\ row[request[r].user].id = request[r].seen.id

-----------------------------------------------------------------------------
(* invite.                                                                 *)

\* Mutant: a guest who already collaborates may be invited again.
InviteReadAnyone(r, g) ==
  /\ profile
  /\ row[g].status # "pending"
  /\ Begin(r, Writing("inviting", g, row[g], FALSE))

\* assertOwnedComercioProfile, and the 400 and the 409 of a guest already invited.
InviteRead(r, g) ==
  /\ profile
  /\ row[g].status \notin {"pending", "accepted"}
  /\ Begin(r, Writing("inviting", g, row[g], FALSE))

\* create: the unique (profileId, userId) and the foreign key decide.
InviteCreate(r) ==
  LET g == request[r].user IN
  /\ request[r].phase = "inviting" /\ request[r].seen = NoRow
  /\ created < MaxRows
  /\ IF row[g] = NoRow /\ profile
     THEN /\ created' = created + 1
          /\ CommitRow(r, g, Invitation(created + 1, "pending"), {Owner, g})
     ELSE Fail(r)

\* update by id: a revoked or rejected guest is invited again.
InviteUpdate(r) ==
  LET g == request[r].user IN
  /\ request[r].phase = "inviting" /\ request[r].seen # NoRow
  /\ IF Found(r)
     THEN CommitRow(r, g, Invitation(row[g].id, "pending"), {Owner, g}) /\ UNCHANGED created
     ELSE Fail(r)

-----------------------------------------------------------------------------
(* revoke, acceptInvitation, rejectInvitation.                             *)

RevokeRead(r, g) ==
  /\ profile /\ row[g] # NoRow
  /\ Begin(r, Writing("revoking", g, row[g], FALSE))

\* An invitation read as pending is deleted, any other is marked.
RevokeWrite(r) ==
  LET g == request[r].user
      new == IF request[r].seen.status = "pending" THEN NoRow
             ELSE Invitation(row[g].id, "revoked")
  IN
  /\ request[r].phase = "revoking"
  /\ IF Found(r) THEN CommitRow(r, g, new, {Owner, g}) /\ UNCHANGED created ELSE Fail(r)

\* findPendingInvitation.
AnswerRead(r, g) ==
  /\ row[g].status = "pending"
  /\ \E phase \in {"accepting", "rejecting"} : Begin(r, Writing(phase, g, row[g], FALSE))

\* Mutant: the list of the guest is not deleted.
AcceptUnlisted(r) ==
  LET g == request[r].user IN
  /\ request[r].phase = "accepting"
  /\ IF Found(r)
     THEN CommitRow(r, g, Invitation(row[g].id, "accepted"), {Owner}) /\ UNCHANGED created
     ELSE Fail(r)

AcceptWrite(r) ==
  LET g == request[r].user IN
  /\ request[r].phase = "accepting"
  /\ IF Found(r)
     THEN CommitRow(r, g, Invitation(row[g].id, "accepted"), {Owner, g}) /\ UNCHANGED created
     ELSE Fail(r)

RejectWrite(r) ==
  LET g == request[r].user IN
  /\ request[r].phase = "rejecting"
  /\ IF Found(r)
     THEN CommitRow(r, g, Invitation(row[g].id, "rejected"), {g}) /\ UNCHANGED created
     ELSE Fail(r)

-----------------------------------------------------------------------------
(* deleteProfile.                                                          *)

\* Mutant: the guests are looked up as pending.
DeleteReadPending(r) ==
  /\ profile
  /\ Begin(r, Deleting({g \in Guests : row[g].status = "pending"}, FALSE))

DeleteRead(r) ==
  /\ profile
  /\ Begin(r, Deleting({g \in Guests : Accepted(g)}, FALSE))

\* The cascade removes the invitations; the lists of those read before go next.
DeleteWrite(r) ==
  /\ request[r].phase = "deleting"
  /\ IF profile
     THEN /\ profile' = FALSE
          /\ row' = [g \in Guests |-> NoRow]
          /\ request' = [q \in Requests |-> IF q = r THEN Clearing({Owner} \cup request[r].notify)
                                            ELSE Overtake(request[q])]
          /\ missed' = IF request[r].overtaken
                       THEN missed \cup {g \in Guests : Accepted(g)} ELSE missed
          /\ UNCHANGED <<redis, created, list>>
     ELSE Fail(r)

-----------------------------------------------------------------------------
(* The cached lists.                                                       *)

\* listProfilesForUser misses; with Redis an error of GET counts as a miss.
ListMiss(r, u) ==
  /\ list[u] = NoList \/ redis
  /\ Begin(r, Loading(u))

ListLoad(r) ==
  /\ request[r].phase = "loading"
  /\ LET u == request[r].user IN
     request' = [request EXCEPT ![r] = Filling(u, Shows(u), FALSE)]
  /\ UNCHANGED <<redis, profile, created, row, list, missed>>

ListFill(r) ==
  /\ request[r].phase = "filling"
  /\ list' = [list EXCEPT ![request[r].user] = List(request[r].shows, request[r].overtaken)]
  /\ request' = [request EXCEPT ![r] = Idle]
  /\ UNCHANGED <<redis, profile, created, row, missed>>

\* invalidateProfileList, one user at a time.  The lists of two users never meet, so the order
\* is left open; with Redis an error of DEL is swallowed.
ListClear(r, u) ==
  /\ request[r].phase = "clearing" /\ u \in request[r].todo
  /\ \/ list' = [list EXCEPT ![u] = NoList]
     \/ redis /\ UNCHANGED list
  /\ request' = [request EXCEPT ![r] = Clearing(request[r].todo \ {u})]
  /\ UNCHANGED <<redis, profile, created, row, missed>>

Done(r) ==
  /\ request[r] = Clearing({})
  /\ Fail(r)

ListExpire(u) ==
  /\ list[u] # NoList
  /\ list' = [list EXCEPT ![u] = NoList]
  /\ UNCHANGED <<redis, profile, created, row, request, missed>>

\* The process dies with its handlers, and with its memory.
Restart ==
  /\ request' = [r \in Requests |-> Idle]
  /\ list' = IF redis THEN list ELSE [u \in Users |-> NoList]
  /\ UNCHANGED <<redis, profile, created, row, missed>>

Answer(r) == InviteCreate(r) \/ InviteUpdate(r) \/ RevokeWrite(r) \/ AcceptWrite(r)
             \/ RejectWrite(r) \/ DeleteWrite(r)

Next ==
  \/ \E r \in Requests :
       \/ \E g \in Guests : InviteRead(r, g) \/ RevokeRead(r, g) \/ AnswerRead(r, g)
       \/ DeleteRead(r)
       \/ Answer(r)
       \/ \E u \in Users : ListMiss(r, u) \/ ListClear(r, u)
       \/ ListLoad(r) \/ ListFill(r) \/ Done(r)
  \/ \E u \in Users : ListExpire(u)
  \/ Restart

Spec == Init /\ [][Next]_vars

-----------------------------------------------------------------------------
(* Properties.                                                             *)

\* What the owner and the guest may do to an invitation, one after the other.
Lifecycle ==
  {<<"none", "pending">>, <<"pending", "accepted">>, <<"pending", "rejected">>,
   <<"pending", "none">>, <<"accepted", "revoked">>, <<"rejected", "revoked">>,
   <<"rejected", "pending">>, <<"revoked", "pending">>}

Overtaken(r) == request[r].phase \in WritingPhases /\ request[r].overtaken

\* While the profile lives, its invitations follow that lifecycle: a revoked guest returns only
\* through a new invitation, and nobody who accepted is set back.  The handlers write by id
\* without looking again, so the exception is a write that another commit on the row overtook.
LifecycleKept ==
  [][\A g \in Guests :
       profile' /\ row'[g].status # row[g].status =>
         \/ <<row[g].status, row'[g].status>> \in Lifecycle
         \/ \E r \in Requests : Overtaken(r) /\ request[r].user = g /\ request'[r] # request[r]]_vars

\* In the memory of one process a cached list tells who has access, but for a reader that a
\* commit overtook, a deletion under way, and a guest who joined while the profile was deleted.
ListedAsStored ==
  \A u \in Users :
    ~redis /\ list[u] # NoList /\ list[u].shows # Shows(u) =>
      \/ list[u].overtaken
      \/ \E r \in Requests : request[r].phase = "clearing" /\ u \in request[r].todo
      \/ u \in missed

\* What a handler holds is true until a commit overtakes it.
ReadHolds(h) ==
  /\ h.phase \in WritingPhases /\ ~h.overtaken => h.seen = row[h.user]
  /\ h.phase = "filling" /\ ~h.overtaken => h.shows = Shows(h.user)
  /\ h.phase = "deleting" /\ ~h.overtaken => h.notify = {g \in Guests : Accepted(g)}
ReadsHold == \A r \in Requests : ReadHolds(request[r])

\* The invitations go with the profile.
CascadeHolds == ~profile => \A g \in Guests : row[g] = NoRow

\* The inductive invariant: what a handler read is true until a commit overtakes it, whence the
\* lists it fills and deletes.
IInv == TypeOK /\ ReadsHold /\ CascadeHolds /\ ListedAsStored
=============================================================================
