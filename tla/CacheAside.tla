----------------------------- MODULE CacheAside -----------------------------
(***************************************************************************)
(* The cached reads in front of Postgres: the inventory summary of a       *)
(* profile (getSummary) and the profile list of a user                     *)
(* (listProfilesForUser).  Both follow one protocol: get the key; on a     *)
(* miss run several queries, which see the database at different moments,  *)
(* and set the key with a time to live; every mutation deletes the key     *)
(* after its commit, best effort.                                          *)
(*                                                                         *)
(* Abstracted: the data, to the number of the last commit each query saw;  *)
(* one key (keys never interact); hits, which change nothing; absolute     *)
(* time, to the time to live an entry has left.                            *)
(***************************************************************************)
EXTENDS Integers

CONSTANTS
  Handlers,     \* readers and writers in flight
  Queries,      \* the queries whose answers are cached together
  Ttl,          \* INVENTORY_SUMMARY_TTL_MS, PROFILE_LIST_TTL_MS
  MaxVersion    \* bound: commits

ASSUME CacheAsideAssumption ==
  /\ Ttl \in Nat \ {0}
  /\ MaxVersion \in Nat

VARIABLES
  redis,     \* TRUE with REDIS_URL, FALSE with the memory of one process
  version,   \* commits so far that change what the queries return
  entry,     \* what is stored under the key, for how long, and its history
  handler    \* where each handler stands

cacheVars == <<redis, version, entry, handler>>

Unread == -1
Seen == [Queries -> Unread..MaxVersion]
NothingSeen == [q \in Queries |-> Unread]

\* left = 0: no entry.  overtaken (history): a commit overtook the reader that set it.
Entry == [seen : Seen, left : 0..Ttl, overtaken : BOOLEAN]
HandlerRow == [phase : {"idle", "reading", "invalidating"}, seen : Seen, overtaken : BOOLEAN]

EntryOf(seen, left, overtaken) == [seen |-> seen, left |-> left, overtaken |-> overtaken]
At(phase, seen, overtaken) == [phase |-> phase, seen |-> seen, overtaken |-> overtaken]

AtRest == At("idle", NothingSeen, FALSE)
NoEntry == EntryOf(NothingSeen, 0, FALSE)

CacheTypeOK ==
  /\ redis \in BOOLEAN
  /\ version \in 0..MaxVersion
  /\ entry \in Entry
  /\ handler \in [Handlers -> HandlerRow]

\* initRedisIfConfigured: the configuration of the process decides.
CacheInit ==
  /\ redis \in BOOLEAN
  /\ version = 0
  /\ entry = NoEntry
  /\ handler = [r \in Handlers |-> AtRest]

-----------------------------------------------------------------------------
(* The reader.                                                             *)

\* A miss; with Redis an error of GET counts as one.
Miss(r) ==
  /\ handler[r] = AtRest
  /\ entry.left = 0 \/ redis
  /\ handler' = [handler EXCEPT ![r] = At("reading", NothingSeen, FALSE)]
  /\ UNCHANGED <<redis, version, entry>>

\* One of the queries of the miss answers.
Query(r, q) ==
  /\ handler[r].phase = "reading"
  /\ handler[r].seen[q] = Unread
  /\ handler' = [handler EXCEPT ![r].seen[q] = version]
  /\ UNCHANGED <<redis, version, entry>>

HasRead(r) == handler[r].phase = "reading" /\ \A q \in Queries : handler[r].seen[q] # Unread

\* Mutant: a time to live one tick too long.
FillTooLong(r) ==
  /\ HasRead(r)
  /\ entry' = EntryOf(handler[r].seen, Ttl + 1, handler[r].overtaken)
  /\ handler' = [handler EXCEPT ![r] = AtRest]
  /\ UNCHANGED <<redis, version>>

\* set: whatever the entry is by now.
Fill(r) ==
  /\ HasRead(r)
  /\ entry' = EntryOf(handler[r].seen, Ttl, handler[r].overtaken)
  /\ handler' = [handler EXCEPT ![r] = AtRest]
  /\ UNCHANGED <<redis, version>>

-----------------------------------------------------------------------------
(* The writer.                                                             *)

\* A commit overtakes the readers in flight.
Overtake(o) == IF o.phase = "reading" THEN At("reading", o.seen, TRUE) ELSE o

CommitVersion(r) ==
  /\ handler[r] = AtRest
  /\ version < MaxVersion
  /\ version' = version + 1
  /\ handler' = [p \in Handlers |->
                   IF p = r THEN At("invalidating", NothingSeen, FALSE) ELSE Overtake(handler[p])]
  /\ UNCHANGED <<redis, entry>>

\* Mutant: the deletion touches another key.
InvalidateNothing(r) ==
  /\ handler[r].phase = "invalidating"
  /\ handler' = [handler EXCEPT ![r] = AtRest]
  /\ UNCHANGED <<redis, version, entry>>

Invalidate(r) ==
  /\ handler[r].phase = "invalidating"
  /\ entry' = NoEntry
  /\ handler' = [handler EXCEPT ![r] = AtRest]
  /\ UNCHANGED <<redis, version>>

-----------------------------------------------------------------------------
(* The environment.                                                        *)

\* set and del swallow an error of Redis.
RedisError(r) ==
  /\ redis
  /\ handler[r].phase = "invalidating" \/ HasRead(r)
  /\ handler' = [handler EXCEPT ![r] = AtRest]
  /\ UNCHANGED <<redis, version, entry>>

\* The process dies with its requests, and with its memory.
Restart ==
  /\ handler # [r \in Handlers |-> AtRest]
  /\ handler' = [r \in Handlers |-> AtRest]
  /\ entry' = IF redis THEN entry ELSE NoEntry
  /\ UNCHANGED <<redis, version>>

\* Mutant: nothing ever expires.
Frozen == UNCHANGED cacheVars

\* Time passes: the entry expires.
Age ==
  /\ entry.left > 0
  /\ entry' = IF entry.left = 1 THEN NoEntry ELSE [entry EXCEPT !.left = @ - 1]
  /\ UNCHANGED <<redis, version, handler>>

Advance(r) == (\E q \in Queries : Query(r, q)) \/ Fill(r) \/ Invalidate(r) \/ RedisError(r)

CacheNext ==
  \/ \E r \in Handlers : Miss(r) \/ CommitVersion(r) \/ Advance(r)
  \/ Restart
  \/ Age

CacheSpec == CacheInit /\ [][CacheNext]_cacheVars

\* Time passes, and a handler that started ends: its queries answer and the client of
\* Redis gives up after maxRetriesPerRequest.
FairCacheSpec == CacheSpec /\ WF_cacheVars(Age) /\ \A r \in Handlers : WF_cacheVars(Advance(r))

-----------------------------------------------------------------------------
(* Properties.                                                             *)

Stale == entry.left > 0 /\ \E q \in Queries : entry.seen[q] # version
NoWriter == \A r \in Handlers : handler[r].phase # "invalidating"

\* In the memory of one process the cache is exact, except between a commit and its own
\* deletion, and after a reader that a commit overtook between its queries and its set.
StaleOnlyWhenOvertaken == ~redis /\ Stale => entry.overtaken \/ ~NoWriter

\* What a reader that no commit overtook has read is still so.
ReadersInv ==
  \A r \in Handlers :
    LET o == handler[r] IN
    o.phase = "reading" /\ ~o.overtaken => \A q \in Queries : o.seen[q] \in {Unread, version}

\* The inductive invariant.
CacheInv == CacheTypeOK /\ ReadersInv /\ StaleOnlyWhenOvertaken

\* Whatever races, deletions lost by Redis and restarts left behind, once commits stop the
\* cache ends up exact for good: nobody keeps a stale entry alive.
Settles == <>[]~Stale
=============================================================================
