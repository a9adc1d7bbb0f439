------------------------------ MODULE BcvRate ------------------------------
(***************************************************************************)
(* The official rate of a calendar day (bcv-rate.service.ts): rows in      *)
(* Postgres, hot copies in the cache (one key per day, 'latest', and a     *)
(* short-lived fallback key per day), DolarApi behind them, and one fetch  *)
(* in flight per day and process.                                          *)
(*                                                                         *)
(* A rate is told by the day on which it came out, so a row whose value is *)
(* an older day holds the rate still in force that day.  DolarApi may fail *)
(* at every call.  One process; a restart loses its handlers.              *)
(***************************************************************************)
EXTENDS Integers

CONSTANTS
  StartDay,    \* the day the service starts on, with an empty database
  LastDay,     \* bound: the days modelled are 1 .. LastDay
  Weekend,     \* the days without a publication of their own
  Requests     \* handlers in flight

ASSUME BcvAssumption ==
  LastDay \in Nat \ {0} /\ StartDay \in 1..LastDay /\ Weekend \subseteq 1..LastDay

VARIABLES
  today,        \* formatYmdInCaracas()
  published,    \* days whose rate DolarApi has
  stored,       \* bCVOfficialRate: [Days -> the value, 0 for no row]
  dayKey,       \* bcv:day:<ymd>
  fallbackKey,  \* bcv:day:<ymd>:fallback
  latestKey,    \* bcv:day:latest
  request,      \* where each handler stands
  crossed       \* history: days whose live rate arrived after their midnight

vars == <<today, published, stored, dayKey, fallbackKey, latestKey, request, crossed>>
cache == <<dayKey, fallbackKey, latestKey>>

Days == 1..LastDay
Rates == [date : 0..LastDay, value : 0..LastDay]
Rate(date, value) == [date |-> date, value |-> value]
NoRate == Rate(0, 0)

\* Phases of the handler that fetches for a day, and what an answer may be.
FetchPhases ==
  {"live", "historico", "ingesting", "upserting", "caching", "deciding", "recaching",
   "lastknown", "pausing"}
Outcomes == {"exact", "fallback", "failed"}
Phases == {"idle", "missed", "unkeyed", "waiting"} \cup FetchPhases \cup Outcomes

\* asked: todayCaracas, read once when the handler starts.  rest: rows of the historico still to
\* ingest.  overtaken (history): the row was written since the rate to write was fetched.
Handlers ==
  [phase : Phases, day : 0..LastDay, asked : 0..LastDay, rate : Rates, rest : SUBSET Days,
   overtaken : BOOLEAN]
Handler(phase, day, asked, rate) ==
  [phase |-> phase, day |-> day, asked |-> asked, rate |-> rate, rest |-> {}, overtaken |-> FALSE]
Idle == Handler("idle", 0, 0, NoRate)

TypeOK ==
  /\ today \in Days
  /\ published \in SUBSET Days
  /\ stored \in [Days -> 0..LastDay]
  /\ dayKey \in [Days -> Rates] /\ fallbackKey \in [Days -> Rates] /\ latestKey \in Rates
  /\ request \in [Requests -> Handlers]
  /\ crossed \in SUBSET Days

Init ==
  /\ today = StartDay
  /\ published = (1..StartDay - 1) \ Weekend
  /\ stored = [d \in Days |-> 0]
  /\ dayKey = [d \in Days |-> NoRate] /\ fallbackKey = [d \in Days |-> NoRate]
  /\ latestKey = NoRate
  /\ request = [r \in Requests |-> Idle]
  /\ crossed = {}

-----------------------------------------------------------------------------
(* Lookups.                                                                *)

\* What findFirst and the cache return: a set of one rate, or none.
Stored == {d \in Days : stored[d] # 0}
Rows(days) == {Rate(d, stored[d]) : d \in days}
Newest(days) == {d \in days : \A e \in days : e <= d}
Oldest(days) == {d \in days : \A e \in days : e >= d}

\* fallbackFromDbForYmd: a weekend looks ahead, a working day without publication looks back.
NearestStored(d) ==
  IF d \in Weekend THEN Rows(Oldest({e \in Stored : e >= d})) ELSE Rows(Newest({e \in Stored : e <= d}))

\* readLatestFromCache, with the day it is by now.
LatestCached == (IF dayKey[today] # NoRate THEN {dayKey[today]} ELSE {latestKey}) \ {NoRate}

\* fallbackToLastKnownRate looks in the cache first, getLatestVesPerUsdPreferToday in Postgres.
LastKnown == IF LatestCached # {} THEN LatestCached ELSE Rows(Newest(Stored))
LastResort == IF Stored # {} THEN Rows(Newest(Stored)) ELSE LatestCached

-----------------------------------------------------------------------------
(* Steps of a handler.                                                     *)

Move(r, next) == request' = [request EXCEPT ![r] = next]
At(r, phase) == [request[r] EXCEPT !.phase = phase]
With(r, phase, rate) == [request[r] EXCEPT !.phase = phase, !.rate = rate]

\* Mutant: the flight ends for its leader only.
ConcludeAlone(r, outcome, rate) ==
  Move(r, Handler(outcome, request[r].day, request[r].asked, rate))

\* The promise of the flight settles: for r and for those who wait on its day.
Conclude(r, outcome, rate) ==
  request' = [q \in Requests |->
    IF q = r \/ (request[q].phase = "waiting" /\ request[q].day = request[r].day)
    THEN Handler(outcome, request[q].day, request[q].asked, rate) ELSE request[q]]

\* getVesPerUsdForCalendarDay, up to the row in Postgres.
Ask(r, d) ==
  /\ request[r] = Idle
  /\ d <= today
  /\ Move(r, IF stored[d] # 0 THEN Handler("exact", d, today, Rate(d, stored[d]))
             ELSE Handler("missed", d, today, NoRate))
  /\ UNCHANGED <<today, published, stored, cache, crossed>>

\* The day's key, taken only if it is of that day.
ReadDayKey(r) ==
  LET d == request[r].day IN
  /\ request[r].phase = "missed"
  /\ Move(r, IF dayKey[d].date = d THEN With(r, "exact", dayKey[d]) ELSE At(r, "unkeyed"))
  /\ UNCHANGED <<today, published, stored, cache, crossed>>

InFlight(d) == \E q \in Requests : request[q].phase \in FetchPhases /\ request[q].day = d

\* Mutant: the date captured at the start is ignored, every fetch is live.
FetchAlwaysLive(r) == "live"

\* resolveDayFromExternalSources branches on the day the handler started on.
FetchPhase(r) == IF request[r].day = request[r].asked THEN "live" ELSE "historico"

\* The fallback key; then pendingDayFetches, with no await before the flight is registered.
ReadFallbackKey(r) ==
  LET d == request[r].day IN
  /\ request[r].phase = "unkeyed"
  /\ Move(r, IF fallbackKey[d] # NoRate THEN With(r, "fallback", fallbackKey[d])
             ELSE IF InFlight(d) THEN At(r, "waiting") ELSE At(r, FetchPhase(r)))
  /\ UNCHANGED <<today, published, stored, cache, crossed>>

\* fetchOfficialLive answers with the rate in force now, which is stored under the day asked.
LiveAnswers(r) ==
  LET d == request[r].day IN
  /\ request[r].phase = "live"
  /\ \E latest \in Newest(published) : Move(r, With(r, "upserting", Rate(d, latest)))
  /\ crossed' = IF today # request[r].asked THEN crossed \cup {d} ELSE crossed
  /\ UNCHANGED <<today, published, stored, cache>>

LiveFails(r) ==
  /\ request[r].phase = "live"
  /\ Move(r, At(r, "lastknown"))
  /\ UNCHANGED <<today, published, stored, cache, crossed>>

\* fetchOfficialHistorico: every day published, with or without the current one.
HistoricoAnswers(r) ==
  /\ request[r].phase = "historico"
  /\ \E list \in {published, published \ {today}} :
       Move(r, [At(r, "ingesting") EXCEPT !.rest = list])
  /\ UNCHANGED <<today, published, stored, cache, crossed>>

\* An answer out of candidates, or what to do when there is none.
ConcludeWith(r, candidates, otherwise) ==
  \/ \E rate \in candidates : Conclude(r, "fallback", rate)
  \/ candidates = {} /\ otherwise

HistoricoFails(r) ==
  /\ request[r].phase = "historico"
  /\ ConcludeWith(r, NearestStored(request[r].day), Move(r, At(r, "lastknown")))
  /\ UNCHANGED <<today, published, stored, cache, crossed>>

\* Mutant: a date takes the rate of the row before it.
IngestRowBefore(r) ==
  /\ request[r].phase = "ingesting"
  /\ IF request[r].rest = {} THEN Move(r, At(r, "deciding"))
     ELSE \E d \in request[r].rest :
            Move(r, [With(r, "upserting", Rate(d, d - 1)) EXCEPT !.rest = @ \ {d}])
  /\ UNCHANGED <<today, published, stored, cache, crossed>>

\* ingestHistoricoRows: the next row, or the end of the list.
IngestRow(r) ==
  /\ request[r].phase = "ingesting"
  /\ IF request[r].rest = {} THEN Move(r, At(r, "deciding"))
     ELSE \E d \in request[r].rest :
            Move(r, [With(r, "upserting", Rate(d, d)) EXCEPT !.rest = @ \ {d}])
  /\ UNCHANGED <<today, published, stored, cache, crossed>>

\* The upsert of persistDayRate and of ingestHistoricoRows, last writer wins.
Upsert(r) ==
  LET rate == request[r].rate IN
  /\ request[r].phase = "upserting"
  /\ stored' = [stored EXCEPT ![rate.date] = rate.value]
  /\ request' = [q \in Requests |->
       IF q = r THEN At(r, "caching")
       ELSE IF request[q].phase = "upserting" /\ request[q].rate.date = rate.date
            THEN [request[q] EXCEPT !.overtaken = TRUE]
       ELSE request[q]]
  /\ UNCHANGED <<today, published, cache, crossed>>

\* writeDayToCache: the day's key, and 'latest' when the day is still today.
WriteDay(rate) ==
  /\ dayKey' = [dayKey EXCEPT ![rate.date] = rate]
  /\ latestKey' = IF rate.date = today THEN rate ELSE latestKey
  /\ UNCHANGED fallbackKey

\* After the live rate the flight ends; after a row of the historico comes the next.
CacheRow(r) ==
  /\ request[r].phase = "caching"
  /\ WriteDay(request[r].rate)
  /\ IF request[r].day = request[r].asked THEN Conclude(r, "exact", request[r].rate)
     ELSE Move(r, [With(r, "ingesting", NoRate) EXCEPT !.overtaken = FALSE])
  /\ UNCHANGED <<today, published, stored, crossed>>

\* The historico is in: the row of the day, or the nearest one, or 400.
Decide(r) ==
  LET d == request[r].day IN
  /\ request[r].phase = "deciding"
  /\ IF stored[d] # 0 THEN Move(r, With(r, "recaching", Rate(d, stored[d])))
     ELSE ConcludeWith(r, NearestStored(d), Conclude(r, "failed", NoRate))
  /\ UNCHANGED <<today, published, stored, cache, crossed>>

Recache(r) ==
  /\ request[r].phase = "recaching"
  /\ WriteDay(request[r].rate)
  /\ Conclude(r, "exact", request[r].rate)
  /\ UNCHANGED <<today, published, stored, crossed>>

FindLastKnown(r) ==
  /\ request[r].phase = "lastknown"
  /\ \/ \E rate \in LastKnown : Move(r, With(r, "pausing", rate))
     \/ LastKnown = {} /\ Conclude(r, "failed", NoRate)
  /\ UNCHANGED <<today, published, stored, cache, crossed>>

\* Mutant: the fallback is kept under the key of the day.
PauseUnderDay(r) ==
  /\ request[r].phase = "pausing"
  /\ dayKey' = [dayKey EXCEPT ![request[r].day] = request[r].rate]
  /\ Conclude(r, "fallback", request[r].rate)
  /\ UNCHANGED <<today, published, stored, fallbackKey, latestKey, crossed>>

\* writeFallbackToCache.
Pause(r) ==
  /\ request[r].phase = "pausing"
  /\ fallbackKey' = [fallbackKey EXCEPT ![request[r].day] = request[r].rate]
  /\ Conclude(r, "fallback", request[r].rate)
  /\ UNCHANGED <<today, published, stored, dayKey, latestKey, crossed>>

\* getLatestVesPerUsdPreferToday catches the failure: Postgres first, then the cache.
Rescue(r) ==
  /\ request[r].phase = "failed" /\ request[r].day = request[r].asked
  /\ \E rate \in LastResort : Move(r, With(r, "fallback", rate))
  /\ UNCHANGED <<today, published, stored, cache, crossed>>

Reply(r) ==
  /\ request[r].phase \in Outcomes
  /\ Move(r, Idle)
  /\ UNCHANGED <<today, published, stored, cache, crossed>>

-----------------------------------------------------------------------------
(* The environment.                                                        *)

Publish ==
  /\ today \notin Weekend \cup published
  /\ published' = published \cup {today}
  /\ UNCHANGED <<today, stored, cache, request, crossed>>

Midnight ==
  /\ today < LastDay
  /\ today' = today + 1
  /\ UNCHANGED <<published, stored, cache, request, crossed>>

\* 26 hours for the rate of today, five minutes for a fallback.
Expire ==
  /\ \/ \E d \in Days :
          \/ /\ d < today /\ dayKey' = [dayKey EXCEPT ![d] = NoRate]
             /\ UNCHANGED <<fallbackKey, latestKey>>
          \/ fallbackKey' = [fallbackKey EXCEPT ![d] = NoRate] /\ UNCHANGED <<dayKey, latestKey>>
     \/ latestKey.date < today /\ latestKey' = NoRate /\ UNCHANGED <<dayKey, fallbackKey>>
  /\ UNCHANGED <<today, published, stored, request, crossed>>

\* The process dies with its handlers and, without Redis, with its cache.
Restart ==
  /\ request' = [r \in Requests |-> Idle]
  /\ \/ UNCHANGED cache
     \/ /\ dayKey' = [d \in Days |-> NoRate] /\ fallbackKey' = [d \in Days |-> NoRate]
        /\ latestKey' = NoRate
  /\ UNCHANGED <<today, published, stored, crossed>>

Handle(r) ==
  \/ ReadDayKey(r) \/ ReadFallbackKey(r)
  \/ LiveAnswers(r) \/ LiveFails(r) \/ HistoricoAnswers(r) \/ HistoricoFails(r)
  \/ IngestRow(r) \/ Upsert(r) \/ CacheRow(r) \/ Decide(r) \/ Recache(r)
  \/ FindLastKnown(r) \/ Pause(r) \/ Rescue(r) \/ Reply(r)

Next ==
  \/ \E r \in Requests : (\E d \in Days : Ask(r, d)) \/ Handle(r)
  \/ Publish \/ Midnight \/ Expire \/ Restart

Spec == Init /\ [][Next]_vars

-----------------------------------------------------------------------------
(* Properties.                                                             *)

\* A rate that was in force on its date, unless its live answer crossed midnight.
InForce(rate) == rate.value <= rate.date \/ rate.date \in crossed

\* F-01: an answer without usedFallback is of the day asked and was in force that day; no
\* fallback, no rate of another day and no later rate passes for it, through Postgres, the
\* cache or the flight of another handler.
ExactIsOfTheDay ==
  \A r \in Requests :
    request[r].phase = "exact" =>
      request[r].rate.date = request[r].day /\ InForce(request[r].rate)

\* What the keys and rows behind those answers hold.
KeysOfTheirDay ==
  \A d \in Days :
    /\ dayKey[d] = NoRate \/ (dayKey[d].date = d /\ InForce(dayKey[d]))
    /\ stored[d] <= d \/ d \in crossed

\* The rate stored for a day never goes back to an older one, but to correct one that crossed
\* midnight, or by a live answer that another write of the row overtook on its way.
StoredNeverGoesBack ==
  [][\A d \in Days :
       stored'[d] >= stored[d] \/ d \in crossed
         \/ \E r \in Requests : /\ request[r].phase = "upserting" /\ request[r].overtaken
                                /\ request[r].rate.date = d /\ request'[r] # request[r]]_vars

\* pendingDayFetches: a day has one flight at a time, and whoever waits on it has one to wait
\* on, whether it ends with a rate, a fallback or an error.
OneFlightPerDay ==
  \A r, q \in Requests :
    /\ request[r].phase \in FetchPhases /\ request[q].phase \in FetchPhases
         /\ request[r].day = request[q].day => r = q
    /\ request[r].phase = "waiting" => InFlight(request[r].day)

\* What each handler carries.
HandlerOK(h) ==
  /\ h.phase # "idle" => h.asked \in 1..today /\ h.day \in 1..h.asked
  /\ h.phase = "live" => h.day = h.asked
  /\ h.phase \in {"historico", "ingesting"} => h.day # h.asked
  /\ h.rest \subseteq published
  /\ h.phase \in {"upserting", "caching"} =>
       /\ h.rate.date \in Days /\ h.rate.value \in published /\ InForce(h.rate)
       /\ h.day = h.asked => h.rate.date = h.day
  /\ h.phase \in {"recaching", "exact"} => h.rate.date = h.day /\ InForce(h.rate)
  /\ h.phase = "upserting" /\ ~h.overtaken =>
       stored[h.rate.date] <= h.rate.value \/ h.rate.date \in crossed

\* Only published rates are stored.
StoredWasPublished ==
  /\ published \subseteq 1..today
  /\ \A d \in Days : stored[d] \in published \cup {0}

\* The inductive invariant: rows, keys and handlers hold rates of their own day, whichever
\* of persistDayRate, ingestHistoricoRows and writeFallbackToCache wrote them.
IInv ==
  /\ TypeOK /\ StoredWasPublished /\ KeysOfTheirDay
  /\ \A r \in Requests : HandlerOK(request[r])
  /\ OneFlightPerDay
=============================================================================
