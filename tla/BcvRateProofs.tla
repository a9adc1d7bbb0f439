--------------------------- MODULE BcvRateProofs ---------------------------
(***************************************************************************)
(* The inductive invariant of BcvRate, for every number of days, weekends  *)
(* and handlers.                                                           *)
(***************************************************************************)
EXTENDS BcvRate, TLAPS

HandlersOK == \A r \in Requests : HandlerOK(request[r])
Data == <<today, published, stored, crossed>>

\* A handler keeps its flight, opens one where there is none, joins one, or has none.
MayFly(r, next) ==
  \/ /\ request[r].phase \in FetchPhases /\ next.phase \in FetchPhases
     /\ next.day = request[r].day
  \/ /\ request[r].phase \notin FetchPhases
     /\ \/ next.phase \notin FetchPhases \cup {"waiting"}
        \/ next.phase = "waiting" /\ InFlight(next.day)
        \/ next.phase \in FetchPhases /\ ~InFlight(next.day)

-----------------------------------------------------------------------------
(* The flights.                                                            *)

LEMMA FlightMove ==
  ASSUME TypeOK, OneFlightPerDay, NEW r \in Requests, NEW next \in Handlers, Move(r, next), MayFly(r, next)
  PROVE  OneFlightPerDay'
<1> USE DEF MayFly
<1>1. request'[r] = next /\ \A q \in Requests : q # r => request'[q] = request[q]
  BY DEF Move, TypeOK
<1>2. ASSUME NEW d, InFlight(d) PROVE InFlight(d)'
  <2>1. PICK q \in Requests : request[q].phase \in FetchPhases /\ request[q].day = d
    BY <1>2 DEF InFlight
  <2>2. CASE q = r
    BY <1>1, <2>1, <2>2 DEF InFlight
  <2>3. CASE q # r
    BY <1>1, <2>1, <2>3 DEF InFlight
  <2> QED
    BY <2>2, <2>3
<1>3. ASSUME NEW p \in Requests, request'[p].phase = "waiting" PROVE InFlight(request[p].day)'
  <2>1. CASE p = r
    <3>1. InFlight(next.day)
      BY <1>1, <1>3, <2>1 DEF FetchPhases
    <3> QED
      BY <1>1, <1>2, <2>1, <3>1
  <2>2. CASE p # r
    <3>1. InFlight(request[p].day)
      BY <1>1, <1>3, <2>2 DEF OneFlightPerDay
    <3> QED
      BY <1>1, <1>2, <2>2, <3>1
  <2> QED
    BY <2>1, <2>2
<1>4. ASSUME NEW p \in Requests, NEW q \in Requests, p # q,
             request'[p].phase \in FetchPhases, request'[q].phase \in FetchPhases,
             request'[p].day = request'[q].day
      PROVE  FALSE
  <2>1. CASE p # r /\ q # r
    BY <1>1, <1>4, <2>1 DEF OneFlightPerDay
  <2>2. ASSUME NEW o \in Requests, o # r, request'[o].phase \in FetchPhases,
               request'[o].day = next.day, next.phase \in FetchPhases
        PROVE  FALSE
    <3>1. request[o].phase \in FetchPhases /\ request[o].day = next.day
      BY <1>1, <2>2
    <3>2. InFlight(next.day)
      BY <3>1 DEF InFlight
    <3>3. request[r].phase \in FetchPhases /\ next.day = request[r].day
      BY <2>2, <3>2 DEF FetchPhases
    <3> QED
      BY <2>2, <3>1, <3>3 DEF OneFlightPerDay
  <2>3. CASE p = r
    BY <1>1, <1>4, <2>2, <2>3
  <2>4. CASE q = r
    BY <1>1, <1>4, <2>2, <2>4
  <2> QED
    BY <2>1, <2>3, <2>4
<1> QED
  BY <1>3, <1>4 DEF OneFlightPerDay

LEMMA FlightConclude ==
  ASSUME TypeOK, OneFlightPerDay, NEW r \in Requests, NEW outcome \in Outcomes, NEW rate \in Rates,
         Conclude(r, outcome, rate), request[r].phase \in FetchPhases
  PROVE  OneFlightPerDay'
<1> DEFINE Settled(q) == q = r \/ (request[q].phase = "waiting" /\ request[q].day = request[r].day)
<1>1. \A q \in Requests : Settled(q) => request'[q].phase = outcome
  BY DEF Conclude, Handler
<1>2. \A q \in Requests : ~Settled(q) => request'[q] = request[q]
  BY DEF Conclude
<1>3. outcome \notin FetchPhases \cup {"waiting"}
  BY DEF Outcomes, FetchPhases
<1>4. ASSUME NEW p \in Requests, request'[p].phase = "waiting" PROVE InFlight(request[p].day)'
  <2>1. ~Settled(p) /\ request'[p] = request[p] /\ request[p].day # request[r].day
    BY <1>1, <1>2, <1>3, <1>4
  <2>2. PICK q \in Requests : request[q].phase \in FetchPhases /\ request[q].day = request[p].day
    BY <1>4, <2>1 DEF OneFlightPerDay, InFlight
  <2>3. ~Settled(q)
    BY <2>1, <2>2 DEF FetchPhases
  <2>4. request'[q] = request[q]
    BY <1>2, <2>3
  <2> QED
    BY <2>1, <2>2, <2>4 DEF InFlight
<1>5. ASSUME NEW p \in Requests, NEW q \in Requests, p # q,
             request'[p].phase \in FetchPhases, request'[q].phase \in FetchPhases,
             request'[p].day = request'[q].day
      PROVE  FALSE
  <2>1. request'[p] = request[p] /\ request'[q] = request[q]
    BY <1>1, <1>2, <1>3, <1>5
  <2> QED
    BY <1>5, <2>1 DEF OneFlightPerDay
<1> QED
  BY <1>4, <1>5 DEF OneFlightPerDay

-----------------------------------------------------------------------------
(* Handlers and data.                                                      *)

LEMMA AtRow ==
  ASSUME TypeOK, NEW r \in Requests, NEW phase \in Phases, NEW rate \in Rates
  PROVE  /\ At(r, phase) \in Handlers /\ With(r, phase, rate) \in Handlers
         /\ At(r, phase).phase = phase /\ With(r, phase, rate).phase = phase
         /\ At(r, phase).day = request[r].day /\ With(r, phase, rate).day = request[r].day
         /\ At(r, phase).asked = request[r].asked /\ With(r, phase, rate).asked = request[r].asked
         /\ At(r, phase).rest = request[r].rest /\ With(r, phase, rate).rest = request[r].rest
         /\ At(r, phase).rate = request[r].rate /\ With(r, phase, rate).rate = rate
<1>1. request[r] \in Handlers
  BY DEF TypeOK
<1> QED
  BY <1>1 DEF At, With, Handlers

LEMMA HandlerRow ==
  ASSUME NEW phase \in Phases, NEW d \in 0..LastDay, NEW a \in 0..LastDay, NEW rate \in Rates
  PROVE  /\ Handler(phase, d, a, rate) \in Handlers
         /\ Handler(phase, d, a, rate).phase = phase
         /\ Handler(phase, d, a, rate).day = d
         /\ Handler(phase, d, a, rate).asked = a
         /\ Handler(phase, d, a, rate).rate = rate
         /\ Handler(phase, d, a, rate).rest = {}
BY DEF Handler, Handlers

LEMMA NoRateRow == NoRate \in Rates /\ NoRate.date = 0
BY BcvAssumption DEF NoRate, Rate, Rates

LEMMA IdleRow == Idle \in Handlers /\ Idle.phase = "idle" /\ Idle.rest = {}
BY BcvAssumption, NoRateRow, HandlerRow DEF Idle, Phases

\* A step that moves one handler and leaves the data alone.
LEMMA MoveKeeps ==
  ASSUME IInv, NEW r \in Requests, NEW next \in Handlers, Move(r, next), HandlerOK(next),
         UNCHANGED Data
  PROVE  request' \in [Requests -> Handlers] /\ HandlersOK'
<1>1. request'[r] = next /\ \A q \in Requests : q # r => request'[q] = request[q]
  BY DEF Move, TypeOK, IInv
<1>2. \A q \in Requests : HandlerOK(request[q])'
  <2> SUFFICES ASSUME NEW q \in Requests PROVE HandlerOK(request[q])'
    OBVIOUS
  <2>1. request'[q] = next \/ request'[q] = request[q]
    BY <1>1
  <2>2. HandlerOK(request'[q])
    BY <2>1 DEF IInv
  <2> QED
    BY <2>2 DEF HandlerOK, InForce, Data
<1> QED
  BY <1>2 DEF IInv, TypeOK, Move, HandlersOK

LEMMA ConcludeKeeps ==
  ASSUME IInv, NEW r \in Requests, NEW outcome \in Outcomes, NEW rate \in Rates,
         Conclude(r, outcome, rate), request[r].phase \in FetchPhases,
         outcome = "exact" => rate.date = request[r].day /\ InForce(rate),
         UNCHANGED Data
  PROVE  request' \in [Requests -> Handlers] /\ HandlersOK' /\ OneFlightPerDay'
<1>0. TypeOK /\ HandlersOK /\ OneFlightPerDay /\ outcome \in Phases
  BY DEF IInv, HandlersOK, Phases, Outcomes
<1>1. \A q \in Requests : request[q] \in Handlers /\ request[q].day \in 0..LastDay /\ request[q].asked \in 0..LastDay
  BY <1>0 DEF TypeOK, Handlers
<1>2. ASSUME NEW q \in Requests PROVE request'[q] \in Handlers /\ HandlerOK(request[q])'
  <2>1. CASE q = r \/ (request[q].phase = "waiting" /\ request[q].day = request[r].day)
    <3> DEFINE h == Handler(outcome, request[q].day, request[q].asked, rate)
    <3>1. request'[q] = h
      BY <2>1 DEF Conclude
    <3>2. /\ h \in Handlers /\ h.phase = outcome /\ h.day = request[q].day
          /\ h.asked = request[q].asked /\ h.rate = rate /\ h.rest = {}
      BY <1>0, <1>1, HandlerRow
    <3>3. request[q].phase # "idle" /\ request[q].day = request[r].day
      BY <2>1 DEF FetchPhases
    <3>4. request[q].asked \in 1..today /\ request[q].day \in 1..request[q].asked
      BY <1>0, <3>3 DEF HandlersOK, HandlerOK
    <3> HIDE DEF h
    <3>5. HandlerOK(h)
      BY <3>2, <3>3, <3>4 DEF HandlerOK, Outcomes
    <3> QED
      BY <3>1, <3>2, <3>5 DEF HandlerOK, InForce, Data
  <2>2. CASE ~(q = r \/ (request[q].phase = "waiting" /\ request[q].day = request[r].day))
    <3>1. request'[q] = request[q]
      BY <2>2 DEF Conclude
    <3> QED
      BY <1>0, <1>1, <3>1 DEF HandlersOK, HandlerOK, InForce, Data
  <2> QED
    BY <2>1, <2>2
<1>3. request' \in [Requests -> Handlers]
  BY <1>2 DEF Conclude
<1> QED
  BY <1>0, <1>2, <1>3, FlightConclude DEF HandlersOK

-----------------------------------------------------------------------------
(* The invariant, step by step.                                            *)

\* A step that only moves a handler.
LEMMA MoveOnly ==
  ASSUME IInv, NEW r \in Requests, NEW next \in Handlers, Move(r, next), HandlerOK(next),
         MayFly(r, next), UNCHANGED <<today, published, stored, cache, crossed>>
  PROVE  IInv'
<1>1. request' \in [Requests -> Handlers] /\ HandlersOK'
  BY MoveKeeps DEF Data
<1>2. OneFlightPerDay'
  BY FlightMove DEF IInv
<1>3. TypeOK'
  BY <1>1 DEF IInv, TypeOK, cache
<1>4. StoredWasPublished' /\ KeysOfTheirDay'
  BY DEF IInv, StoredWasPublished, KeysOfTheirDay, InForce, cache
<1> QED
  BY <1>1, <1>2, <1>3, <1>4 DEF IInv, HandlersOK

\* A step that ends a flight, with whatever it leaves in the keys.
LEMMA ConcludeOnly ==
  ASSUME IInv, NEW r \in Requests, NEW outcome \in Outcomes, NEW rate \in Rates,
         Conclude(r, outcome, rate), request[r].phase \in FetchPhases,
         outcome = "exact" => rate.date = request[r].day /\ InForce(rate),
         UNCHANGED <<today, published, stored, crossed>>,
         dayKey' \in [Days -> Rates], fallbackKey' \in [Days -> Rates], latestKey' \in Rates,
         \A d \in Days :
           dayKey'[d] = dayKey[d] \/ (dayKey'[d].date = d /\ InForce(dayKey'[d]))
  PROVE  IInv'
<1>1. request' \in [Requests -> Handlers] /\ HandlersOK' /\ OneFlightPerDay'
  BY ConcludeKeeps DEF Data
<1>2. TypeOK'
  BY <1>1 DEF IInv, TypeOK
<1>3. StoredWasPublished' /\ KeysOfTheirDay'
  BY DEF IInv, StoredWasPublished, KeysOfTheirDay, InForce
<1> QED
  BY <1>1, <1>2, <1>3 DEF IInv, HandlersOK

\* What IInv says of the handler that takes a step.
LEMMA HandlerFacts ==
  ASSUME IInv, NEW r \in Requests
  PROVE  /\ request[r] \in Handlers /\ HandlerOK(request[r])
         /\ request[r].day \in 0..LastDay /\ request[r].asked \in 0..LastDay
         /\ request[r].rate \in Rates /\ today \in Days
         /\ request[r].phase # "idle" => request[r].day \in Days
         /\ request[r].rest \subseteq Days
<1>1. request[r] \in Handlers /\ HandlerOK(request[r]) /\ today \in Days
  BY DEF IInv, TypeOK
<1> QED
  BY <1>1, BcvAssumption DEF HandlerOK, Handlers, Days

\* The rate of a stored row, and the candidates picked among the rows.
LEMMA StoredRate ==
  ASSUME IInv, NEW d \in Days
  PROVE  Rate(d, stored[d]) \in Rates /\ Rate(d, stored[d]).date = d
           /\ Rate(d, stored[d]).value = stored[d] /\ InForce(Rate(d, stored[d]))
<1>1. stored[d] \in 0..LastDay /\ (stored[d] <= d \/ d \in crossed)
  BY DEF IInv, TypeOK, KeysOfTheirDay
<1> QED
  BY <1>1, BcvAssumption DEF Rate, Rates, InForce, Days

LEMMA Candidates ==
  ASSUME IInv
  PROVE  /\ \A d \in Days : NearestStored(d) \subseteq Rates
         /\ LastKnown \subseteq Rates /\ LastResort \subseteq Rates
<1>1. \A D \in SUBSET Days : Rows(D) \subseteq Rates
  BY StoredRate DEF Rows
<1>2. \A D \in SUBSET Days : Newest(D) \in SUBSET Days /\ Oldest(D) \in SUBSET Days
  BY DEF Newest, Oldest
<1>3. Stored \in SUBSET Days
  BY DEF Stored
<1>4. LatestCached \subseteq Rates
  BY DEF LatestCached, IInv, TypeOK
<1>5. ASSUME NEW d \in Days PROVE NearestStored(d) \subseteq Rates
  <2>1. {e \in Stored : e >= d} \in SUBSET Days /\ {e \in Stored : e <= d} \in SUBSET Days
    BY <1>3
  <2> QED
    BY <1>1, <1>2, <2>1 DEF NearestStored
<1> QED
  BY <1>1, <1>2, <1>3, <1>4, <1>5 DEF LastKnown, LastResort

LEMMA AskKeeps == IInv /\ (\E r \in Requests, d \in Days : Ask(r, d)) => IInv'
<1> SUFFICES ASSUME IInv, NEW r \in Requests, NEW d \in Days, Ask(r, d) PROVE IInv'
  OBVIOUS
<1>1. /\ d \in 0..LastDay /\ today \in 0..LastDay /\ today \in 1..today /\ d \in 1..today
      /\ "exact" \in Phases /\ "missed" \in Phases /\ request[r].phase = "idle"
  BY HandlerFacts, IdleRow, BcvAssumption DEF Ask, Days, Phases, Outcomes
<1>2. CASE stored[d] # 0
  <2> DEFINE next == Handler("exact", d, today, Rate(d, stored[d]))
  <2>1. /\ next \in Handlers /\ next.phase = "exact" /\ next.day = d /\ next.asked = today
        /\ next.rate = Rate(d, stored[d]) /\ next.rest = {} /\ Move(r, next)
    BY <1>1, <1>2, StoredRate, HandlerRow DEF Ask
  <2> HIDE DEF next
  <2>2. HandlerOK(next)
    BY <1>1, <2>1, StoredRate DEF HandlerOK
  <2>3. MayFly(r, next)
    BY <1>1, <2>1 DEF MayFly, FetchPhases
  <2> QED
    BY <2>1, <2>2, <2>3, MoveOnly DEF Ask
<1>3. CASE ~(stored[d] # 0)
  <2> DEFINE next == Handler("missed", d, today, NoRate)
  <2>1. /\ next \in Handlers /\ next.phase = "missed" /\ next.day = d /\ next.asked = today
        /\ next.rest = {} /\ Move(r, next)
    BY <1>1, <1>3, NoRateRow, HandlerRow DEF Ask
  <2> HIDE DEF next
  <2>2. HandlerOK(next)
    BY <1>1, <2>1 DEF HandlerOK
  <2>3. MayFly(r, next)
    BY <1>1, <2>1 DEF MayFly, FetchPhases
  <2> QED
    BY <2>1, <2>2, <2>3, MoveOnly DEF Ask
<1> QED
  BY <1>2, <1>3

\* A handler under way to a phase that promises nothing of the rate it carries.
LEMMA PlainMove ==
  ASSUME IInv, NEW r \in Requests, NEW phase \in Phases, NEW rate \in Rates,
         NEW next \in {At(r, phase), With(r, phase, rate)}, Move(r, next),
         request[r].phase # "idle",
         phase \notin {"upserting", "caching", "recaching", "exact"},
         phase = "live" => request[r].day = request[r].asked,
         phase \in {"historico", "ingesting"} => request[r].day # request[r].asked,
         MayFly(r, next), UNCHANGED <<today, published, stored, cache, crossed>>
  PROVE  IInv'
<1>1. TypeOK /\ HandlerOK(request[r])
  BY DEF IInv
<1>2. /\ next \in Handlers /\ next.phase = phase /\ next.day = request[r].day
      /\ next.asked = request[r].asked /\ next.rest = request[r].rest
  BY <1>1, AtRow
<1>3. HandlerOK(next)
  BY <1>1, <1>2 DEF HandlerOK
<1> QED
  BY <1>2, <1>3, MoveOnly

LEMMA ReadDayKeyKeeps == IInv /\ (\E r \in Requests : ReadDayKey(r)) => IInv'
<1> SUFFICES ASSUME IInv, NEW r \in Requests, ReadDayKey(r) PROVE IInv'
  OBVIOUS
<1> DEFINE d == request[r].day
<1>1. /\ TypeOK /\ d \in Days /\ request[r].phase = "missed" /\ HandlerOK(request[r])
      /\ "exact" \in Phases /\ "unkeyed" \in Phases /\ dayKey[d] \in Rates
  BY HandlerFacts DEF ReadDayKey, Phases, Outcomes, IInv, TypeOK
<1>2. CASE dayKey[d].date = d
  <2> DEFINE next == With(r, "exact", dayKey[d])
  <2>1. /\ next \in Handlers /\ next.phase = "exact" /\ next.day = d
        /\ next.asked = request[r].asked /\ next.rate = dayKey[d]
        /\ next.rest = request[r].rest /\ Move(r, next)
    BY <1>1, <1>2, AtRow DEF ReadDayKey
  <2>2. InForce(dayKey[d])
    BY <1>1, <1>2, NoRateRow DEF IInv, KeysOfTheirDay, Days
  <2> HIDE DEF next
  <2>3. HandlerOK(next)
    BY <1>1, <1>2, <2>1, <2>2 DEF HandlerOK
  <2>4. MayFly(r, next)
    BY <1>1, <2>1 DEF MayFly, FetchPhases
  <2> QED
    BY <2>1, <2>3, <2>4, MoveOnly DEF ReadDayKey
<1>3. CASE dayKey[d].date # d
  <2>1. Move(r, At(r, "unkeyed")) /\ At(r, "unkeyed").phase = "unkeyed"
    BY <1>1, <1>3, AtRow, NoRateRow DEF ReadDayKey
  <2>2. MayFly(r, At(r, "unkeyed"))
    BY <1>1, <2>1 DEF MayFly, FetchPhases
  <2> QED
    BY <1>1, <2>1, <2>2, PlainMove, NoRateRow DEF ReadDayKey
<1> QED
  BY <1>2, <1>3

LEMMA ReadFallbackKeyKeeps == IInv /\ (\E r \in Requests : ReadFallbackKey(r)) => IInv'
<1> SUFFICES ASSUME IInv, NEW r \in Requests, ReadFallbackKey(r) PROVE IInv'
  OBVIOUS
<1> DEFINE d == request[r].day
<1>1. /\ TypeOK /\ d \in Days /\ request[r].phase = "unkeyed"
      /\ "fallback" \in Phases /\ "waiting" \in Phases /\ FetchPhase(r) \in Phases
      /\ fallbackKey[d] \in Rates
  BY HandlerFacts DEF ReadFallbackKey, Phases, Outcomes, IInv, TypeOK, FetchPhase, FetchPhases
<1>2. CASE fallbackKey[d] # NoRate
  <2> DEFINE next == With(r, "fallback", fallbackKey[d])
  <2>1. Move(r, next) /\ next.phase = "fallback"
    BY <1>1, <1>2, AtRow DEF ReadFallbackKey
  <2> HIDE DEF next
  <2>2. MayFly(r, next)
    BY <1>1, <2>1 DEF MayFly, FetchPhases
  <2> QED
    BY <1>1, <2>1, <2>2, PlainMove DEF ReadFallbackKey, next
<1>3. CASE fallbackKey[d] = NoRate /\ InFlight(d)
  <2>1. Move(r, At(r, "waiting")) /\ At(r, "waiting").phase = "waiting" /\ At(r, "waiting").day = d
    BY <1>1, <1>3, AtRow, NoRateRow DEF ReadFallbackKey
  <2>2. MayFly(r, At(r, "waiting"))
    BY <1>1, <1>3, <2>1 DEF MayFly, FetchPhases
  <2> QED
    BY <1>1, <2>1, <2>2, PlainMove, NoRateRow DEF ReadFallbackKey
<1>4. CASE fallbackKey[d] = NoRate /\ ~InFlight(d)
  <2> DEFINE next == At(r, FetchPhase(r))
  <2>1. Move(r, next) /\ next.phase = FetchPhase(r) /\ next.day = d
    BY <1>1, <1>4, AtRow, NoRateRow DEF ReadFallbackKey
  <2> HIDE DEF next
  <2>2. MayFly(r, next)
    BY <1>1, <1>4, <2>1 DEF MayFly, FetchPhases, FetchPhase
  <2>3. /\ FetchPhase(r) \notin {"upserting", "caching", "recaching", "exact"}
        /\ FetchPhase(r) = "live" => request[r].day = request[r].asked
        /\ FetchPhase(r) \in {"historico", "ingesting"} => request[r].day # request[r].asked
    BY DEF FetchPhase
  <2> QED
    BY <1>1, <2>1, <2>2, <2>3, PlainMove, NoRateRow DEF ReadFallbackKey, next
<1> QED
  BY <1>2, <1>3, <1>4

\* Only published days have rows, and no row is newer than the newest of them.
LEMMA NewestPublished ==
  ASSUME IInv, NEW latest \in Newest(published)
  PROVE  /\ latest \in published /\ latest \in 1..today /\ latest \in Days
         /\ \A d \in Days : stored[d] <= latest
<1>1. /\ latest \in published /\ published \subseteq 1..today /\ today \in Days
      /\ \A e \in published : e <= latest
      /\ \A d \in Days : stored[d] \in published \cup {0}
  BY DEF Newest, IInv, TypeOK, StoredWasPublished
<1>2. latest \in 1..today /\ latest \in Days
  BY <1>1, BcvAssumption DEF Days
<1>3. ASSUME NEW d \in Days PROVE stored[d] <= latest
  <2>1. stored[d] \in published \/ stored[d] = 0
    BY <1>1
  <2>2. CASE stored[d] \in published
    BY <1>1, <2>2
  <2>3. CASE stored[d] = 0
    BY <1>2, <2>3
  <2> QED
    BY <2>1, <2>2, <2>3
<1> QED
  BY <1>1, <1>2, <1>3

LEMMA LiveAnswersKeeps == IInv /\ (\E r \in Requests : LiveAnswers(r)) => IInv'
<1> SUFFICES ASSUME IInv, NEW r \in Requests, LiveAnswers(r) PROVE IInv'
  OBVIOUS
<1> DEFINE d == request[r].day
<1>1. /\ TypeOK /\ request[r].phase = "live" /\ HandlerOK(request[r])
      /\ d \in Days /\ d = request[r].asked /\ d \in 1..today /\ today \in Days
  BY HandlerFacts DEF LiveAnswers, IInv, HandlerOK
<1>2. PICK latest \in Newest(published) : Move(r, With(r, "upserting", Rate(d, latest)))
  BY DEF LiveAnswers
<1>3. /\ latest \in published /\ latest \in 1..today /\ latest \in Days
      /\ stored[d] <= latest
  BY <1>1, NewestPublished
<1> DEFINE rate == Rate(d, latest)
           next == With(r, "upserting", rate)
<1>4. rate \in Rates /\ rate.date = d /\ rate.value = latest
  BY <1>1, <1>3, BcvAssumption DEF Rate, Rates, Days
<1>5. /\ next \in Handlers /\ next.phase = "upserting" /\ next.day = d /\ next.asked = d
      /\ next.rate = rate /\ next.rest = request[r].rest
  BY <1>1, <1>4, AtRow DEF Phases, FetchPhases
<1>6. crossed \subseteq crossed' /\ crossed' \in SUBSET Days /\ (latest <= d \/ d \in crossed')
  <2>1. today = d \/ d \in crossed'
    BY <1>1 DEF LiveAnswers
  <2>2. today = d => latest <= d
    BY <1>1, <1>3
  <2> QED
    BY <1>1, <2>1, <2>2 DEF LiveAnswers, TypeOK
<1>7. Move(r, next) /\ MayFly(r, next)
  BY <1>1, <1>2, <1>5 DEF MayFly, FetchPhases
<1> HIDE DEF next, rate
<1>8. request'[r] = next /\ \A q \in Requests : q # r => request'[q] = request[q]
  BY <1>1, <1>7 DEF Move, TypeOK
<1>9. UNCHANGED <<today, published, stored, dayKey, fallbackKey, latestKey>>
  BY DEF LiveAnswers, cache
<1>10. ASSUME NEW q \in Requests PROVE HandlerOK(request[q])'
  <2>1. CASE q # r
    <3>1. HandlerOK(request[q]) /\ request'[q] = request[q]
      BY <1>8, <2>1 DEF IInv
    <3> QED
      BY <1>6, <1>9, <3>1 DEF HandlerOK, InForce
  <2>2. CASE q = r
    BY <1>1, <1>3, <1>4, <1>5, <1>6, <1>8, <1>9, <2>2 DEF HandlerOK, InForce
  <2> QED
    BY <2>1, <2>2
<1>11. request' \in [Requests -> Handlers]
  BY <1>1, <1>5, <1>7 DEF Move, TypeOK
<1>12. TypeOK'
  BY <1>1, <1>6, <1>9, <1>11 DEF TypeOK
<1>13. StoredWasPublished' /\ KeysOfTheirDay'
  BY <1>6, <1>9 DEF IInv, StoredWasPublished, KeysOfTheirDay, InForce
<1>14. OneFlightPerDay'
  BY <1>1, <1>5, <1>7, FlightMove DEF IInv
<1> QED
  BY <1>10, <1>12, <1>13, <1>14 DEF IInv

LEMMA LiveFailsKeeps == IInv /\ (\E r \in Requests : LiveFails(r)) => IInv'
<1> SUFFICES ASSUME IInv, NEW r \in Requests, LiveFails(r) PROVE IInv'
  OBVIOUS
<1>1. TypeOK /\ request[r].phase = "live" /\ "lastknown" \in Phases
  BY DEF LiveFails, IInv, Phases, FetchPhases
<1>2. /\ Move(r, At(r, "lastknown")) /\ At(r, "lastknown").phase = "lastknown"
      /\ At(r, "lastknown").day = request[r].day
  BY <1>1, AtRow, NoRateRow DEF LiveFails
<1>3. MayFly(r, At(r, "lastknown"))
  BY <1>1, <1>2 DEF MayFly, FetchPhases
<1> QED
  BY <1>1, <1>2, <1>3, PlainMove, NoRateRow DEF LiveFails

LEMMA HistoricoAnswersKeeps == IInv /\ (\E r \in Requests : HistoricoAnswers(r)) => IInv'
<1> SUFFICES ASSUME IInv, NEW r \in Requests, HistoricoAnswers(r) PROVE IInv'
  OBVIOUS
<1>1. /\ TypeOK /\ request[r].phase = "historico" /\ request[r] \in Handlers
      /\ HandlerOK(request[r]) /\ "ingesting" \in Phases /\ published \subseteq Days
  BY HandlerFacts DEF HistoricoAnswers, IInv, TypeOK, Phases, FetchPhases
<1>2. PICK list \in {published, published \ {today}} :
        Move(r, [At(r, "ingesting") EXCEPT !.rest = list])
  BY DEF HistoricoAnswers
<1> DEFINE next == [At(r, "ingesting") EXCEPT !.rest = list]
<1>3. /\ next \in Handlers /\ next.phase = "ingesting" /\ next.day = request[r].day
      /\ next.asked = request[r].asked /\ next.rest = list /\ list \subseteq published
  BY <1>1, <1>2 DEF At, Handlers
<1>4. Move(r, next)
  BY <1>2
<1> HIDE DEF next
<1>5. HandlerOK(next)
  BY <1>1, <1>3 DEF HandlerOK
<1>6. MayFly(r, next)
  BY <1>1, <1>3 DEF MayFly, FetchPhases
<1> QED
  BY <1>3, <1>4, <1>5, <1>6, MoveOnly DEF HistoricoAnswers

\* A flight that ends with one of the candidates, as a fallback.
LEMMA FallbackKeeps ==
  ASSUME IInv, NEW r \in Requests, NEW outcome \in {"fallback", "failed"}, NEW rate \in Rates,
         Conclude(r, outcome, rate), request[r].phase \in FetchPhases,
         UNCHANGED <<today, published, stored, cache, crossed>>
  PROVE  IInv'
<1>1. outcome \in Outcomes /\ outcome # "exact"
  BY DEF Outcomes
<1>2. /\ dayKey' \in [Days -> Rates] /\ fallbackKey' \in [Days -> Rates] /\ latestKey' \in Rates
      /\ dayKey' = dayKey
  BY DEF IInv, TypeOK, cache
<1> QED
  BY <1>1, <1>2, ConcludeOnly

LEMMA HistoricoFailsKeeps == IInv /\ (\E r \in Requests : HistoricoFails(r)) => IInv'
<1> SUFFICES ASSUME IInv, NEW r \in Requests, HistoricoFails(r) PROVE IInv'
  OBVIOUS
<1>1. /\ TypeOK /\ request[r].phase = "historico" /\ request[r].day \in Days
      /\ "lastknown" \in Phases
  BY HandlerFacts DEF HistoricoFails, IInv, Phases, FetchPhases
<1>2. CASE \E rate \in NearestStored(request[r].day) : Conclude(r, "fallback", rate)
  <2>1. PICK rate \in NearestStored(request[r].day) : Conclude(r, "fallback", rate)
    BY <1>2
  <2>2. rate \in Rates /\ request[r].phase \in FetchPhases
    BY <1>1, <2>1, Candidates DEF FetchPhases
  <2> QED
    BY <2>1, <2>2, FallbackKeeps DEF HistoricoFails
<1>3. CASE Move(r, At(r, "lastknown"))
  <2>1. At(r, "lastknown").phase = "lastknown" /\ At(r, "lastknown").day = request[r].day
    BY <1>1, AtRow, NoRateRow
  <2>2. MayFly(r, At(r, "lastknown"))
    BY <1>1, <2>1 DEF MayFly, FetchPhases
  <2> QED
    BY <1>1, <1>3, <2>1, <2>2, PlainMove, NoRateRow DEF HistoricoFails
<1> QED
  BY <1>2, <1>3 DEF HistoricoFails, ConcludeWith

LEMMA IngestRowKeeps == IInv /\ (\E r \in Requests : IngestRow(r)) => IInv'
<1> SUFFICES ASSUME IInv, NEW r \in Requests, IngestRow(r) PROVE IInv'
  OBVIOUS
<1>1. /\ TypeOK /\ request[r].phase = "ingesting" /\ request[r] \in Handlers
      /\ HandlerOK(request[r]) /\ "upserting" \in Phases /\ "deciding" \in Phases
      /\ request[r].rest \subseteq Days /\ request[r].rest \subseteq published
  BY HandlerFacts DEF IngestRow, IInv, HandlerOK, Phases, FetchPhases
<1>2. CASE request[r].rest = {}
  <2>1. /\ Move(r, At(r, "deciding")) /\ At(r, "deciding").phase = "deciding"
        /\ At(r, "deciding").day = request[r].day
    BY <1>1, <1>2, AtRow, NoRateRow DEF IngestRow
  <2>2. MayFly(r, At(r, "deciding"))
    BY <1>1, <2>1 DEF MayFly, FetchPhases
  <2> QED
    BY <1>1, <2>1, <2>2, PlainMove, NoRateRow DEF IngestRow
<1>3. CASE request[r].rest # {}
  <2>1. PICK d \in request[r].rest :
          Move(r, [With(r, "upserting", Rate(d, d)) EXCEPT !.rest = @ \ {d}])
    BY <1>3 DEF IngestRow
  <2> DEFINE next == [With(r, "upserting", Rate(d, d)) EXCEPT !.rest = @ \ {d}]
  <2>2. /\ Rate(d, d) \in Rates /\ Rate(d, d).date = d /\ Rate(d, d).value = d
        /\ d \in Days /\ d \in published
    BY <1>1, <2>1, BcvAssumption DEF Rate, Rates, Days
  <2>3. /\ next \in Handlers /\ next.phase = "upserting" /\ next.day = request[r].day
        /\ next.asked = request[r].asked /\ next.rate = Rate(d, d)
        /\ next.rest \subseteq request[r].rest
    BY <1>1, <2>1, <2>2 DEF With, Handlers
  <2>4. Move(r, next)
    BY <2>1
  <2> HIDE DEF next
  <2>5. stored[d] <= d \/ d \in crossed
    BY <2>2 DEF IInv, KeysOfTheirDay
  <2>6. HandlerOK(next)
    BY <1>1, <2>2, <2>3, <2>5 DEF HandlerOK, InForce, Days
  <2>7. MayFly(r, next)
    BY <1>1, <2>3 DEF MayFly, FetchPhases
  <2> QED
    BY <2>3, <2>4, <2>6, <2>7, MoveOnly DEF IngestRow
<1> QED
  BY <1>2, <1>3

LEMMA UpsertKeeps == IInv /\ (\E r \in Requests : Upsert(r)) => IInv'
<1> SUFFICES ASSUME IInv, NEW r \in Requests, Upsert(r) PROVE IInv'
  OBVIOUS
<1> DEFINE rate == request[r].rate
<1>1. /\ TypeOK /\ request[r].phase = "upserting" /\ request[r] \in Handlers
      /\ HandlerOK(request[r]) /\ rate \in Rates
      /\ rate.date \in Days /\ rate.value \in published /\ InForce(rate)
      /\ "caching" \in Phases /\ rate.value \in 0..LastDay
  BY HandlerFacts DEF Upsert, IInv, HandlerOK, Phases, FetchPhases, Rates
<1>2. /\ stored' = [stored EXCEPT ![rate.date] = rate.value]
      /\ UNCHANGED <<today, published, dayKey, fallbackKey, latestKey, crossed>>
  BY DEF Upsert, cache
<1>3. /\ stored' \in [Days -> 0..LastDay] /\ stored'[rate.date] = rate.value
      /\ \A d \in Days : d # rate.date => stored'[d] = stored[d]
  BY <1>1, <1>2 DEF TypeOK
<1>4. /\ At(r, "caching") \in Handlers /\ At(r, "caching").phase = "caching"
      /\ At(r, "caching").day = request[r].day /\ At(r, "caching").asked = request[r].asked
      /\ At(r, "caching").rest = request[r].rest /\ At(r, "caching").rate = rate
  BY <1>1, AtRow
<1>5. request'[r] = At(r, "caching")
  BY DEF Upsert
<1>6. ASSUME NEW q \in Requests
      PROVE  /\ request'[q] \in Handlers /\ HandlerOK(request[q])'
             /\ request'[q].day = request[q].day
             /\ q # r => request'[q].phase = request[q].phase
  <2>1. request[q] \in Handlers /\ HandlerOK(request[q])
    BY HandlerFacts
  <2>2. CASE q = r
    BY <1>1, <1>2, <1>4, <1>5, <2>2 DEF HandlerOK, InForce
  <2>3. CASE q # r /\ request[q].phase = "upserting" /\ request[q].rate.date = rate.date
    <3> DEFINE next == [request[q] EXCEPT !.overtaken = TRUE]
    <3>1. request'[q] = next
      BY <2>3 DEF Upsert
    <3>2. /\ next \in Handlers /\ next.phase = "upserting" /\ next.day = request[q].day
          /\ next.asked = request[q].asked /\ next.rest = request[q].rest
          /\ next.rate = request[q].rate /\ next.overtaken = TRUE
      BY <2>1, <2>3 DEF Handlers
    <3> HIDE DEF next
    <3> QED
      BY <1>2, <2>1, <2>3, <3>1, <3>2 DEF HandlerOK, InForce
  <2>4. CASE q # r /\ ~(request[q].phase = "upserting" /\ request[q].rate.date = rate.date)
    <3>1. request'[q] = request[q]
      BY <2>4 DEF Upsert
    <3>2. request[q].phase = "upserting" =>
            request[q].rate.date \in Days /\ request[q].rate.date # rate.date
      BY <2>1, <2>4 DEF HandlerOK
    <3>3. request[q].phase = "upserting" => stored'[request[q].rate.date] = stored[request[q].rate.date]
      BY <1>3, <3>2
    <3> QED
      BY <1>2, <2>1, <2>4, <3>1, <3>3 DEF HandlerOK, InForce
  <2> QED
    BY <2>2, <2>3, <2>4
<1>7. request' \in [Requests -> Handlers]
  BY <1>6 DEF Upsert
<1>8. TypeOK'
  BY <1>1, <1>2, <1>3, <1>7 DEF TypeOK
<1>9. StoredWasPublished' /\ KeysOfTheirDay'
  BY <1>1, <1>2, <1>3 DEF IInv, StoredWasPublished, KeysOfTheirDay, InForce
<1>10. OneFlightPerDay'
  <2>1. \A q \in Requests : /\ request'[q].day = request[q].day
                            /\ request'[q].phase \in FetchPhases <=> request[q].phase \in FetchPhases
                            /\ request'[q].phase = "waiting" => request[q].phase = "waiting"
    <3> SUFFICES ASSUME NEW q \in Requests
                 PROVE  /\ request'[q].day = request[q].day
                        /\ request'[q].phase \in FetchPhases <=> request[q].phase \in FetchPhases
                        /\ request'[q].phase = "waiting" => request[q].phase = "waiting"
      OBVIOUS
    <3> QED
      BY <1>1, <1>4, <1>5, <1>6 DEF FetchPhases
  <2> QED
    BY <2>1 DEF IInv, OneFlightPerDay, InFlight
<1> QED
  BY <1>6, <1>8, <1>9, <1>10 DEF IInv

\* What writeDayToCache leaves in the keys.
LEMMA WriteDayKeeps ==
  ASSUME IInv, NEW rate \in Rates, WriteDay(rate), rate.date \in Days, InForce(rate)
  PROVE  /\ dayKey' \in [Days -> Rates] /\ fallbackKey' \in [Days -> Rates] /\ latestKey' \in Rates
         /\ \A d \in Days :
              dayKey'[d] = dayKey[d] \/ (dayKey'[d].date = d /\ InForce(dayKey'[d]))
BY DEF WriteDay, IInv, TypeOK

LEMMA CacheRowKeeps == IInv /\ (\E r \in Requests : CacheRow(r)) => IInv'
<1> SUFFICES ASSUME IInv, NEW r \in Requests, CacheRow(r) PROVE IInv'
  OBVIOUS
<1> DEFINE rate == request[r].rate
<1>1. /\ TypeOK /\ request[r].phase = "caching" /\ request[r] \in Handlers
      /\ HandlerOK(request[r]) /\ rate \in Rates /\ rate.date \in Days /\ InForce(rate)
      /\ request[r].day = request[r].asked => rate.date = request[r].day
      /\ "ingesting" \in Phases /\ UNCHANGED <<today, published, stored, crossed>>
  BY HandlerFacts DEF CacheRow, IInv, HandlerOK, Phases, FetchPhases
<1>2. /\ dayKey' \in [Days -> Rates] /\ fallbackKey' \in [Days -> Rates] /\ latestKey' \in Rates
      /\ \A d \in Days :
           dayKey'[d] = dayKey[d] \/ (dayKey'[d].date = d /\ InForce(dayKey'[d]))
  BY <1>1, WriteDayKeeps DEF CacheRow
<1>3. CASE request[r].day = request[r].asked
  <2>1. Conclude(r, "exact", rate)
    BY <1>3 DEF CacheRow
  <2>2. "exact" \in Outcomes /\ request[r].phase \in FetchPhases
    BY <1>1 DEF Outcomes, FetchPhases
  <2> HIDE DEF rate
  <2> QED
    BY <1>1, <1>2, <1>3, <2>1, <2>2, ConcludeOnly
<1>4. CASE request[r].day # request[r].asked
  <2> DEFINE next == [With(r, "ingesting", NoRate) EXCEPT !.overtaken = FALSE]
  <2>1. Move(r, next)
    BY <1>4 DEF CacheRow
  <2>2. /\ next \in Handlers /\ next.phase = "ingesting" /\ next.day = request[r].day
        /\ next.asked = request[r].asked /\ next.rest = request[r].rest
    BY <1>1, NoRateRow DEF With, Handlers
  <2> HIDE DEF next
  <2>3. HandlerOK(next)
    BY <1>1, <1>4, <2>2 DEF HandlerOK
  <2>4. MayFly(r, next)
    BY <1>1, <2>2 DEF MayFly, FetchPhases
  <2>5. request' \in [Requests -> Handlers] /\ HandlersOK'
    BY <1>1, <2>1, <2>2, <2>3, MoveKeeps DEF Data
  <2>6. OneFlightPerDay'
    BY <2>1, <2>2, <2>4, FlightMove DEF IInv
  <2>7. TypeOK'
    BY <1>1, <1>2, <2>5 DEF TypeOK
  <2>8. StoredWasPublished' /\ KeysOfTheirDay'
    BY <1>1, <1>2 DEF IInv, StoredWasPublished, KeysOfTheirDay, InForce
  <2> QED
    BY <2>5, <2>6, <2>7, <2>8 DEF IInv, HandlersOK
<1> QED
  BY <1>3, <1>4

LEMMA DecideKeeps == IInv /\ (\E r \in Requests : Decide(r)) => IInv'
<1> SUFFICES ASSUME IInv, NEW r \in Requests, Decide(r) PROVE IInv'
  OBVIOUS
<1> DEFINE d == request[r].day
<1>1. /\ TypeOK /\ request[r].phase = "deciding" /\ d \in Days /\ HandlerOK(request[r])
      /\ "recaching" \in Phases /\ request[r].phase \in FetchPhases
  BY HandlerFacts DEF Decide, IInv, Phases, FetchPhases
<1>2. CASE stored[d] # 0
  <2> DEFINE next == With(r, "recaching", Rate(d, stored[d]))
  <2>1. /\ next \in Handlers /\ next.phase = "recaching" /\ next.day = d
        /\ next.asked = request[r].asked /\ next.rate = Rate(d, stored[d])
        /\ next.rest = request[r].rest /\ Move(r, next)
    BY <1>1, <1>2, StoredRate, AtRow DEF Decide
  <2> HIDE DEF next
  <2>2. Rate(d, stored[d]).date = d /\ InForce(Rate(d, stored[d]))
    BY <1>1, StoredRate
  <2>3. HandlerOK(next)
    BY <1>1, <2>1, <2>2 DEF HandlerOK
  <2>4. MayFly(r, next)
    BY <1>1, <2>1 DEF MayFly, FetchPhases
  <2> QED
    BY <2>1, <2>3, <2>4, MoveOnly DEF Decide
<1>3. CASE stored[d] = 0
  <2>1. \/ \E rate \in NearestStored(d) : Conclude(r, "fallback", rate)
        \/ Conclude(r, "failed", NoRate)
    BY <1>3 DEF Decide, ConcludeWith
  <2>2. CASE \E rate \in NearestStored(d) : Conclude(r, "fallback", rate)
    <3>1. PICK rate \in NearestStored(d) : Conclude(r, "fallback", rate)
      BY <2>2
    <3>2. rate \in Rates
      BY <1>1, <3>1, Candidates
    <3> QED
      BY <1>1, <3>1, <3>2, FallbackKeeps DEF Decide
  <2>3. CASE Conclude(r, "failed", NoRate)
    BY <1>1, <2>3, NoRateRow, FallbackKeeps DEF Decide
  <2> QED
    BY <2>1, <2>2, <2>3
<1> QED
  BY <1>2, <1>3

LEMMA RecacheKeeps == IInv /\ (\E r \in Requests : Recache(r)) => IInv'
<1> SUFFICES ASSUME IInv, NEW r \in Requests, Recache(r) PROVE IInv'
  OBVIOUS
<1> DEFINE rate == request[r].rate
<1>1. /\ request[r].phase = "recaching" /\ request[r].phase \in FetchPhases
      /\ rate \in Rates /\ rate.date \in Days /\ rate.date = request[r].day /\ InForce(rate)
      /\ Conclude(r, "exact", rate) /\ "exact" \in Outcomes
      /\ UNCHANGED <<today, published, stored, crossed>>
  BY HandlerFacts DEF Recache, HandlerOK, FetchPhases, Outcomes
<1>2. /\ dayKey' \in [Days -> Rates] /\ fallbackKey' \in [Days -> Rates] /\ latestKey' \in Rates
      /\ \A d \in Days :
           dayKey'[d] = dayKey[d] \/ (dayKey'[d].date = d /\ InForce(dayKey'[d]))
  BY <1>1, WriteDayKeeps DEF Recache
<1> HIDE DEF rate
<1> QED
  BY <1>1, <1>2, ConcludeOnly

LEMMA FindLastKnownKeeps == IInv /\ (\E r \in Requests : FindLastKnown(r)) => IInv'
<1> SUFFICES ASSUME IInv, NEW r \in Requests, FindLastKnown(r) PROVE IInv'
  OBVIOUS
<1>1. /\ TypeOK /\ request[r].phase = "lastknown" /\ request[r].phase \in FetchPhases
      /\ "pausing" \in Phases
  BY DEF FindLastKnown, IInv, Phases, FetchPhases
<1>2. CASE \E rate \in LastKnown : Move(r, With(r, "pausing", rate))
  <2>1. PICK rate \in LastKnown : Move(r, With(r, "pausing", rate))
    BY <1>2
  <2>2. rate \in Rates
    BY <2>1, Candidates
  <2> DEFINE next == With(r, "pausing", rate)
  <2>3. Move(r, next) /\ next.phase = "pausing" /\ next.day = request[r].day
    BY <1>1, <2>1, <2>2, AtRow
  <2> HIDE DEF next
  <2>4. MayFly(r, next)
    BY <1>1, <2>3 DEF MayFly, FetchPhases
  <2> QED
    BY <1>1, <2>2, <2>3, <2>4, PlainMove DEF FindLastKnown, next
<1>3. CASE Conclude(r, "failed", NoRate)
  BY <1>1, <1>3, NoRateRow, FallbackKeeps DEF FindLastKnown
<1> QED
  BY <1>2, <1>3 DEF FindLastKnown

LEMMA PauseKeeps == IInv /\ (\E r \in Requests : Pause(r)) => IInv'
<1> SUFFICES ASSUME IInv, NEW r \in Requests, Pause(r) PROVE IInv'
  OBVIOUS
<1> DEFINE rate == request[r].rate
<1>1. /\ request[r].phase \in FetchPhases /\ rate \in Rates /\ "fallback" \in Outcomes
      /\ Conclude(r, "fallback", rate)
      /\ UNCHANGED <<today, published, stored, dayKey, latestKey, crossed>>
  BY HandlerFacts DEF Pause, FetchPhases, Outcomes
<1>2. /\ dayKey' \in [Days -> Rates] /\ fallbackKey' \in [Days -> Rates] /\ latestKey' \in Rates
      /\ dayKey' = dayKey
  BY <1>1 DEF Pause, IInv, TypeOK
<1> HIDE DEF rate
<1> QED
  BY <1>1, <1>2, ConcludeOnly

LEMMA RescueKeeps == IInv /\ (\E r \in Requests : Rescue(r)) => IInv'
<1> SUFFICES ASSUME IInv, NEW r \in Requests, Rescue(r) PROVE IInv'
  OBVIOUS
<1>1. TypeOK /\ request[r].phase = "failed" /\ "fallback" \in Phases
  BY DEF Rescue, IInv, Phases, Outcomes
<1>2. PICK rate \in LastResort : Move(r, With(r, "fallback", rate))
  BY DEF Rescue
<1>3. rate \in Rates
  BY <1>2, Candidates
<1> DEFINE next == With(r, "fallback", rate)
<1>4. Move(r, next) /\ next.phase = "fallback"
  BY <1>1, <1>2, <1>3, AtRow
<1> HIDE DEF next
<1>5. MayFly(r, next)
  BY <1>1, <1>4 DEF MayFly, FetchPhases
<1> QED
  BY <1>1, <1>3, <1>4, <1>5, PlainMove DEF Rescue, next

LEMMA ReplyKeeps == IInv /\ (\E r \in Requests : Reply(r)) => IInv'
<1> SUFFICES ASSUME IInv, NEW r \in Requests, Reply(r) PROVE IInv'
  OBVIOUS
<1>1. HandlerOK(Idle)
  BY IdleRow DEF HandlerOK
<1>2. MayFly(r, Idle)
  BY IdleRow DEF Reply, MayFly, Outcomes, FetchPhases
<1> QED
  BY <1>1, <1>2, IdleRow, MoveOnly DEF Reply

\* A step that leaves the handlers alone and lets days pass or come out.
LEMMA EnvironmentKeeps ==
  ASSUME IInv, today \in 1..today', today' \in Days, published \subseteq published',
         published' \subseteq 1..today', dayKey' \in [Days -> Rates],
         fallbackKey' \in [Days -> Rates], latestKey' \in Rates,
         \A d \in Days : dayKey'[d] = dayKey[d] \/ dayKey'[d] = NoRate,
         UNCHANGED <<stored, request, crossed>>
  PROVE  IInv'
<1>1. \A r \in Requests : HandlerOK(request[r])'
  <2> SUFFICES ASSUME NEW r \in Requests PROVE HandlerOK(request[r])'
    OBVIOUS
  <2>1. HandlerOK(request[r]) /\ today \in Int /\ today' \in Int /\ today <= today'
    BY BcvAssumption DEF IInv, TypeOK, Days
  <2>2. request[r].phase # "idle" =>
          request[r].asked \in 1..today' /\ request[r].day \in 1..request[r].asked
    BY <2>1 DEF HandlerOK
  <2>3. request' = request /\ stored' = stored /\ crossed' = crossed
    OBVIOUS
  <2> QED
    BY <2>1, <2>2, <2>3 DEF HandlerOK, InForce
<1>2. TypeOK'
  <2>1. published' \subseteq Days
    BY BcvAssumption DEF Days
  <2> QED
    BY <2>1 DEF IInv, TypeOK
<1>3. StoredWasPublished' /\ KeysOfTheirDay'
  BY DEF IInv, StoredWasPublished, KeysOfTheirDay, InForce
<1>4. OneFlightPerDay'
  BY DEF IInv, OneFlightPerDay, InFlight
<1> QED
  BY <1>1, <1>2, <1>3, <1>4 DEF IInv

LEMMA PublishKeeps == IInv /\ Publish => IInv'
<1> SUFFICES ASSUME IInv, Publish PROVE IInv'
  OBVIOUS
<1>1. today \in Days /\ published \subseteq 1..today
  BY DEF IInv, TypeOK, StoredWasPublished
<1>2. today' = today /\ today \in 1..today /\ published' \subseteq 1..today
  BY <1>1 DEF Publish, Days
<1> QED
  BY <1>1, <1>2, EnvironmentKeeps DEF Publish, cache, IInv, TypeOK

LEMMA MidnightKeeps == IInv /\ Midnight => IInv'
<1> SUFFICES ASSUME IInv, Midnight PROVE IInv'
  OBVIOUS
<1>1. today \in Days /\ published \subseteq 1..today
  BY DEF IInv, TypeOK, StoredWasPublished
<1>2. today' \in Days /\ today \in 1..today' /\ published \subseteq 1..today'
  BY <1>1, BcvAssumption DEF Midnight, Days
<1> QED
  BY <1>1, <1>2, EnvironmentKeeps DEF Midnight, cache, IInv, TypeOK

LEMMA ExpireKeeps == IInv /\ Expire => IInv'
<1> SUFFICES ASSUME IInv, Expire PROVE IInv'
  OBVIOUS
<1>1. today \in Days /\ published \subseteq 1..today /\ today \in 1..today
  BY DEF IInv, TypeOK, StoredWasPublished, Days
<1>2. /\ dayKey' \in [Days -> Rates] /\ fallbackKey' \in [Days -> Rates] /\ latestKey' \in Rates
      /\ \A d \in Days : dayKey'[d] = dayKey[d] \/ dayKey'[d] = NoRate
  BY NoRateRow DEF Expire, IInv, TypeOK
<1> QED
  BY <1>1, <1>2, EnvironmentKeeps DEF Expire

LEMMA RestartKeeps == IInv /\ Restart => IInv'
<1> SUFFICES ASSUME IInv, Restart PROVE IInv'
  OBVIOUS
<1>1. request' = [r \in Requests |-> Idle] /\ UNCHANGED <<today, published, stored, crossed>>
  BY DEF Restart
<1>2. /\ dayKey' \in [Days -> Rates] /\ fallbackKey' \in [Days -> Rates] /\ latestKey' \in Rates
      /\ \A d \in Days : dayKey'[d] = dayKey[d] \/ dayKey'[d] = NoRate
  BY NoRateRow DEF Restart, cache, IInv, TypeOK
<1>3. TypeOK'
  BY <1>1, <1>2, IdleRow DEF IInv, TypeOK
<1>4. StoredWasPublished' /\ KeysOfTheirDay'
  BY <1>1, <1>2 DEF IInv, StoredWasPublished, KeysOfTheirDay, InForce
<1>5. \A r \in Requests : request'[r].phase = "idle" /\ request'[r].rest = {}
  BY <1>1, IdleRow
<1>6. \A r \in Requests : HandlerOK(request[r])'
  BY <1>5 DEF HandlerOK
<1>7. OneFlightPerDay'
  BY <1>5 DEF OneFlightPerDay, FetchPhases
<1> QED
  BY <1>3, <1>4, <1>6, <1>7 DEF IInv

-----------------------------------------------------------------------------
(* The theorems.                                                           *)

LEMMA InitInvariant == Init => IInv
<1> SUFFICES ASSUME Init PROVE IInv
  OBVIOUS
<1>1. \A r \in Requests : request[r].phase = "idle" /\ request[r].rest = {} /\ request[r] \in Handlers
  BY IdleRow DEF Init
<1>2. TypeOK
  BY <1>1, NoRateRow, BcvAssumption, IdleRow DEF Init, TypeOK, Days
<1>3. StoredWasPublished /\ KeysOfTheirDay
  BY BcvAssumption DEF Init, StoredWasPublished, KeysOfTheirDay, Days
<1>4. OneFlightPerDay /\ \A r \in Requests : HandlerOK(request[r])
  BY <1>1 DEF OneFlightPerDay, FetchPhases, HandlerOK
<1> QED
  BY <1>2, <1>3, <1>4 DEF IInv

LEMMA NextInvariant == IInv /\ [Next]_vars => IInv'
<1> SUFFICES ASSUME IInv, [Next]_vars PROVE IInv'
  OBVIOUS
<1>1. CASE \E r \in Requests : (\E d \in Days : Ask(r, d)) \/ Handle(r)
  BY <1>1, AskKeeps, ReadDayKeyKeeps, ReadFallbackKeyKeeps, LiveAnswersKeeps, LiveFailsKeeps,
     HistoricoAnswersKeeps, HistoricoFailsKeeps, IngestRowKeeps, UpsertKeeps, CacheRowKeeps,
     DecideKeeps, RecacheKeeps, FindLastKnownKeeps, PauseKeeps, RescueKeeps, ReplyKeeps
  DEF Handle
<1>2. CASE Publish \/ Midnight \/ Expire \/ Restart
  BY <1>2, PublishKeeps, MidnightKeeps, ExpireKeeps, RestartKeeps
<1>3. CASE UNCHANGED vars
  BY <1>3 DEF vars, IInv, TypeOK, StoredWasPublished, KeysOfTheirDay, HandlerOK, InForce,
              OneFlightPerDay, InFlight
<1> QED
  BY <1>1, <1>2, <1>3 DEF Next

\* The invariant of bcv-rate.service.ts: the keys hold rates of their own day, what each handler
\* carries may be stored or answered where it is going, and a day has one flight.
THEOREM BcvInvariant == Spec => []IInv
<1> QED
  BY InitInvariant, NextInvariant, PTL DEF Spec

\* An answer without usedFallback is of the day asked, and was in force that day.
THEOREM ExactIsOfTheDayHolds == Spec => []ExactIsOfTheDay
<1>1. IInv => ExactIsOfTheDay
  BY DEF IInv, HandlerOK, ExactIsOfTheDay
<1> QED
  BY <1>1, BcvInvariant, PTL

\* One fetch per day in a process, and nobody waits on a flight that has ended.
THEOREM OneFlightPerDayHolds == Spec => []OneFlightPerDay
<1>1. IInv => OneFlightPerDay
  BY DEF IInv
<1> QED
  BY <1>1, BcvInvariant, PTL

\* The rate stored for a day goes back only through a write that another one overtook, or to
\* correct an answer that crossed midnight.
THEOREM StoredNeverGoesBackHolds == Spec => StoredNeverGoesBack
<1> DEFINE Kept(d) ==
      stored'[d] >= stored[d] \/ d \in crossed
        \/ \E r \in Requests : /\ request[r].phase = "upserting" /\ request[r].overtaken
                               /\ request[r].rate.date = d /\ request'[r] # request[r]
<1>1. IInv /\ [Next]_vars => [\A d \in Days : Kept(d)]_vars
  <2> SUFFICES ASSUME IInv, Next, NEW d \in Days PROVE Kept(d)
    OBVIOUS
  <2>1. stored \in [Days -> 0..LastDay]
    BY DEF IInv, TypeOK
  <2>2. CASE UNCHANGED stored
    BY <2>1, <2>2
  <2>3. ASSUME NEW r \in Requests, Upsert(r) PROVE Kept(d)
    <3>1. /\ HandlerOK(request[r]) /\ request[r].phase = "upserting"
          /\ stored' = [stored EXCEPT ![request[r].rate.date] = request[r].rate.value]
          /\ request[r].rate.date \in Days /\ request[r].rate.value \in 0..LastDay
          /\ request'[r] = At(r, "caching") /\ At(r, "caching").phase = "caching"
      BY <2>3, HandlerFacts, AtRow DEF Upsert, HandlerOK, Rates, Phases, FetchPhases, IInv
    <3>2. CASE request[r].rate.date # d
      BY <2>1, <3>1, <3>2
    <3>3. CASE request[r].rate.date = d /\ request[r].overtaken
      BY <3>1, <3>3
    <3>4. CASE request[r].rate.date = d /\ ~request[r].overtaken
      BY <2>1, <3>1, <3>4 DEF HandlerOK
    <3> QED
      BY <3>2, <3>3, <3>4
  <2>4. UNCHANGED stored \/ \E r \in Requests : Upsert(r)
    BY DEF Next, Handle, Ask, ReadDayKey, ReadFallbackKey, LiveAnswers, LiveFails,
           HistoricoAnswers, HistoricoFails, IngestRow, CacheRow, Decide, Recache,
           FindLastKnown, Pause, Rescue, Reply, Publish, Midnight, Expire, Restart
  <2> QED
    BY <2>2, <2>3, <2>4
<1> QED
  BY <1>1, BcvInvariant, PTL DEF Spec, StoredNeverGoesBack
=============================================================================
