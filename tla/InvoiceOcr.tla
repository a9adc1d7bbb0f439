----------------------------- MODULE InvoiceOcr -----------------------------
(***************************************************************************)
(* POST /ocr/parse-invoice (ocr.service.ts): Tesseract and a cloud engine  *)
(* side by side, Cloud Vision under a monthly quota counted in the cache,  *)
(* or Ollama, whose model is looked up the first time.                     *)
(*                                                                         *)
(* With Redis the quota is checked and consumed in two calls, each of      *)
(* which may fail; without it both happen before anything else in the      *)
(* process runs.  Engines answer, fail or do not answer at all.            *)
(***************************************************************************)
EXTENDS InvoiceText, FiniteSets

CONSTANTS
  Requests,
  Limit,            \* GOOGLE_VISION_MONTHLY_LIMIT
  LastMonth,        \* bound: months modelled
  Readings,         \* transcripts Tesseract may return
  Transcriptions    \* transcripts the cloud engine may return

ASSUME OcrAssumption ==
  /\ Limit \in Nat \ {0} /\ LastMonth \in Nat \ {0}
  /\ IsFiniteSet(Requests) /\ Requests # {}
  /\ Readings \cup Transcriptions \subseteq Transcripts
  /\ \A t \in Readings : t.quality # "echo"

VARIABLES
  engine,     \* "vision", "ollama" or "none": what the configuration enables
  redis,      \* whether the cache has one
  month,      \* the month of quotaKey
  counter,    \* [Months -> vision:quota:<month>]
  worker,     \* workerPromise of Tesseract: "none", "starting", "ready" or "broken"
  model,      \* resolvedModel of Ollama: "probing" (startup), "unknown" or "known"
  request,    \* where each handler stands
  reserved    \* history: the Vision calls of the month checked and counted by a Redis that answered,
              \* or in the memory of the process

vars == <<engine, redis, month, counter, worker, model, request, reserved>>
quota == <<month, counter, reserved>>
config == <<engine, redis>>

Months == 1..LastMonth
CounterCap == Limit + Cardinality(Requests)   \* bound: the counter stays there, above the limit

\* A leg that is not needed is "off"; one with a transcript is done.
Off == [state |-> "off", text |-> Nothing]
Leg(state) == [state |-> state, text |-> Nothing]
Read(text) == [state |-> "done", text |-> text]

\* genuine (history): Redis answered when the quota was checked.
Handler(phase, tess, cloud) ==
  [phase |-> phase, tess |-> tess, cloud |-> cloud, genuine |-> FALSE, answer |-> Answer(0, 0, "")]
Idle == Handler("idle", Off, Off)
Running(cloud) == Handler("running", Leg("queued"), cloud)

\* What is answered to one transcript, and to each pair of them.
Alone == [t \in Readings |-> FromTesseract(t)]
Both == [t \in Readings |-> [c \in Transcriptions \cup {Nothing} |-> Merged(t, c)]]

Phases == {"idle", "checking", "consuming", "running", "answered", "failed"}

Init ==
  /\ engine \in {"vision", "ollama", "none"}
  /\ redis \in BOOLEAN
  /\ month = 1 /\ counter = [m \in Months |-> 0] /\ reserved = 0
  /\ worker = "none"
  /\ model = IF engine = "ollama" THEN "probing" ELSE "unknown"
  /\ request = [r \in Requests |-> Idle]

-----------------------------------------------------------------------------
(* The quota.                                                              *)

Move(r, next) == request' = [request EXCEPT ![r] = next]

Increment == counter' = [counter EXCEPT ![month] = IF @ < CounterCap THEN @ + 1 ELSE @]

\* parseInvoice accepted the image.  In memory the quota is checked and consumed in one go.
Submit(r) ==
  /\ request[r] = Idle
  /\ IF engine = "vision" /\ redis THEN Move(r, Handler("checking", Off, Off)) /\ UNCHANGED quota
     ELSE IF engine = "vision" /\ counter[month] < Limit
          THEN /\ Move(r, Running(Leg("calling")))
               /\ Increment /\ reserved' = reserved + 1 /\ UNCHANGED month
     ELSE /\ Move(r, Running(IF engine = "ollama" THEN Leg("resolving") ELSE Off))
          /\ UNCHANGED quota
  /\ UNCHANGED <<config, worker, model>>

\* canConsume: a Redis that fails counts as nothing used.
CanConsume(r) ==
  /\ request[r].phase = "checking"
  /\ \E answers \in BOOLEAN :
       Move(r, IF answers /\ counter[month] >= Limit THEN Running(Off)
               ELSE [request[r] EXCEPT !.phase = "consuming", !.genuine = answers])
  /\ UNCHANGED <<config, quota, worker, model>>

\* Mutant: Vision is called and nothing is counted.
ConsumeNothing(r) ==
  /\ request[r].phase = "consuming"
  /\ reserved' = reserved + 1
  /\ Move(r, Running(Leg("calling")))
  /\ UNCHANGED <<config, month, counter, worker, model>>

\* consume: one that fails is counted in a memory nobody reads.  Either way Vision is called.
Consume(r) ==
  /\ request[r].phase = "consuming"
  /\ \/ /\ Increment
        /\ reserved' = IF request[r].genuine THEN reserved + 1 ELSE reserved
     \/ UNCHANGED <<counter, reserved>>
  /\ Move(r, Running(Leg("calling")))
  /\ UNCHANGED <<config, month, worker, model>>

-----------------------------------------------------------------------------
(* The engines.                                                            *)

Tess(r, leg) == Move(r, [request[r] EXCEPT !.tess = leg])
Cloud(r, leg) == Move(r, [request[r] EXCEPT !.cloud = leg])
RunningLeg(r, leg, state) == request[r].phase = "running" /\ request[r][leg].state = state

\* getWorker: the first caller starts the worker, the others await the same promise.
AwaitWorker(r) ==
  /\ RunningLeg(r, "tess", "queued")
  /\ worker' = IF worker = "none" THEN "starting" ELSE worker
  /\ Tess(r, Leg("waiting"))
  /\ UNCHANGED <<config, quota, model>>

\* A worker that could not start stays so: the rejected promise is kept.
WorkerSettles ==
  /\ worker = "starting"
  /\ worker' \in {"ready", "broken"}
  /\ UNCHANGED <<config, quota, model, request>>

Recognize(r) ==
  /\ RunningLeg(r, "tess", "waiting")
  /\ \/ worker = "ready" /\ \E t \in Readings : Tess(r, Read(t))
     \/ worker \in {"ready", "broken"} /\ Tess(r, Leg("failed"))
  /\ UNCHANGED <<config, quota, worker, model>>

\* ensureModelResolved: what Ollama lists may lack the model; no answer at all is thrown.
ResolveModel(r) ==
  /\ RunningLeg(r, "cloud", "resolving")
  /\ \/ Cloud(r, Leg("calling")) /\ model' \in (IF model = "known" THEN {model} ELSE {model, "known"})
     \/ model # "known" /\ Cloud(r, Leg("failed")) /\ UNCHANGED model
  /\ UNCHANGED <<config, quota, worker>>

\* probeOllamaReachable at startup.
Probe ==
  /\ model = "probing"
  /\ model' \in {"unknown", "known"}
  /\ UNCHANGED <<config, quota, worker, request>>

Transcribe(r) ==
  /\ RunningLeg(r, "cloud", "calling")
  /\ \E t \in Transcriptions : Cloud(r, Read(t))
  /\ UNCHANGED <<config, quota, worker, model>>

\* Mutant: the call to Vision has no timer.
GiveUpOnOllama(r) ==
  /\ RunningLeg(r, "cloud", "calling") /\ engine = "ollama"
  /\ Cloud(r, Read(Nothing))
  /\ UNCHANGED <<config, quota, worker, model>>

\* Mutant: an error of the cloud engine is not caught.
GiveUpThrows(r) ==
  /\ RunningLeg(r, "cloud", "calling")
  /\ Cloud(r, Leg("failed"))
  /\ UNCHANGED <<config, quota, worker, model>>

\* An error, or the timer of withTimeout and of callChat: an empty transcript.
GiveUp(r) ==
  /\ RunningLeg(r, "cloud", "calling")
  /\ Cloud(r, Read(Nothing))
  /\ UNCHANGED <<config, quota, worker, model>>

-----------------------------------------------------------------------------
(* The answer.                                                             *)

Reject(r) ==
  /\ request[r].phase = "running"
  /\ "failed" \in {request[r].tess.state, request[r].cloud.state}
  /\ Move(r, [request[r] EXCEPT !.phase = "failed"])
  /\ UNCHANGED <<config, quota, worker, model>>

\* Both legs are in; with one alone there is nothing to merge.
Respond(r) ==
  LET q == request[r] IN
  /\ q.phase = "running" /\ q.tess.state = "done" /\ q.cloud.state \in {"done", "off"}
  /\ Move(r, [q EXCEPT !.phase = "answered",
                       !.answer = IF q.cloud.state = "off" THEN Alone[q.tess.text]
                                  ELSE Both[q.tess.text][q.cloud.text]])
  /\ UNCHANGED <<config, quota, worker, model>>

Reply(r) ==
  /\ request[r].phase \in {"answered", "failed"}
  /\ Move(r, Idle)
  /\ UNCHANGED <<config, quota, worker, model>>

NextMonth ==
  /\ month < LastMonth
  /\ month' = month + 1 /\ reserved' = 0
  /\ UNCHANGED <<config, counter, worker, model, request>>

\* Without Redis the quota starts again with the process.
Restart ==
  /\ request' = [r \in Requests |-> Idle]
  /\ worker' = "none"
  /\ model' = IF engine = "ollama" THEN "probing" ELSE "unknown"
  /\ IF redis THEN UNCHANGED <<counter, reserved>>
     ELSE counter' = [m \in Months |-> 0] /\ reserved' = 0
  /\ UNCHANGED <<config, month>>

Handle(r) ==
  \/ CanConsume(r) \/ Consume(r)
  \/ AwaitWorker(r) \/ Recognize(r)
  \/ ResolveModel(r) \/ Transcribe(r) \/ GiveUp(r)
  \/ Reject(r) \/ Respond(r) \/ Reply(r)

Next ==
  \/ \E r \in Requests : Submit(r) \/ Handle(r)
  \/ WorkerSettles \/ Probe \/ NextMonth \/ Restart

Spec == Init /\ [][Next]_vars

\* A handler that can go on does, by a timer if not by an answer; Tesseract runs in the process.
\* Vision and Ollama owe nothing: GiveUp is theirs when they stay silent.
Fairness ==
  /\ WF_vars(WorkerSettles)
  /\ \A r \in Requests :
       /\ WF_vars(CanConsume(r)) /\ WF_vars(Consume(r))
       /\ WF_vars(AwaitWorker(r)) /\ WF_vars(Recognize(r)) /\ WF_vars(ResolveModel(r))
       /\ WF_vars(GiveUp(r)) /\ WF_vars(Reject(r)) /\ WF_vars(Respond(r)) /\ WF_vars(Reply(r))

FairSpec == Spec /\ Fairness

-----------------------------------------------------------------------------
(* Properties.                                                             *)

States == {"off", "queued", "waiting", "resolving", "calling", "failed", "done"}
Legs(texts) == [state : States, text : texts \cup {Nothing}]
Handlers == [phase : Phases, tess : Legs(Readings), cloud : Legs(Transcriptions),
             genuine : BOOLEAN, answer : Answers \cup {Answer(0, 0, "")}]

TypeOK ==
  /\ engine \in {"vision", "ollama", "none"} /\ redis \in BOOLEAN
  /\ month \in Months /\ counter \in [Months -> 0..CounterCap] /\ reserved \in Nat
  /\ worker \in {"none", "starting", "ready", "broken"}
  /\ model \in {"probing", "unknown", "known"}
  /\ request \in [Requests -> Handlers]

\* A leg that is done holds a transcript of its engine, any other leg none; what is answered is
\* made of what the legs hold.
LegOK(leg, texts) == IF leg.state = "done" THEN leg.text \in texts ELSE leg.text = Nothing
HandlerOK(q) ==
  /\ LegOK(q.tess, Readings) /\ LegOK(q.cloud, Transcriptions \cup {Nothing})
  /\ q.phase = "answered" =>
       /\ q.tess.state = "done" /\ q.cloud.state \in {"done", "off"}
       /\ q.answer = IF q.cloud.state = "off" THEN Alone[q.tess.text]
                     ELSE Both[q.tess.text][q.cloud.text]
AnswersInv == \A r \in Requests : HandlerOK(request[r])

\* A call counted after a check that Redis answered is in the counter of the month; those still to
\* be counted found a unit left when they looked.
Promised == {r \in Requests : request[r].phase = "consuming" /\ request[r].genuine}
QuotaInv ==
  /\ \A r \in Requests : request[r].phase \in {"checking", "consuming"} => redis
  /\ reserved <= counter[month]
  /\ reserved + Cardinality(Promised) <= Limit + Cardinality(Requests) - 1

\* Only Ollama's leg fails, and a refusal is of a leg that failed.
RefusalsInv ==
  \A r \in Requests :
    /\ request[r].cloud.state \in {"resolving", "failed"} => engine = "ollama"
    /\ request[r].phase = "failed" => "failed" \in {request[r].tess.state, request[r].cloud.state}

\* The inductive invariant.
IInv == TypeOK /\ AnswersInv /\ QuotaInv

\* google-vision-quota.service.ts:8, "Tope global mensual": the calls checked and counted pass
\* the limit by no more than the handlers that had passed the check before the last unit went.
QuotaBounded == reserved <= Limit + Cardinality(Requests) - 1

\* "Tesseract sigue solo" (google-vision-ocr.service.ts:35, ollama-glm-ocr.service.ts:55-56): an
\* invoice whose cloud engine is off, out of quota or silent gets the answer of Tesseract alone,
\* but for a short transcript, dropped when the engine was called and stayed silent.  And none
\* is refused on account of the cloud engine, except, against that comment, where nobody
\* answers which models Ollama has (ollama-glm-ocr.service.ts:64).
TesseractGoesOnAlone ==
  \A r \in Requests :
    LET q == request[r] IN
    /\ q.phase = "answered" /\ q.cloud.text = Nothing =>
         \/ q.answer = Alone[q.tess.text]
         \/ /\ q.tess.text.quality = "short" /\ q.cloud.state = "done"
            /\ q.answer.amount = 0 /\ q.answer.date = 0
    /\ q.phase = "failed" /\ q.tess.state # "failed" => engine = "ollama" /\ q.cloud.state = "failed"

\* An amount is given in dollars only if no line of either transcript says "Bs" or "bolivares";
\* the code VES and the rate of the central bank are overruled by dollars somewhere; and some line
\* with that amount is not in bolivares, however it would write them.
DollarsAreNoBolivars ==
  \A r \in Requests :
    LET q == request[r]
        lines == LineSet(q.tess.text.lines) \cup LineSet(q.cloud.text.lines)
        spoken == Mentions(q.tess.text.lines) \cup Mentions(q.cloud.text.lines)
    IN q.phase = "answered" /\ q.answer.currency = "USD" =>
         /\ "BS" \notin spoken
         /\ spoken \cap {"VES", "BCU"} # {} => "USD" \in spoken
         /\ q.answer.amount # 0 =>
              \E line \in lines : line.amount = q.answer.amount /\ line.notation \notin InBolivars

\* Every invoice is answered or refused, whatever the engines do.
EveryInvoiceAnswered == \A r \in Requests : (request[r] # Idle) ~> (request[r] = Idle)
=============================================================================
