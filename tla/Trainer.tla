------------------------------- MODULE Trainer -------------------------------
(***************************************************************************)
(* The scorer and the evaluator together on the language-model service, as *)
(* the flight loop and the tabs of main.cpp and ui/trainer_ui.cpp drive    *)
(* them.  AirportScorer and PostFlight each take for granted that a call   *)
(* that started is answered; here the answer has to get past the other     *)
(* one: both workers contend for g_lm_call_mtx, both answers go through    *)
(* one queue, and an exception out of one callback, by way of the next     *)
(* batch it dispatches, discards those behind it.                          *)
(*                                                                         *)
(* A client has one call at a time at most, so a worker or an answer is    *)
(* known by its client.  What threads and locks do below the inference     *)
(* lock, a stop that gives up waiting included, is LmManager's.            *)
(***************************************************************************)
EXTENDS Naturals, Sequences, FiniteSets

CONSTANTS Icao, Facts, Versions, RawScores, MinScore, MaxScore, BatchSize, MaxItems,
          Airports, NoAirport, Epochs, SecondsPerMinute, Tolerance, Builds,
          ReadsMayFail, WritesMayFail, RenameReplaces, SpawnMayFail

VARIABLES
  queue, pending, inFlight, calls, store, disk, unread, facts, version, wanted,  \* AirportScorer
  status, lastKey, evals, reports, files, build, failed,                         \* PostFlight
  backend,   \* g_lm: is a language model registered?
  running,   \* between XPluginStart and XPluginStop
  enabled,   \* between XPluginEnable and XPluginDisable
  waiting,   \* clients whose worker has not got g_lm_call_mtx yet
  inside,    \* the answer of the worker that holds it, [client, ok], as a set
  answers,   \* g_callbacks, a sequence of answers
  batch,     \* the local deque of drain_callback_queue(), likewise
  inLoop     \* the main thread is inside flight_loop_cb()

Scorer == INSTANCE AirportScorer
Evaluator == INSTANCE PostFlight WITH calls <- evals, store <- reports, disk <- files

ASSUME TrainerAssumption == Scorer!ScorerAssumption /\ Evaluator!PostFlightAssumption

service == <<waiting, inside, answers, batch, inLoop>>
plugin == <<backend, running, enabled>>
scorer == <<queue, pending, inFlight, calls, store, disk, unread, facts, version, wanted>>
evaluator == <<status, lastKey, evals, reports, files, build, failed>>
vars == <<scorer, evaluator, plugin, service>>

Init ==
  /\ Scorer!Init /\ Evaluator!Init
  /\ enabled = FALSE /\ inLoop = FALSE
  /\ waiting = {} /\ inside = {}
  /\ answers = <<>> /\ batch = <<>>

-----------------------------------------------------------------------------
(* The workers.                                                            *)

\* A call made in this step has a worker, unless its thread did not start.
Starts(before, after) == \E c \in after \ before : c.phase = "asked"
Fails(before, after) == \E c \in after \ before : c.phase = "never"

SpawnWorker(k, before, after) ==
  waiting' = IF Starts(before, after) THEN waiting \cup {k} ELSE waiting

\* The lock guard of g_lm_call_mtx, and the model that is read under it.
\* A std::mutex serves nobody first.
EntersForScorer ==
  /\ running /\ inside = {} /\ "scorer" \in waiting
  /\ \E c \in calls : /\ Scorer!WorkerCalls(c)
                      /\ inside' = {[client |-> "scorer",
                                     ok |-> \E d \in calls' : d.phase = "replied"]}
  /\ waiting' = waiting \ {"scorer"}
  /\ UNCHANGED <<evaluator, enabled, answers, batch, inLoop>>

\* call() of either provider returns an empty reply whatever goes wrong: no key,
\* no connection, another status than 200, no JSON or none with an answer.
Replied == {FALSE, backend}

EntersForEvaluator ==
  /\ running /\ inside = {} /\ "evaluator" \in waiting
  /\ \E ok \in Replied : inside' = {[client |-> "evaluator", ok |-> ok]}
  /\ waiting' = waiting \ {"evaluator"}
  /\ UNCHANGED <<scorer, evaluator, plugin, answers, batch, inLoop>>

\* The answer is queued after the lock is released.  Mutation: a failure is not
\* answered.
AnswerSuccess(a) == IF a.ok THEN Append(answers, a) ELSE answers
Answered(a) == Append(answers, a)

Leaves ==
  /\ running
  /\ \E a \in inside : answers' = Answered(a)
  /\ inside' = {}
  /\ UNCHANGED <<scorer, evaluator, plugin, waiting, batch, inLoop>>

-----------------------------------------------------------------------------
(* The flight loop, called on every frame while the plugin is enabled.     *)

DrainBegins ==
  /\ enabled /\ ~inLoop
  /\ inLoop' = TRUE
  /\ batch' = answers /\ answers' = <<>>
  /\ UNCHANGED <<scorer, evaluator, plugin, waiting, inside>>

\* What is left of the local queue after a callback: nothing, if it threw, for
\* then drain_callback_queue() is left and flight_loop_cb() ends.
LeftAfter(threw) == IF threw THEN <<>> ELSE Tail(batch)

\* The scorer's callback, with the next batch it sends at once.
RunsScorer ==
  /\ inLoop /\ batch # <<>> /\ Head(batch).client = "scorer"
  /\ \E c \in calls : Scorer!Callback(c)
  /\ SpawnWorker("scorer", calls, calls')
  /\ batch' = LeftAfter(Fails(calls, calls'))
  /\ inLoop' = ~Fails(calls, calls')
  /\ UNCHANGED <<evaluator, enabled, inside, answers>>

\* The evaluator's callback, which catches what it throws.
RunsEvaluator ==
  /\ inLoop /\ batch # <<>> /\ Head(batch).client = "evaluator"
  /\ \E c \in evals : Evaluator!Callback(c)
  /\ ~Head(batch).ok => status' = "Error"
  /\ batch' = Tail(batch)
  /\ UNCHANGED <<scorer, plugin, waiting, inside, answers, inLoop>>

\* g_callbacks was swapped with the local queue before the callbacks ran.
\* Mutation: it is cleared afterwards, with what was queued meanwhile.
ClearedLate == <<>>
QueuedMeanwhile == answers

\* pump(), and the end of the flight loop.
LoopEnds ==
  /\ inLoop /\ batch = <<>>
  /\ inLoop' = FALSE
  /\ \/ Scorer!Pump
     \/ Scorer!Blocked(inFlight) /\ UNCHANGED <<scorer, backend, running>>
  /\ SpawnWorker("scorer", calls, calls')
  /\ answers' = QueuedMeanwhile
  /\ UNCHANGED <<evaluator, enabled, inside, batch>>

FlightLoop == DrainBegins \/ RunsScorer \/ RunsEvaluator \/ LoopEnds

-----------------------------------------------------------------------------
(* The tabs, drawn between two calls of the flight loop.                   *)

Drawn == enabled /\ ~inLoop

FlightTab ==
  /\ Drawn
  /\ Scorer!DrawSearch \/ \E S \in SUBSET Icao : Scorer!Search(S)
  /\ UNCHANGED <<evaluator, enabled, service>>

\* The button: with a backend the call is made, without one it is refused.
PostFlightTab ==
  /\ Drawn
  /\ \E atc \in Evaluator!AtcLog, flight \in Evaluator!FlightLog :
       Evaluator!Evaluate(atc, flight)
  /\ (status' = "Running") = backend
  /\ SpawnWorker("evaluator", evals, evals')
  /\ UNCHANGED <<scorer, plugin, inside, answers, batch, inLoop>>

\* A key is saved or deleted, or the provider changed.
SettingsTab ==
  /\ Drawn
  /\ \E b \in BOOLEAN : Scorer!Configure(b)
  /\ UNCHANGED <<evaluator, enabled, service>>

-----------------------------------------------------------------------------
(* The plugin.                                                             *)

Enable == /\ ~enabled /\ enabled' = TRUE
          /\ \E b \in BOOLEAN : Scorer!Configure(b)
          /\ UNCHANGED <<evaluator, service>>

Disable == /\ Drawn /\ enabled' = FALSE
           /\ Scorer!Configure(FALSE)
           /\ UNCHANGED <<evaluator, service>>

\* backends::stop() waits for the workers and drops their answers.
\* Mutation: g_callbacks is not cleared.
AnswersLeft == IF inside = {} THEN answers ELSE <<>>
AnswersAtStop == <<>>

ServiceEnds == /\ waiting' = {} /\ inside' = {}
               /\ answers' = AnswersAtStop /\ batch' = <<>> /\ inLoop' = FALSE
               /\ enabled' = FALSE

\* X-Plane disables a plugin before it stops it.
PluginStops == /\ ~enabled
               /\ Scorer!PluginStops /\ Evaluator!PluginStops
               /\ ServiceEnds

Crash == Scorer!Crash /\ Evaluator!PluginStops /\ ServiceEnds

PluginStarts == /\ Scorer!PluginStarts /\ Evaluator!PluginStarts
                /\ UNCHANGED <<enabled, service>>

Next == \/ EntersForScorer \/ EntersForEvaluator \/ Leaves
        \/ FlightLoop
        \/ FlightTab \/ PostFlightTab \/ SettingsTab
        \/ Enable \/ Disable
        \/ PluginStops \/ Crash \/ PluginStarts

Spec == Init /\ [][Next]_vars

\* X-Plane calls the flight loop on every frame, a call of the model returns
\* within its time limit, and who waits for the lock gets it some time if it
\* is free again and again.
Fairness == /\ WF_vars(FlightLoop)
            /\ WF_vars(Leaves)
            /\ SF_vars(EntersForScorer) /\ SF_vars(EntersForEvaluator)

FairSpec == Spec /\ Fairness

-----------------------------------------------------------------------------
(* Properties                                                              *)

Number(s, k) == Cardinality({j \in DOMAIN s : s[j].client = k})

\* The workers and answers of a client there are.
Places(k) == Cardinality(waiting \cap {k}) + Cardinality({a \in inside : a.client = k})
             + Number(answers, k) + Number(batch, k)

Awaited == {c \in evals : c.phase = "asked"}

\* The evaluation waits for an answer that was discarded.
Lost == Awaited # {} /\ Places("evaluator") = 0

\* What the clients believe of the service is so: one call at a time, as
\* in_flight and Running say, and for a call whose thread started one worker or
\* answer, never an old one that a later call could take for its own; only the
\* evaluator's can be missing.
ClientsMatchService ==
  /\ Scorer!OneCallAtATime
  /\ Evaluator!OneEvaluation
  /\ Places("scorer") = Cardinality({c \in calls : c.phase # "never"})
  /\ Places("evaluator") <= Cardinality(Awaited)

\* pending of the scorer is what is queued or asked for (AirportScorer), also
\* through the frames, stops and exceptions of the whole plugin.
PendingExact == Scorer!PendingExact

\* The answer of an evaluation gets lost in one way only: behind an answer of the
\* scorer in the same frame, when the thread of the batch that this one sends
\* cannot be started.
LostOnlyBehindBatch ==
  [][Lost' => \/ Lost
              \/ /\ Fails(calls, calls')
                 /\ Head(batch).client = "scorer" /\ Number(Tail(batch), "evaluator") = 1]_vars

\* "The callback sets Done or Error": with the plugin in the end enabled for good
\* an evaluation ends, unless lost, however often the scorer takes the lock, a
\* batch that fails on every frame for instance.
EvaluationEnds == <>[]enabled => (Awaited # {} ~> Evaluator!Free \/ Lost)

\* With the plugin enabled and a backend in the end, each queued airport gets its
\* answer, or the failure that lets it be queued again, unless the thread of a
\* batch did not start: evaluations in between hold nothing up.
PendingAnswered ==
  <>[](enabled /\ backend /\ \A c \in calls : c.phase # "never") =>
    \A i \in Icao : i \in pending ~> i \notin pending
=============================================================================
