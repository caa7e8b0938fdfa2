------------------------------ MODULE LmManager ------------------------------
(***************************************************************************)
(* backends/manager.cpp with backends/loader.cpp: asynchronous calls into  *)
(* the language model.  The main thread dispatches requests, drains the    *)
(* callback queue once a frame, swaps the registered model and stops the   *)
(* service; every accepted request has a detached worker thread of its     *)
(* own.  A step is one critical section, or one unlocked access that       *)
(* another thread can observe.  g_backend_mtx and g_cb_mtx only guard      *)
(* single assignments, so a section under them is one step; g_lm_call_mtx  *)
(* is held across the network call and is modelled as a lock.              *)
(*                                                                         *)
(* A member of Requests is one call of dispatch() with a non-null          *)
(* callback; a member of Models is one object passed to register_lm().     *)
(* The two sets bound the number of dispatches and of registrations.       *)
(***************************************************************************)
EXTENDS Naturals, Sequences, FiniteSets

CONSTANTS Requests, Models, NoModel, NoThread,
          SpawnMayFail,     \* the std::thread constructor may throw
          CallsMayOutlast   \* a call may last longer than the 5 s cap of stop()

ASSUME ConstantsAssumption ==
  /\ IsFiniteSet(Requests)
  /\ NoModel \notin Models
  /\ NoThread \notin Requests
  /\ SpawnMayFail \in BOOLEAN
  /\ CallsMayOutlast \in BOOLEAN

VARIABLES
  lm,         \* g_lm: the registered model or NoModel
  made,       \* models constructed so far; those other than lm are destroyed
  callMtx,    \* g_lm_call_mtx: the worker that holds it, or NoThread
  callbacks,  \* g_callbacks: answers waiting for the main thread
  batch,      \* the local deque of drain_callback_queue()
  workers,    \* g_active_workers
  pc,         \* pc[r]: how far request r, and its worker, have got
  ptr,        \* lm_ptr of r's worker
  reply,      \* ok of r's worker: the reply is not empty
  main,       \* what the main thread is doing
  enabled,    \* between XPluginEnable and XPluginDisable
  outcome,    \* history: how often and how the callback of r was run
  lost,       \* history: requests whose callback an exception discarded
  timedOut    \* history: stop() gave up waiting

threadVars == <<callMtx, ptr, reply>>
mainVars   == <<lm, made, enabled, timedOut>>
history    == <<outcome, lost>>
vars == <<lm, made, callMtx, callbacks, batch, workers, pc, ptr, reply, main,
          enabled, outcome, lost, timedOut>>

\* A worker counts towards g_active_workers from before its creation to the
\* fetch_sub that ends it; a thread that failed to start is never subtracted.
Running  == {"spawned", "locked", "calling", "replied", "queued"}
Counted  == Running \cup {"unstarted"}
Answered == {"refused", "queued", "exiting", "done"}
PcStates == Counted \cup Answered \cup {"unasked"}

Stopping == {"stopWait", "stopReset", "stopClear", "stopCurl", "stopped"}
MainStates == Stopping \cup {"idle", "reload", "drain", "callback"}

Callback == [req : Requests, ok : BOOLEAN]

TypeOK ==
  /\ lm \in made \cup {NoModel}
  /\ made \subseteq Models
  /\ callMtx \in Requests \cup {NoThread}
  /\ callbacks \in Seq(Callback)
  /\ batch \in Seq(Callback)
  /\ workers \in Nat
  /\ pc \in [Requests -> PcStates]
  /\ ptr \in [Requests -> made \cup {NoModel}]
  /\ reply \in [Requests -> BOOLEAN]
  /\ main \in MainStates
  /\ enabled \in BOOLEAN
  /\ outcome \in [Requests -> {"none", "succeeded", "failed", "twice"}]
  /\ lost \subseteq Requests
  /\ timedOut \in BOOLEAN

Init ==
  /\ lm = NoModel /\ made = {}
  /\ callMtx = NoThread
  /\ callbacks = <<>> /\ batch = <<>>
  /\ workers = 0
  /\ pc = [r \in Requests |-> "unasked"]
  /\ ptr = [r \in Requests |-> NoModel]
  /\ reply = [r \in Requests |-> FALSE]
  /\ main = "idle" /\ enabled = FALSE
  /\ outcome = [r \in Requests |-> "none"]
  /\ lost = {} /\ timedOut = FALSE

Goto(r, from, to) == pc[r] = from /\ pc' = [pc EXCEPT ![r] = to]
MainStep(from, to) == main = from /\ main' = to
Enqueue(r, ok) == callbacks' = Append(callbacks, [req |-> r, ok |-> ok])

-----------------------------------------------------------------------------
(* dispatch() and spawn_worker(), on the main thread: from the flight loop *)
(* or a draw callback, or from inside a callback that asks again.          *)

CanDispatch == (main = "idle" /\ enabled) \/ main = "callback"

\* lm_ready().  Mutation: the dispatcher does not look.
NeverRefused == TRUE
LmReady == lm # NoModel

\* The fetch_add before the thread exists.  Mutation: the increment is missing.
CountNoWorker == UNCHANGED workers
CountWorker == workers' = workers + 1

\* No backend: the failure is queued at once, without a thread.
DispatchRefused(r) ==
  /\ CanDispatch /\ ~LmReady
  /\ Goto(r, "unasked", "refused")
  /\ Enqueue(r, FALSE)
  /\ UNCHANGED <<batch, workers, main, threadVars, mainVars, history>>

DispatchAccepted(r) ==
  /\ CanDispatch /\ LmReady
  /\ Goto(r, "unasked", "spawned")
  /\ CountWorker
  /\ UNCHANGED <<callbacks, batch, main, threadVars, mainVars, history>>

\* The std::thread constructor throws after the fetch_add.  The exception
\* leaves drain_callback_queue() when dispatch was called from a callback: the
\* rest of the local deque is gone.
SpawnFails(r) ==
  /\ SpawnMayFail
  /\ CanDispatch /\ LmReady
  /\ Goto(r, "unasked", "unstarted")
  /\ CountWorker
  /\ lost' = lost \cup {r} \cup {batch[i].req : i \in DOMAIN batch}
  /\ batch' = <<>>
  /\ main' = "idle"
  /\ UNCHANGED <<callbacks, outcome, threadVars, mainVars>>

-----------------------------------------------------------------------------
(* The worker thread: the lambda of dispatch() inside that of              *)
(* spawn_worker().                                                         *)

\* Mutation: the lock_guard on g_lm_call_mtx is missing.
CallMtxIgnored == TRUE
CallMtxFree == callMtx = NoThread

AcquireCallMtx(r) ==
  /\ CallMtxFree
  /\ Goto(r, "spawned", "locked")
  /\ callMtx' = r
  /\ UNCHANGED <<callbacks, batch, workers, main, ptr, reply, mainVars, history>>

\* lm_ptr is copied under g_backend_mtx and used after the mutex is released.
TakePointer(r) ==
  /\ lm # NoModel
  /\ Goto(r, "locked", "calling")
  /\ ptr' = [ptr EXCEPT ![r] = lm]
  /\ UNCHANGED <<callbacks, batch, workers, main, callMtx, reply, mainVars, history>>

\* The backend went away since lm_ready(): the reply stays empty.
FindNoModel(r) ==
  /\ lm = NoModel
  /\ Goto(r, "locked", "replied")
  /\ callMtx' = NoThread
  /\ UNCHANGED <<callbacks, batch, workers, main, ptr, reply, mainVars, history>>

\* respond() or respond_json() returns, with an empty reply on any failure, and
\* the scope of the lock_guard ends.
Respond(r) ==
  /\ Goto(r, "calling", "replied")
  /\ callMtx' = NoThread
  /\ \E ok \in BOOLEAN : reply' = [reply EXCEPT ![r] = ok]
  /\ UNCHANGED <<callbacks, batch, workers, main, ptr, mainVars, history>>

\* Mutation: an empty reply is not reported.
EnqueueSuccess(r) == IF reply[r] THEN Enqueue(r, TRUE) ELSE UNCHANGED callbacks
EnqueueReply(r) == Enqueue(r, reply[r])

WorkerEnqueues(r) ==
  /\ Goto(r, "replied", "queued")
  /\ EnqueueReply(r)
  /\ UNCHANGED <<batch, workers, main, threadVars, mainVars, history>>

\* fetch_sub is the last statement, not the end of the thread: the captures
\* are destroyed and the thread function returns after it.
CountDown(r) ==
  /\ Goto(r, "queued", "exiting")
  /\ workers' = workers - 1
  /\ UNCHANGED <<callbacks, batch, main, threadVars, mainVars, history>>

ThreadExits(r) ==
  /\ Goto(r, "exiting", "done")
  /\ UNCHANGED <<callbacks, batch, workers, main, threadVars, mainVars, history>>

Worker(r) == \/ AcquireCallMtx(r) \/ TakePointer(r) \/ FindNoModel(r) \/ Respond(r)
             \/ WorkerEnqueues(r) \/ CountDown(r) \/ ThreadExits(r)

-----------------------------------------------------------------------------
(* drain_callback_queue(), called by flight_loop_cb() while the plugin is  *)
(* enabled.                                                                *)

\* Mutation: the callbacks are copied where the code swaps the two deques.
KeepQueue == UNCHANGED callbacks
EmptyQueue == callbacks' = <<>>

DrainSwap ==
  /\ MainStep("idle", "drain") /\ enabled
  /\ callbacks # <<>>
  /\ batch' = callbacks
  /\ EmptyQueue
  /\ UNCHANGED <<workers, pc, threadVars, mainVars, history>>

RunCallback ==
  /\ MainStep("drain", "callback")
  /\ batch # <<>>
  /\ batch' = Tail(batch)
  /\ LET c == Head(batch)
     IN outcome' = [outcome EXCEPT ![c.req] = IF @ # "none" THEN "twice"
                                              ELSE IF c.ok THEN "succeeded" ELSE "failed"]
  /\ UNCHANGED <<callbacks, workers, pc, lost, threadVars, mainVars>>

CallbackReturns ==
  /\ MainStep("callback", "drain")
  /\ UNCHANGED <<callbacks, batch, workers, pc, threadVars, mainVars, history>>

DrainEnds ==
  /\ MainStep("drain", "idle") /\ batch = <<>>
  /\ UNCHANGED <<callbacks, batch, workers, pc, threadVars, mainVars, history>>

-----------------------------------------------------------------------------
(* register_lm() as backends::loader calls it.  Assigning g_lm destroys    *)
(* the model it held; only g_backend_mtx is taken.                         *)

managerIdle == UNCHANGED <<callbacks, batch, workers, pc, threadVars, history>>

\* loader::start(): a new model when the configured provider has a key,
\* register_lm(nullptr) otherwise.
LoaderStart ==
  /\ \/ \E m \in Models \ made : lm' = m /\ made' = made \cup {m}
     \/ lm' = NoModel /\ made' = made
  /\ UNCHANGED timedOut

\* loader::stop()
LoaderStop == lm' = NoModel /\ UNCHANGED <<made, timedOut>>

Enable ==
  /\ MainStep("idle", "idle") /\ ~enabled
  /\ enabled' = TRUE
  /\ LoaderStart /\ managerIdle

Disable ==
  /\ MainStep("idle", "idle") /\ enabled
  /\ enabled' = FALSE
  /\ LoaderStop /\ managerIdle

\* The Settings tab after a key or the provider changed: loader::stop() and
\* then loader::start(), with workers running in between.
ReloadStops ==
  /\ MainStep("idle", "reload") /\ enabled
  /\ LoaderStop /\ UNCHANGED enabled /\ managerIdle

ReloadStarts ==
  /\ MainStep("reload", "idle")
  /\ LoaderStart /\ UNCHANGED enabled /\ managerIdle

-----------------------------------------------------------------------------
(* stop(), called by XPluginStop() after XPluginDisable().                 *)

StopBegins ==
  /\ MainStep("idle", "stopWait") /\ ~enabled
  /\ UNCHANGED mainVars /\ managerIdle

\* Mutation: stop() does not wait.
NoWait == TRUE
AllCountedDown == workers = 0

StopSeesNoWorker ==
  /\ MainStep("stopWait", "stopReset")
  /\ AllCountedDown
  /\ UNCHANGED mainVars /\ managerIdle

\* Mutation: stop() has no deadline.
NoDeadline == FALSE
DeadlinePasses == CallsMayOutlast \/ \E r \in Requests : pc[r] = "unstarted"

StopGivesUp ==
  /\ MainStep("stopWait", "stopReset")
  /\ DeadlinePasses /\ workers > 0
  /\ timedOut' = TRUE
  /\ UNCHANGED <<lm, made, enabled>> /\ managerIdle

StopResetsModel ==
  /\ MainStep("stopReset", "stopClear")
  /\ lm' = NoModel
  /\ UNCHANGED <<made, enabled, timedOut>> /\ managerIdle

StopClearsQueue ==
  /\ MainStep("stopClear", "stopCurl")
  /\ callbacks' = <<>>
  /\ UNCHANGED <<batch, workers, pc, threadVars, mainVars, history>>

\* curl_global_cleanup()
StopCleansUpCurl ==
  /\ MainStep("stopCurl", "stopped")
  /\ UNCHANGED mainVars /\ managerIdle

StopStep == \/ StopSeesNoWorker \/ StopGivesUp
            \/ StopResetsModel \/ StopClearsQueue \/ StopCleansUpCurl

-----------------------------------------------------------------------------
Dispatch(r) == DispatchRefused(r) \/ DispatchAccepted(r) \/ SpawnFails(r)
Drain == DrainSwap \/ RunCallback \/ CallbackReturns \/ DrainEnds
Configure == Enable \/ Disable \/ ReloadStops \/ ReloadStarts

Next == \/ \E r \in Requests : Dispatch(r) \/ Worker(r)
        \/ Drain \/ Configure \/ StopBegins \/ StopStep

Spec == Init /\ [][Next]_vars

\* The main thread returns from what it has begun; stop() runs to its end.  The
\* flight loop runs on every frame, so reloads, each inside one frame, cannot
\* keep it from draining: strong fairness.
MainFairness == /\ SF_vars(Drain) /\ WF_vars(ReloadStarts) /\ WF_vars(StopStep)

\* A call returns within CURLOPT_TIMEOUT and the scheduler runs every thread.
\* Only the properties that need it assume it.
WorkerFairness == \A r \in Requests : WF_vars(Worker(r))

FairSpec == Spec /\ MainFairness

-----------------------------------------------------------------------------
(* Properties                                                              *)

InQueue(r) == \E i \in DOMAIN callbacks : callbacks[i].req = r
InBatch(r) == \E i \in DOMAIN batch : batch[i].req = r

\* Inferences never overlap: at most one worker is inside the model, the one
\* that holds g_lm_call_mtx (manager.cpp, "We do not parallelise").
CallsSerialised == \A r \in Requests : pc[r] = "calling" => callMtx = r

\* No caller's callback runs a second time, whatever the interleaving of
\* workers, drains, re-entrant dispatches and exceptions.
AnsweredOnce == \A r \in Requests : outcome[r] # "twice"

\* A request whose answer is there is in exactly the places it can be run
\* from, until the queue is cleared by stop() or an exception discards it.
NothingForgotten ==
  main \notin {"stopCurl", "stopped"} =>
    \A r \in Requests : pc[r] \in Answered =>
      InQueue(r) \/ InBatch(r) \/ outcome[r] # "none" \/ r \in lost

\* Once stop() has left its wait loop without giving up, no worker will touch
\* the model, the callback queue or curl again: those are torn down next.
StopQuiesces ==
  main \in Stopping \ {"stopWait"} /\ ~timedOut => \A r \in Requests : pc[r] \notin Running

\* stop() ends even if a call into the model never returns: no step of it
\* waits for a lock a worker holds.
StopCompletes == main = "stopWait" ~> main = "stopped"

\* If calls return and the plugin is in the end enabled for good, every request
\* made is answered, those interrupted by a disable or a change of the backend
\* too, unless its thread could not start or an exception discarded its callback.
RequestsAnswered ==
  WorkerFairness /\ <>[]enabled =>
    \A r \in Requests : pc[r] # "unasked" ~> outcome[r] # "none" \/ r \in lost

\* manager.cpp says that g_lm_call_mtx serialises calls into the model and the
\* teardown path: the object a worker calls is not destroyed under it.
TeardownSerialised == \A r \in Requests : pc[r] = "calling" => ptr[r] = lm

-----------------------------------------------------------------------------
(* The inductive invariant.                                                *)

\* The lock is held by exactly the worker between its lock and unlock.
LockInv == \A r \in Requests : pc[r] \in {"locked", "calling"} <=> callMtx = r

\* g_active_workers counts the workers that have not reached their fetch_sub,
\* and for ever those whose thread never started.
CountInv == workers = Cardinality({r \in Requests : pc[r] \in Counted})

\* A waiting callback is that of an answered request nobody has run yet; it
\* reports success only for a request that was accepted.
Deliverable(c) == /\ pc[c.req] \in Answered
                  /\ outcome[c.req] = "none"
                  /\ c.req \notin lost
                  /\ c.ok => pc[c.req] # "refused"

Distinct(s) == \A i, j \in DOMAIN s : s[i].req = s[j].req => i = j

QueueInv ==
  /\ \A i \in DOMAIN callbacks : Deliverable(callbacks[i])
  /\ \A j \in DOMAIN batch : Deliverable(batch[j])
  /\ Distinct(callbacks) /\ Distinct(batch)
  /\ \A i \in DOMAIN callbacks : \A j \in DOMAIN batch : callbacks[i].req # batch[j].req
  /\ main \notin {"drain", "callback"} => batch = <<>>

\* Only an answered request has been run; only an answer, or a request whose
\* thread did not start, was lost, and then it was not run.
FreshInv == \A r \in Requests :
  /\ outcome[r] # "none" => pc[r] \in Answered
  /\ r \in lost => pc[r] \in Answered \cup {"unstarted"}
  /\ r \in lost => outcome[r] = "none"

\* What the properties need: the lock, the counter and the two queues agree
\* with where every worker is, also while stop() runs.
IInv == /\ TypeOK /\ LockInv /\ CountInv /\ QueueInv /\ FreshInv
        /\ AnsweredOnce /\ NothingForgotten /\ StopQuiesces

-----------------------------------------------------------------------------
(* The abstract service.                                                   *)

Open == main \notin Stopping

AbstractStatus(r) ==
  IF pc[r] = "unasked" THEN "fresh"
  ELSE IF outcome[r] # "none" THEN outcome[r]
  ELSE IF ~Open \/ r \in lost THEN "dropped"
  ELSE IF pc[r] = "refused" THEN "refused" ELSE "pending"

Service == INSTANCE LmService WITH
             MayLose <- SpawnMayFail,
             backend <- Open /\ lm # NoModel,
             open    <- Open,
             status  <- [r \in Requests |-> AbstractStatus(r)]

\* The threads, locks and queues implement the service of LmService.
ImplementsService == Service!Spec
=============================================================================
