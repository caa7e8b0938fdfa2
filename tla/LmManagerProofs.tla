--------------------------- MODULE LmManagerProofs ---------------------------
(***************************************************************************)
(* Proofs about LmManager for every number of requests and models.         *)
(***************************************************************************)
EXTENDS LmManager, FiniteSetTheorems, TLAPS

\* Appending to a sequence of records adds one element after the others.
LEMMA AppendFacts ==
  ASSUME NEW S, NEW s \in Seq(S), NEW e \in S
  PROVE  /\ Append(s, e) \in Seq(S)
         /\ DOMAIN Append(s, e) = DOMAIN s \cup {Len(s) + 1}
         /\ \A i \in DOMAIN s : Append(s, e)[i] = s[i] /\ i # Len(s) + 1
         /\ Append(s, e)[Len(s) + 1] = e
OBVIOUS

\* The tail of a sequence holds the elements after the head, in order.
LEMMA TailFacts ==
  ASSUME NEW S, NEW s \in Seq(S), s # <<>>
  PROVE  /\ Tail(s) \in Seq(S)
         /\ Head(s) \in S /\ Head(s) = s[1] /\ 1 \in DOMAIN s
         /\ \A i \in DOMAIN Tail(s) : i + 1 \in DOMAIN s /\ Tail(s)[i] = s[i + 1] /\ i + 1 # 1
         /\ \A i \in DOMAIN s : i # 1 => i - 1 \in DOMAIN Tail(s) /\ Tail(s)[i - 1] = s[i]
OBVIOUS

\* The initial state is well typed.
LEMMA TypeInit == Init => TypeOK
<1> SUFFICES ASSUME Init PROVE TypeOK
  OBVIOUS
<1>1. callbacks \in Seq(Callback) /\ batch \in Seq(Callback)
  BY DEF Init
<1>2. QED
  BY <1>1 DEF Init, TypeOK, PcStates, Counted, Running, Answered, MainStates, Stopping

\* Those requests whose worker counts.
CountedSet == {r \in Requests : pc[r] \in Counted}

\* A set of requests is finite, and adding or removing a member counts one.
LEMMA CountFacts ==
  ASSUME NEW S \in SUBSET Requests
  PROVE  /\ IsFiniteSet(S) /\ Cardinality(S) \in Nat
         /\ Cardinality(S) = 0 <=> S = {}
         /\ \A r \in Requests \ S : Cardinality(S \cup {r}) = Cardinality(S) + 1
         /\ \A r \in S : Cardinality(S \ {r}) = Cardinality(S) - 1
<1>1. IsFiniteSet(S)
  BY ConstantsAssumption, FS_Subset DEF ConstantsAssumption
<1>2. Cardinality(S) \in Nat /\ (Cardinality(S) = 0 <=> S = {})
  BY <1>1, FS_CardinalityType, FS_EmptySet
<1>3. \A r \in Requests \ S : Cardinality(S \cup {r}) = Cardinality(S) + 1
  BY <1>1, FS_AddElement
<1>4. \A r \in S : Cardinality(S \ {r}) = Cardinality(S) - 1
  BY <1>1, FS_RemoveElement
<1>5. QED  BY <1>1, <1>2, <1>3, <1>4

\* The counter never goes below zero: a worker that is yet to decrement it is
\* itself counted.
LEMMA TypeStep == TypeOK /\ CountInv /\ [Next]_vars => TypeOK'
<1> SUFFICES ASSUME TypeOK, CountInv, [Next]_vars PROVE TypeOK'
  OBVIOUS
<1> USE DEF TypeOK, threadVars, mainVars, history, Goto, MainStep, MainStates, Stopping,
            PcStates, Counted, Running, Answered
<1>1. ASSUME NEW r \in Requests, DispatchRefused(r) PROVE TypeOK'
  BY <1>1, AppendFacts DEF DispatchRefused, Enqueue, Callback
<1>2. ASSUME NEW r \in Requests, DispatchAccepted(r) PROVE TypeOK'
  BY <1>2 DEF DispatchAccepted, CountWorker
<1>3. ASSUME NEW r \in Requests, SpawnFails(r) PROVE TypeOK'
  <2>1. {batch[i].req : i \in DOMAIN batch} \subseteq Requests
    <3>1. \A i \in DOMAIN batch : batch[i] \in Callback
      OBVIOUS
    <3>2. QED  BY <3>1 DEF Callback
  <2>2. QED  BY <1>3, <2>1 DEF SpawnFails, CountWorker
<1>4. ASSUME NEW r \in Requests, AcquireCallMtx(r) PROVE TypeOK'
  BY <1>4 DEF AcquireCallMtx
<1>5. ASSUME NEW r \in Requests, TakePointer(r) PROVE TypeOK'
  BY <1>5 DEF TakePointer
<1>6. ASSUME NEW r \in Requests, FindNoModel(r) PROVE TypeOK'
  BY <1>6 DEF FindNoModel
<1>7. ASSUME NEW r \in Requests, Respond(r) PROVE TypeOK'
  BY <1>7 DEF Respond
<1>8. ASSUME NEW r \in Requests, WorkerEnqueues(r) PROVE TypeOK'
  BY <1>8, AppendFacts DEF WorkerEnqueues, EnqueueReply, Enqueue, Callback
<1>9. ASSUME NEW r \in Requests, CountDown(r) PROVE TypeOK'
  <2>1. r \in CountedSet
    BY <1>9 DEF CountDown, CountedSet
  <2>2. workers # 0 /\ workers = Cardinality(CountedSet)
    BY <2>1, CountFacts DEF CountInv, CountedSet
  <2>3. workers - 1 \in Nat
    BY <2>2
  <2>4. QED  BY <1>9, <2>3 DEF CountDown
<1>10. ASSUME NEW r \in Requests, ThreadExits(r) PROVE TypeOK'
  BY <1>10 DEF ThreadExits
<1>11. CASE DrainSwap
  BY <1>11 DEF DrainSwap, EmptyQueue
<1>12. CASE RunCallback
  BY <1>12, TailFacts DEF RunCallback, Callback
<1>13. CASE CallbackReturns \/ DrainEnds
  BY <1>13 DEF CallbackReturns, DrainEnds
<1>14. CASE Configure
  BY <1>14 DEF Configure, Enable, Disable, ReloadStops, ReloadStarts, LoaderStart, LoaderStop,
     managerIdle
<1>15. CASE StopBegins \/ StopStep
  <2>1. CASE StopClearsQueue
    BY <2>1 DEF StopClearsQueue
  <2>2. CASE StopBegins \/ StopSeesNoWorker \/ StopCleansUpCurl
    BY <2>2 DEF StopBegins, StopSeesNoWorker, StopCleansUpCurl, managerIdle
  <2>3. CASE StopGivesUp \/ StopResetsModel
    BY <2>3 DEF StopGivesUp, StopResetsModel, managerIdle
  <2>4. QED  BY <1>15, <2>1, <2>2, <2>3 DEF StopStep
<1>16. CASE UNCHANGED vars
  BY <1>16 DEF vars
<1>17. QED
  BY <1>1, <1>2, <1>3, <1>4, <1>5, <1>6, <1>7, <1>8, <1>9, <1>10, <1>11, <1>12, <1>13,
     <1>14, <1>15, <1>16 DEF Next, Dispatch, Worker, Drain

-----------------------------------------------------------------------------
\* g_lm_call_mtx is owned by the worker between its lock and its unlock.
LEMMA LockStep == TypeOK /\ LockInv /\ [Next]_vars => LockInv'
<1> SUFFICES ASSUME TypeOK, LockInv, [Next]_vars PROVE LockInv'
  OBVIOUS
<1> USE ConstantsAssumption DEF ConstantsAssumption, TypeOK, LockInv, threadVars, Goto
<1>1. ASSUME NEW r \in Requests, Dispatch(r) PROVE LockInv'
  BY <1>1 DEF Dispatch, DispatchRefused, DispatchAccepted, SpawnFails
<1>2. ASSUME NEW r \in Requests, AcquireCallMtx(r) PROVE LockInv'
  BY <1>2 DEF AcquireCallMtx, CallMtxFree
<1>3. ASSUME NEW r \in Requests, TakePointer(r) PROVE LockInv'
  BY <1>3 DEF TakePointer
<1>4. ASSUME NEW r \in Requests, FindNoModel(r) \/ Respond(r) PROVE LockInv'
  BY <1>4 DEF FindNoModel, Respond
<1>5. ASSUME NEW r \in Requests, WorkerEnqueues(r) \/ CountDown(r) \/ ThreadExits(r)
      PROVE LockInv'
  BY <1>5 DEF WorkerEnqueues, CountDown, ThreadExits
<1>6. CASE Drain
  BY <1>6 DEF Drain, DrainSwap, RunCallback, CallbackReturns, DrainEnds
<1>7. CASE Configure
  BY <1>7 DEF Configure, Enable, Disable, ReloadStops, ReloadStarts, managerIdle
<1>8. CASE StopBegins \/ StopStep
  BY <1>8 DEF StopBegins, StopStep, StopSeesNoWorker, StopGivesUp, StopResetsModel,
     StopClearsQueue, StopCleansUpCurl, managerIdle
<1>9. CASE UNCHANGED vars
  BY <1>9 DEF vars
<1>10. QED
  BY <1>1, <1>2, <1>3, <1>4, <1>5, <1>6, <1>7, <1>8, <1>9 DEF Next, Worker

\* The steps in which no worker is created, started or counted down.
LEMMA CountKept ==
  ASSUME TypeOK, CountInv, workers' = workers,
         \A r \in Requests : pc'[r] \in Counted <=> pc[r] \in Counted
  PROVE  CountInv'
<1>1. {r \in Requests : pc'[r] \in Counted} = CountedSet
  BY DEF CountedSet
<1>2. QED  BY <1>1 DEF CountInv, CountedSet

\* The counter follows the threads: fetch_add before, fetch_sub after.
LEMMA CountStep == TypeOK /\ CountInv /\ [Next]_vars => CountInv'
<1> SUFFICES ASSUME TypeOK, CountInv, [Next]_vars PROVE CountInv'
  OBVIOUS
<1> DEFINE CountedNext == {q \in Requests : pc'[q] \in Counted}
<1> USE DEF TypeOK, threadVars, Goto, Counted, Running
<1>1. ASSUME NEW r \in Requests, DispatchAccepted(r) \/ SpawnFails(r) PROVE CountInv'
  <2>1. workers' = workers + 1 /\ r \notin CountedSet /\ CountedNext = CountedSet \cup {r}
    BY <1>1 DEF DispatchAccepted, SpawnFails, CountWorker, CountedSet
  <2>2. Cardinality(CountedSet \cup {r}) = Cardinality(CountedSet) + 1
    BY <2>1, CountFacts DEF CountedSet
  <2>3. QED  BY <2>1, <2>2 DEF CountInv, CountedSet
<1>2. ASSUME NEW r \in Requests, CountDown(r) PROVE CountInv'
  <2>1. workers' = workers - 1 /\ r \in CountedSet /\ CountedNext = CountedSet \ {r}
    BY <1>2 DEF CountDown, CountedSet
  <2>2. Cardinality(CountedSet \ {r}) = Cardinality(CountedSet) - 1
    BY <2>1, CountFacts DEF CountedSet
  <2>3. QED  BY <2>1, <2>2 DEF CountInv, CountedSet
<1>3. ASSUME NEW r \in Requests, DispatchRefused(r) PROVE CountInv'
  BY <1>3, CountKept DEF DispatchRefused
<1>4. ASSUME NEW r \in Requests,
             AcquireCallMtx(r) \/ TakePointer(r) \/ FindNoModel(r) \/ Respond(r)
      PROVE CountInv'
  BY <1>4, CountKept DEF AcquireCallMtx, TakePointer, FindNoModel, Respond
<1>5. ASSUME NEW r \in Requests, WorkerEnqueues(r) \/ ThreadExits(r) PROVE CountInv'
  BY <1>5, CountKept DEF WorkerEnqueues, ThreadExits
<1>6. CASE Drain
  BY <1>6, CountKept DEF Drain, DrainSwap, RunCallback, CallbackReturns, DrainEnds
<1>7. CASE Configure
  BY <1>7, CountKept DEF Configure, Enable, Disable, ReloadStops, ReloadStarts, managerIdle
<1>8. CASE StopBegins \/ StopStep
  BY <1>8, CountKept DEF StopBegins, StopStep, StopSeesNoWorker, StopGivesUp, StopResetsModel,
     StopClearsQueue, StopCleansUpCurl, managerIdle
<1>9. CASE UNCHANGED vars
  BY <1>9, CountKept DEF vars
<1>10. QED
  BY <1>1, <1>2, <1>3, <1>4, <1>5, <1>6, <1>7, <1>8, <1>9 DEF Next, Dispatch, Worker

\* Once stop() has seen the counter at zero nothing starts a worker again.
LEMMA QuiescesStep ==
  TypeOK /\ CountInv /\ StopQuiesces /\ [Next]_vars => StopQuiesces'
<1> SUFFICES ASSUME TypeOK, CountInv, StopQuiesces, [Next]_vars PROVE StopQuiesces'
  OBVIOUS
<1> USE DEF TypeOK, StopQuiesces, Stopping, Running, threadVars, mainVars, Goto, MainStep
<1>1. ASSUME NEW r \in Requests, Dispatch(r) PROVE StopQuiesces'
  BY <1>1 DEF Dispatch, DispatchRefused, DispatchAccepted, SpawnFails, CanDispatch
<1>2. ASSUME NEW r \in Requests, Worker(r) PROVE StopQuiesces'
  BY <1>2 DEF Worker, AcquireCallMtx, TakePointer, FindNoModel, Respond, WorkerEnqueues,
     CountDown, ThreadExits
<1>3. CASE Drain
  BY <1>3 DEF Drain, DrainSwap, RunCallback, CallbackReturns, DrainEnds
<1>4. CASE Configure
  BY <1>4 DEF Configure, Enable, Disable, ReloadStops, ReloadStarts, managerIdle
<1>5. CASE StopSeesNoWorker
  <2>1. CountedSet = {}
    BY <1>5, CountFacts DEF StopSeesNoWorker, AllCountedDown, CountInv, CountedSet
  <2>2. QED  BY <1>5, <2>1 DEF StopSeesNoWorker, managerIdle, CountedSet, Counted
<1>6. CASE StopBegins \/ StopGivesUp
  BY <1>6 DEF StopBegins, StopGivesUp, managerIdle
<1>7. CASE StopResetsModel \/ StopClearsQueue \/ StopCleansUpCurl
  BY <1>7 DEF StopResetsModel, StopClearsQueue, StopCleansUpCurl, managerIdle
<1>8. CASE UNCHANGED vars
  BY <1>8 DEF vars
<1>9. QED
  BY <1>1, <1>2, <1>3, <1>4, <1>5, <1>6, <1>7, <1>8 DEF Next, StopStep

-----------------------------------------------------------------------------
\* Every waiting callback is one of a request.
LEMMA ElementFacts ==
  ASSUME TypeOK
  PROVE  /\ \A i \in DOMAIN callbacks : callbacks[i] \in Callback /\ callbacks[i].req \in Requests
         /\ \A j \in DOMAIN batch : batch[j] \in Callback /\ batch[j].req \in Requests
<1>1. \A i \in DOMAIN callbacks : callbacks[i] \in Callback
  BY DEF TypeOK
<1>2. \A j \in DOMAIN batch : batch[j] \in Callback
  BY DEF TypeOK
<1>3. QED  BY <1>1, <1>2 DEF Callback

\* A step that leaves the deques and the history alone, and only moves requests
\* on within or outside Answered, keeps what is said of them.
LEMMA QuietStep ==
  ASSUME TypeOK, QueueInv, FreshInv, NothingForgotten,
         UNCHANGED <<callbacks, batch, outcome, lost>>,
         main' \notin {"drain", "callback"} => main \notin {"drain", "callback"} \/ batch = <<>>,
         main' \notin {"stopCurl", "stopped"} => main \notin {"stopCurl", "stopped"},
         \A q \in Requests : /\ pc'[q] \in Answered <=> pc[q] \in Answered
                             /\ pc'[q] = "refused" => pc[q] = "refused"
                             /\ pc[q] = "unstarted" => pc'[q] = "unstarted"
  PROVE  QueueInv' /\ FreshInv' /\ NothingForgotten'
<1>1. \A c \in Callback : Deliverable(c) => Deliverable(c)'
  BY DEF Deliverable, Callback
<1>2. /\ \A i \in DOMAIN callbacks' : Deliverable(callbacks[i])'
      /\ \A j \in DOMAIN batch' : Deliverable(batch[j])'
  BY <1>1, ElementFacts DEF QueueInv
<1>3. QueueInv'
  BY <1>2 DEF QueueInv, Distinct
<1>4. FreshInv'
  BY DEF FreshInv
<1>5. NothingForgotten'
  BY DEF NothingForgotten, InQueue, InBatch
<1>6. QED  BY <1>3, <1>4, <1>5

\* A step that queues the first and only answer of request r.
LEMMA EnqueueStep ==
  ASSUME TypeOK, QueueInv, FreshInv, NothingForgotten,
         NEW r \in Requests, NEW ok \in BOOLEAN, NEW to \in {"refused", "queued"},
         pc[r] \notin Answered, r \notin lost, ok => to # "refused",
         pc' = [pc EXCEPT ![r] = to], Enqueue(r, ok),
         UNCHANGED <<batch, outcome, lost, main>>
  PROVE  QueueInv' /\ FreshInv' /\ NothingForgotten'
<1> DEFINE c == [req |-> r, ok |-> ok]
<1> USE DEF TypeOK
<1>1. c \in Callback /\ callbacks' = Append(callbacks, c)
  BY DEF Callback, Enqueue
<1>2. /\ DOMAIN callbacks' = DOMAIN callbacks \cup {Len(callbacks) + 1}
      /\ \A i \in DOMAIN callbacks : callbacks'[i] = callbacks[i] /\ i # Len(callbacks) + 1
      /\ callbacks'[Len(callbacks) + 1] = c
  BY <1>1, AppendFacts
<1>3. /\ \A i \in DOMAIN callbacks : callbacks[i].req # r
      /\ \A j \in DOMAIN batch : batch[j].req # r
  BY DEF QueueInv, Deliverable
<1>4. \A d \in Callback : d.req # r /\ Deliverable(d) => Deliverable(d)'
  BY DEF Deliverable, Callback
<1>5. Deliverable(c)'
  BY DEF Deliverable, Answered, FreshInv
<1>6. \A i \in DOMAIN callbacks' : Deliverable(callbacks[i])'
  BY <1>2, <1>3, <1>4, <1>5, ElementFacts DEF QueueInv
<1>7. \A j \in DOMAIN batch' : Deliverable(batch[j])'
  BY <1>3, <1>4, ElementFacts DEF QueueInv
<1>8. Distinct(callbacks)' /\ Distinct(batch)'
  BY <1>2, <1>3 DEF Distinct, QueueInv
<1>9. \A i \in DOMAIN callbacks' : \A j \in DOMAIN batch' : callbacks'[i].req # batch'[j].req
  BY <1>2, <1>3 DEF QueueInv
<1>10. QueueInv'
  BY <1>6, <1>7, <1>8, <1>9 DEF QueueInv
<1>11. FreshInv'
  BY DEF FreshInv, Answered
<1>12. NothingForgotten'
  <2>1. \A q \in Requests : InQueue(q) => InQueue(q)'
    BY <1>2 DEF InQueue
  <2>2. InQueue(r)'
    BY <1>2 DEF InQueue
  <2>3. \A q \in Requests \ {r} : pc'[q] = pc[q]
    OBVIOUS
  <2>4. QED  BY <2>1, <2>2, <2>3 DEF NothingForgotten, InBatch
<1>13. QED  BY <1>10, <1>11, <1>12

\* The swap moves every waiting callback to the local deque.
LEMMA DrainStep ==
  ASSUME TypeOK, QueueInv, FreshInv, NothingForgotten, DrainSwap
  PROVE  QueueInv' /\ FreshInv' /\ NothingForgotten'
<1> USE DEF DrainSwap, EmptyQueue, MainStep, history
<1>1. \A c \in Callback : Deliverable(c) => Deliverable(c)'
  BY DEF Deliverable
<1>2. \A j \in DOMAIN batch' : Deliverable(batch[j])'
  BY <1>1, ElementFacts DEF QueueInv
<1>3. QueueInv'
  BY <1>2 DEF QueueInv, Distinct
<1>4. FreshInv'
  BY DEF FreshInv
<1>5. batch = <<>> /\ \A q \in Requests : ~InBatch(q)
  BY DEF QueueInv, InBatch
<1>6. NothingForgotten'
  BY <1>5 DEF NothingForgotten, InQueue, InBatch
<1>7. QED  BY <1>3, <1>4, <1>6

\* Running a callback takes it, and no other of its request, off the deque.
LEMMA RunStep ==
  ASSUME TypeOK, QueueInv, FreshInv, AnsweredOnce, NothingForgotten, RunCallback
  PROVE  QueueInv' /\ FreshInv' /\ AnsweredOnce' /\ NothingForgotten'
<1> DEFINE c == Head(batch)
<1> USE DEF TypeOK, RunCallback, MainStep
<1>1. /\ batch # <<>> /\ batch' = Tail(batch)
      /\ c \in Callback /\ c = batch[1] /\ 1 \in DOMAIN batch
      /\ \A j \in DOMAIN batch' : j + 1 \in DOMAIN batch /\ batch'[j] = batch[j + 1] /\ j + 1 # 1
      /\ \A j \in DOMAIN batch : j # 1 => j - 1 \in DOMAIN batch' /\ batch'[j - 1] = batch[j]
  BY TailFacts
<1>2. c.req \in Requests /\ outcome[c.req] = "none" /\ pc[c.req] \in Answered
  BY <1>1 DEF QueueInv, Deliverable, Callback
<1>3. /\ outcome'[c.req] \in {"succeeded", "failed"}
      /\ \A q \in Requests \ {c.req} : outcome'[q] = outcome[q]
  BY <1>2
<1>4. \A j \in DOMAIN batch' : batch'[j] \in Callback /\ batch'[j].req # c.req
  BY <1>1, ElementFacts DEF QueueInv, Distinct
<1>5. \A d \in Callback : d.req # c.req /\ Deliverable(d) => Deliverable(d)'
  BY <1>3 DEF Deliverable, Callback
<1>6. \A j \in DOMAIN batch' : Deliverable(batch[j])'
  BY <1>1, <1>4, <1>5 DEF QueueInv
<1>7. \A i \in DOMAIN callbacks' : Deliverable(callbacks[i])'
  <2>1. \A i \in DOMAIN callbacks : callbacks[i].req # c.req
    BY <1>1 DEF QueueInv
  <2>2. QED  BY <2>1, <1>5, ElementFacts DEF QueueInv
<1>8. Distinct(batch)' /\ Distinct(callbacks)'
  <2>1. ASSUME NEW i \in DOMAIN batch', NEW j \in DOMAIN batch', batch'[i].req = batch'[j].req
        PROVE  i = j
    <3>1. i \in Nat /\ j \in Nat
      BY <1>1, TailFacts
    <3>2. i + 1 = j + 1
      BY <1>1, <2>1 DEF QueueInv, Distinct
    <3>3. QED  BY <3>1, <3>2
  <2>2. QED  BY <2>1 DEF Distinct, QueueInv
<1>9. \A i \in DOMAIN callbacks' : \A j \in DOMAIN batch' : callbacks'[i].req # batch'[j].req
  BY <1>1 DEF QueueInv
<1>10. QueueInv'
  BY <1>6, <1>7, <1>8, <1>9 DEF QueueInv
<1>11. FreshInv'
  BY <1>1, <1>2, <1>3 DEF FreshInv, QueueInv, Deliverable
<1>12. AnsweredOnce'
  BY <1>3 DEF AnsweredOnce
<1>13. NothingForgotten'
  <2>1. \A q \in Requests : InBatch(q) => InBatch(q)' \/ outcome'[q] # "none"
    <3>1. ASSUME NEW q \in Requests, NEW j \in DOMAIN batch, batch[j].req = q
          PROVE  InBatch(q)' \/ outcome'[q] # "none"
      <4>1. CASE j = 1
        BY <1>1, <1>3, <3>1, <4>1
      <4>2. CASE j # 1
        BY <1>1, <3>1, <4>2 DEF InBatch
      <4>3. QED  BY <4>1, <4>2
    <3>2. QED  BY <3>1 DEF InBatch
  <2>2. \A q \in Requests : outcome[q] # "none" => outcome'[q] # "none"
    BY <1>3
  <2>3. QED  BY <2>1, <2>2 DEF NothingForgotten, InQueue
<1>14. QED  BY <1>10, <1>11, <1>12, <1>13

\* The exception that leaves dispatch() discards the rest of the local deque.
LEMMA SpawnFailsStep ==
  ASSUME TypeOK, QueueInv, FreshInv, NothingForgotten, NEW r \in Requests, SpawnFails(r)
  PROVE  QueueInv' /\ FreshInv' /\ NothingForgotten'
<1> USE DEF TypeOK, SpawnFails, Goto, threadVars, mainVars
<1>1. /\ pc[r] \notin Answered
      /\ \A q \in Requests \ {r} : pc'[q] = pc[q]
      /\ pc'[r] = "unstarted" /\ pc'[r] \notin Answered
  BY DEF Answered
<1>2. \A i \in DOMAIN callbacks : callbacks[i].req \notin lost'
  BY <1>1 DEF QueueInv, Deliverable
<1>3. \A i \in DOMAIN callbacks' : Deliverable(callbacks[i])'
  <2>1. \A i \in DOMAIN callbacks : callbacks[i].req # r
    BY <1>1 DEF QueueInv, Deliverable
  <2>2. QED  BY <1>1, <1>2, <2>1, ElementFacts DEF QueueInv, Deliverable
<1>4. QueueInv'
  BY <1>3 DEF QueueInv, Distinct
<1>5. FreshInv'
  <2>1. \A j \in DOMAIN batch : /\ pc[batch[j].req] \in Answered
                                /\ outcome[batch[j].req] = "none"
                                /\ batch[j].req # r
    BY <1>1 DEF QueueInv, Deliverable
  <2>2. ASSUME NEW q \in lost'
        PROVE  pc'[q] \in Answered \cup {"unstarted"} /\ outcome'[q] = "none"
    <3>1. CASE q = r
      BY <1>1, <3>1 DEF FreshInv
    <3>2. CASE q \in lost /\ q # r
      BY <1>1, <3>2 DEF FreshInv
    <3>3. ASSUME NEW j \in DOMAIN batch, q = batch[j].req
          PROVE  pc'[q] \in Answered /\ outcome'[q] = "none"
      BY <1>1, <2>1, <3>3, ElementFacts
    <3>4. QED  BY <2>2, <3>1, <3>2, <3>3
  <2>3. ASSUME NEW q \in Requests, outcome'[q] # "none" PROVE pc'[q] \in Answered
    BY <1>1, <2>3 DEF FreshInv
  <2>4. QED  BY <2>2, <2>3 DEF FreshInv
<1>6. \A q \in Requests : InBatch(q) => q \in lost'
  BY DEF InBatch
<1>7. main' \notin {"stopCurl", "stopped"} /\ main \notin {"stopCurl", "stopped"}
  BY DEF CanDispatch
<1>8. NothingForgotten'
  BY <1>1, <1>6, <1>7 DEF NothingForgotten, InQueue
<1>9. QED  BY <1>4, <1>5, <1>8

\* No step duplicates or loses sight of an answer.
LEMMA QueueStep ==
  ASSUME TypeOK, QueueInv, FreshInv, AnsweredOnce, NothingForgotten, [Next]_vars
  PROVE  QueueInv' /\ FreshInv' /\ AnsweredOnce' /\ NothingForgotten'
<1> DEFINE Goal == QueueInv' /\ FreshInv' /\ AnsweredOnce' /\ NothingForgotten'
<1> USE DEF TypeOK, threadVars, mainVars, history, Goto, MainStep
<1>1. ASSUME UNCHANGED outcome PROVE AnsweredOnce'
  BY <1>1 DEF AnsweredOnce
<1>2. ASSUME NEW r \in Requests, DispatchRefused(r) PROVE Goal
  <2>1. pc[r] \notin Answered /\ r \notin lost
    BY <1>2 DEF DispatchRefused, Answered, FreshInv
  <2>2. QED  BY <1>1, <1>2, <2>1, EnqueueStep DEF DispatchRefused
<1>3. ASSUME NEW r \in Requests, WorkerEnqueues(r) PROVE Goal
  <2>1. pc[r] \notin Answered /\ r \notin lost
    BY <1>3 DEF WorkerEnqueues, Answered, FreshInv
  <2>2. QED  BY <1>1, <1>3, <2>1, EnqueueStep DEF WorkerEnqueues, EnqueueReply
<1>4. ASSUME NEW r \in Requests, SpawnFails(r) PROVE Goal
  BY <1>1, <1>4, SpawnFailsStep DEF SpawnFails
<1>5. ASSUME NEW r \in Requests, DispatchAccepted(r) PROVE Goal
  BY <1>1, <1>5, QuietStep DEF DispatchAccepted, Answered
<1>6. ASSUME NEW r \in Requests,
             AcquireCallMtx(r) \/ TakePointer(r) \/ FindNoModel(r) \/ Respond(r)
      PROVE Goal
  BY <1>1, <1>6, QuietStep DEF AcquireCallMtx, TakePointer, FindNoModel, Respond, Answered
<1>7. ASSUME NEW r \in Requests, CountDown(r) \/ ThreadExits(r) PROVE Goal
  BY <1>1, <1>7, QuietStep DEF CountDown, ThreadExits, Answered
<1>8. CASE DrainSwap
  BY <1>1, <1>8, DrainStep DEF DrainSwap
<1>9. CASE RunCallback
  BY <1>9, RunStep
<1>10. CASE CallbackReturns \/ DrainEnds
  BY <1>1, <1>10, QuietStep DEF CallbackReturns, DrainEnds
<1>11. CASE Configure
  BY <1>1, <1>11, QuietStep DEF Configure, Enable, Disable, ReloadStops, ReloadStarts, managerIdle
<1>12. CASE StopClearsQueue
  <2>1. \A c \in Callback : Deliverable(c) => Deliverable(c)'
    BY <1>12 DEF StopClearsQueue, Deliverable
  <2>2. QueueInv'
    BY <1>12, <2>1, ElementFacts DEF StopClearsQueue, QueueInv, Distinct
  <2>3. FreshInv' /\ NothingForgotten'
    BY <1>12 DEF StopClearsQueue, FreshInv, NothingForgotten
  <2>4. QED  BY <1>1, <1>12, <2>2, <2>3 DEF StopClearsQueue
<1>13. CASE StopBegins \/ StopSeesNoWorker \/ StopGivesUp \/ StopResetsModel \/ StopCleansUpCurl
  BY <1>1, <1>13, QuietStep DEF StopBegins, StopSeesNoWorker, StopGivesUp, StopResetsModel,
     StopCleansUpCurl, managerIdle
<1>14. CASE UNCHANGED vars
  BY <1>1, <1>14, QuietStep DEF vars
<1>15. QED
  BY <1>2, <1>3, <1>4, <1>5, <1>6, <1>7, <1>8, <1>9, <1>10, <1>11, <1>12, <1>13, <1>14
     DEF Next, Dispatch, Worker, Drain, StopStep

-----------------------------------------------------------------------------
\* At the start nothing is queued, counted or locked.
LEMMA InvInit == Init => IInv
<1> SUFFICES ASSUME Init PROVE IInv
  OBVIOUS
<1>1. TypeOK
  BY TypeInit
<1>2. LockInv
  BY ConstantsAssumption DEF ConstantsAssumption, Init, LockInv
<1>3. CountInv
  <2>1. CountedSet = {}
    BY DEF Init, CountedSet, Counted, Running
  <2>2. QED  BY <2>1, CountFacts DEF CountInv, CountedSet, Init
<1>4. QueueInv
  BY DEF Init, QueueInv, Distinct
<1>5. FreshInv /\ AnsweredOnce /\ NothingForgotten /\ StopQuiesces
  BY DEF Init, FreshInv, AnsweredOnce, NothingForgotten, StopQuiesces, Answered, Stopping
<1>6. QED  BY <1>1, <1>2, <1>3, <1>4, <1>5 DEF IInv

\* The conjunction IInv is inductive: the lock, the counter and the queues
\* agree with the threads after every step of dispatch(), of a worker, of
\* drain_callback_queue(), of the loader and of stop().
THEOREM Invariance == Spec => []IInv
<1>1. Init => IInv
  BY InvInit
<1>2. IInv /\ [Next]_vars => IInv'
  BY TypeStep, LockStep, CountStep, QuiescesStep, QueueStep DEF IInv
<1>3. QED  BY <1>1, <1>2, PTL DEF Spec

\* The manager's state keeps its types; g_active_workers never goes negative,
\* also when the creation of a thread throws.
THEOREM TypeCorrect == Spec => []TypeOK
<1>1. IInv => TypeOK
  BY DEF IInv
<1>2. QED  BY <1>1, Invariance, PTL

\* For any number of workers at most one is inside the model at a time.
THEOREM Serialised == Spec => []CallsSerialised
<1>1. IInv => CallsSerialised
  BY DEF IInv, LockInv, CallsSerialised
<1>2. QED  BY <1>1, Invariance, PTL

\* No callback handed to the manager is ever run twice.
THEOREM AtMostOneAnswer == Spec => []AnsweredOnce
<1>1. IInv => AnsweredOnce
  BY DEF IInv
<1>2. QED  BY <1>1, Invariance, PTL

\* No answer falls between the queue, the drained deque and the callback.
THEOREM NoAnswerForgotten == Spec => []NothingForgotten
<1>1. IInv => NothingForgotten
  BY DEF IInv
<1>2. QED  BY <1>1, Invariance, PTL

\* stop() that did not give up waiting tears down nothing a worker still uses.
THEOREM QuietTeardown == Spec => []StopQuiesces
<1>1. IInv => StopQuiesces
  BY DEF IInv
<1>2. QED  BY <1>1, Invariance, PTL

-----------------------------------------------------------------------------
(* The refinement of LmService.                                            *)

AStatus == [r \in Requests |-> AbstractStatus(r)]
AVars == <<Open /\ lm # NoModel, Open, AStatus>>

\* A step that answers, asks and loses nothing leaves the status of every
\* request alone.
LEMMA StatusKept ==
  ASSUME TypeOK, UNCHANGED <<outcome, lost>>, Open' = Open,
         \A q \in Requests : /\ pc'[q] = "unasked" <=> pc[q] = "unasked"
                             /\ pc'[q] = "refused" <=> pc[q] = "refused"
  PROVE  AStatus' = AStatus
<1>1. \A q \in Requests : AbstractStatus(q)' = AbstractStatus(q)
  BY DEF AbstractStatus, TypeOK
<1>2. QED  BY <1>1 DEF AStatus

\* Every step of the manager is a step of the service or changes nothing that
\* the service shows.
LEMMA StepImplements == IInv /\ [Next]_vars => [Service!Next]_(Service!vars)
<1> SUFFICES ASSUME IInv, [Next]_vars PROVE [Service!Next]_(Service!vars)
  OBVIOUS
<1> USE DEF threadVars, mainVars, history, Goto, MainStep
<1>0. TypeOK /\ QueueInv /\ FreshInv /\ Service!vars = AVars /\ Service!vars' = AVars'
  BY DEF IInv, Service!vars, AVars, AStatus
<1>1. ASSUME NEW r \in Requests, DispatchRefused(r) \/ DispatchAccepted(r)
      PROVE  Service!Ask(r)
  <2>1. Open /\ Open' /\ UNCHANGED <<lm, outcome, lost>> /\ pc[r] = "unasked"
    BY <1>1 DEF DispatchRefused, DispatchAccepted, Open, CanDispatch, Stopping
  <2>2. pc' = [pc EXCEPT ![r] = IF lm # NoModel THEN "spawned" ELSE "refused"]
    BY <1>1 DEF DispatchRefused, DispatchAccepted, LmReady
  <2>3. outcome[r] = "none" /\ r \notin lost
    BY <1>0, <2>1 DEF FreshInv, Answered
  <2>4. /\ AbstractStatus(r) = "fresh"
        /\ AbstractStatus(r)' = IF lm # NoModel THEN "pending" ELSE "refused"
    BY <1>0, <2>1, <2>2, <2>3 DEF AbstractStatus, TypeOK
  <2>5. \A q \in Requests \ {r} : AbstractStatus(q)' = AbstractStatus(q)
    BY <1>0, <2>1, <2>2 DEF AbstractStatus, TypeOK
  <2>6. AStatus' = [AStatus EXCEPT ![r] = IF lm # NoModel THEN "pending" ELSE "refused"]
    BY <2>4, <2>5 DEF AStatus
  <2>7. QED  BY <2>1, <2>4, <2>6 DEF Service!Ask, AStatus
<1>2. ASSUME NEW r \in Requests, SpawnFails(r)
      PROVE  Service!Abort(r, {batch[i].req : i \in DOMAIN batch})
  <2> DEFINE R == {batch[i].req : i \in DOMAIN batch}
  <2>1. /\ Open /\ Open' /\ UNCHANGED <<lm, outcome>> /\ SpawnMayFail
        /\ lost' = lost \cup {r} \cup R
        /\ pc[r] = "unasked" /\ pc' = [pc EXCEPT ![r] = "unstarted"]
    BY <1>2 DEF SpawnFails, Open, CanDispatch, Stopping
  <2>2. \A q \in R : /\ q \in Requests /\ pc[q] \in Answered /\ outcome[q] = "none"
                     /\ q \notin lost
    BY <1>0, ElementFacts DEF QueueInv, Deliverable
  <2>3. AbstractStatus(r) = "fresh" /\ \A q \in R : AbstractStatus(q) \in {"pending", "refused"}
    <3> HIDE DEF R
    <3>1. AbstractStatus(r) = "fresh"
      BY <2>1 DEF AbstractStatus
    <3>2. ASSUME NEW q \in R PROVE AbstractStatus(q) \in {"pending", "refused"}
      <4>1. pc[q] # "unasked"
        BY <2>2 DEF Answered
      <4>2. QED  BY <2>1, <2>2, <4>1 DEF AbstractStatus
    <3>3. QED  BY <3>1, <3>2
  <2>4. outcome[r] = "none"
    BY <1>0, <2>1 DEF FreshInv, Answered
  <2>5. \A q \in R \cup {r} : AbstractStatus(q)' = "dropped"
    BY <1>0, <2>1, <2>2, <2>4 DEF AbstractStatus, TypeOK, Answered
  <2>6. \A q \in Requests \ (R \cup {r}) : AbstractStatus(q)' = AbstractStatus(q)
    BY <1>0, <2>1 DEF AbstractStatus, TypeOK
  <2>7. AStatus' = [q \in Requests |-> IF q \in R \cup {r} THEN "dropped" ELSE AStatus[q]]
    BY <2>5, <2>6 DEF AStatus
  <2>8. \A q \in R : AStatus[q] \in {"pending", "refused"}
    BY <2>2, <2>3 DEF AStatus
  <2>9. QED  BY <2>1, <2>3, <2>7, <2>8 DEF Service!Abort, Service!Waiting, AStatus
<1>3. ASSUME NEW r \in Requests, Worker(r) PROVE UNCHANGED AVars
  <2>1. UNCHANGED <<outcome, lost, lm, main>>
    BY <1>3 DEF Worker, AcquireCallMtx, TakePointer, FindNoModel, Respond, WorkerEnqueues,
       CountDown, ThreadExits
  <2>2. \A q \in Requests : /\ pc'[q] = "unasked" <=> pc[q] = "unasked"
                            /\ pc'[q] = "refused" <=> pc[q] = "refused"
    BY <1>0, <1>3 DEF TypeOK, Worker, AcquireCallMtx, TakePointer, FindNoModel, Respond,
       WorkerEnqueues, CountDown, ThreadExits
  <2>3. QED  BY <1>0, <2>1, <2>2, StatusKept DEF AVars, Open
<1>4. ASSUME DrainSwap \/ CallbackReturns \/ DrainEnds PROVE UNCHANGED AVars
  <2>1. UNCHANGED <<outcome, lost, lm, pc>> /\ Open' = Open
    BY <1>4 DEF DrainSwap, CallbackReturns, DrainEnds, Open, Stopping
  <2>2. QED  BY <1>0, <2>1, StatusKept DEF AVars
<1>5. ASSUME RunCallback PROVE \E r \in Requests : Service!Succeed(r) \/ Service!Fail(r)
  <2>1. /\ Head(batch) \in Callback
        /\ Head(batch) = batch[1] /\ 1 \in DOMAIN batch
    BY <1>0, <1>5, TailFacts DEF TypeOK, RunCallback
  <2>2. PICK c \in Callback : c = Head(batch)
    BY <2>1
  <2>3. c.req \in Requests /\ c.ok \in BOOLEAN /\ Deliverable(c)
    BY <1>0, <2>1, <2>2 DEF Callback, QueueInv
  <2>4. Open /\ Open' /\ UNCHANGED <<lm, pc, lost>>
    BY <1>5 DEF RunCallback, Open, Stopping
  <2>5. outcome' = [outcome EXCEPT ![c.req] = IF c.ok THEN "succeeded" ELSE "failed"]
    BY <1>5, <2>2, <2>3 DEF RunCallback, Deliverable
  <2>6. /\ pc[c.req] # "unasked" /\ outcome[c.req] = "none" /\ c.req \notin lost
        /\ c.ok => pc[c.req] # "refused"
    BY <2>3 DEF Deliverable, Answered
  <2>7. /\ AbstractStatus(c.req) \in {"pending", "refused"}
        /\ c.ok => AbstractStatus(c.req) = "pending"
    BY <2>4, <2>6 DEF AbstractStatus
  <2>8. AbstractStatus(c.req)' = IF c.ok THEN "succeeded" ELSE "failed"
    BY <1>0, <2>3, <2>4, <2>5, <2>6 DEF AbstractStatus, TypeOK
  <2>9. \A q \in Requests \ {c.req} : AbstractStatus(q)' = AbstractStatus(q)
    BY <1>0, <2>3, <2>4, <2>5 DEF AbstractStatus, TypeOK
  <2>10. AStatus' = [AStatus EXCEPT ![c.req] = IF c.ok THEN "succeeded" ELSE "failed"]
    BY <2>3, <2>8, <2>9 DEF AStatus
  <2>11. AStatus[c.req] = AbstractStatus(c.req)
    BY <2>3 DEF AStatus
  <2>12. CASE c.ok
    <3>1. Service!Succeed(c.req)
      BY <2>4, <2>7, <2>10, <2>11, <2>12 DEF Service!Succeed, AStatus
    <3>2. QED  BY <2>3, <3>1
  <2>13. CASE ~c.ok
    <3>1. Service!Fail(c.req)
      BY <2>4, <2>7, <2>10, <2>11, <2>13 DEF Service!Fail, Service!Waiting, AStatus
    <3>2. QED  BY <2>3, <3>1
  <2>14. QED  BY <2>12, <2>13
<1>6. ASSUME Configure PROVE Service!Configure((lm # NoModel)')
  <2>1. UNCHANGED <<outcome, lost, pc>> /\ Open /\ Open'
    BY <1>6 DEF Configure, Enable, Disable, ReloadStops, ReloadStarts, managerIdle, Open, Stopping
  <2>2. AStatus' = AStatus
    BY <1>0, <2>1, StatusKept
  <2>3. QED  BY <2>1, <2>2 DEF Service!Configure, AStatus
<1>7. ASSUME StopBegins PROVE Service!Close
  <2>1. UNCHANGED <<outcome, lost, pc>> /\ Open /\ ~Open'
    BY <1>7 DEF StopBegins, managerIdle, Open, Stopping
  <2>2. \A q \in Requests :
          AbstractStatus(q)' = IF AbstractStatus(q) \in {"pending", "refused"} THEN "dropped"
                                                                     ELSE AbstractStatus(q)
    BY <1>0, <2>1 DEF AbstractStatus, TypeOK
  <2>3. QED  BY <2>1, <2>2 DEF Service!Close, Service!Waiting
<1>8. ASSUME StopStep PROVE UNCHANGED AVars
  <2>1. UNCHANGED <<outcome, lost, pc>> /\ ~Open /\ ~Open'
    BY <1>8 DEF StopStep, StopSeesNoWorker, StopGivesUp, StopResetsModel, StopClearsQueue,
       StopCleansUpCurl, managerIdle, Open, Stopping
  <2>2. AStatus' = AStatus /\ Open' = Open
    <3>1. Open' = Open
      BY <2>1, Zenon DEF Open
    <3>2. QED  BY <1>0, <2>1, <3>1, StatusKept
  <2>3. (Open /\ lm # NoModel)' = (Open /\ lm # NoModel)
    BY <2>1
  <2>4. QED  BY <2>2, <2>3, Zenon DEF AVars
<1>9. ASSUME UNCHANGED vars PROVE UNCHANGED AVars
  <2>1. UNCHANGED <<outcome, lost, pc, lm, main>>
    BY <1>9 DEF vars
  <2>2. QED  BY <1>0, <2>1, StatusKept DEF AVars, Open
<1>10. CASE \E r \in Requests : Dispatch(r) \/ Worker(r)
  <2> PICK r \in Requests : Dispatch(r) \/ Worker(r)
    BY <1>10
  <2>1. {batch[i].req : i \in DOMAIN batch} \in SUBSET Requests
    BY <1>0, ElementFacts
  <2>2. CASE DispatchRefused(r) \/ DispatchAccepted(r)
    BY <1>1, <2>2 DEF Service!Next
  <2>3. CASE SpawnFails(r)
    <3>1. \E R \in SUBSET Requests : Service!Abort(r, R)
      BY <1>2, <2>1, <2>3
    <3>2. QED  BY <3>1 DEF Service!Next
  <2>4. CASE Worker(r)
    BY <1>0, <1>3, <2>4
  <2>5. QED  BY <2>2, <2>3, <2>4 DEF Dispatch
<1>11. CASE Drain
  <2>1. CASE DrainSwap \/ CallbackReturns \/ DrainEnds
    BY <1>0, <1>4, <2>1
  <2>2. CASE RunCallback
    BY <1>5, <2>2 DEF Service!Next
  <2>3. QED  BY <1>11, <2>1, <2>2 DEF Drain
<1>12. CASE Configure
  <2>1. (lm # NoModel)' \in BOOLEAN
    OBVIOUS
  <2>2. \E b \in BOOLEAN : Service!Configure(b)
    BY <1>6, <1>12, <2>1
  <2>3. QED  BY <2>2 DEF Service!Next
<1>13. CASE StopBegins
  BY <1>7, <1>13 DEF Service!Next
<1>14. CASE StopStep \/ UNCHANGED vars
  BY <1>0, <1>8, <1>9, <1>14
<1>15. QED
  BY <1>10, <1>11, <1>12, <1>13, <1>14 DEF Next

\* The manager, with its threads, locks, queues, failing thread creations and
\* calls that outlast stop(), implements the service that manager.hpp promises.
THEOREM Refinement == Spec => ImplementsService
<1>1. Init => Service!Init
  <2> SUFFICES ASSUME Init PROVE Service!Init
    OBVIOUS
  <2>1. \A r \in Requests : AbstractStatus(r) = "fresh"
    BY DEF Init, AbstractStatus
  <2>2. QED  BY <2>1 DEF Init, Service!Init, Open, Stopping
<1>2. IInv /\ [Next]_vars => [Service!Next]_(Service!vars)
  BY StepImplements
<1>3. QED  BY <1>1, <1>2, Invariance, PTL DEF Spec, ImplementsService, Service!Spec
=============================================================================
