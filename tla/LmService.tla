------------------------------ MODULE LmService ------------------------------
(***************************************************************************)
(* What backends/manager.hpp promises to the scorer and the evaluator: a   *)
(* request handed to respond_async() or respond_json_async() is answered   *)
(* on the main thread at most once, with success only if a backend was     *)
(* registered when it was asked; once the service closes nothing that is   *)
(* still open is answered any more.  How threads, locks and queues bring   *)
(* that about is the business of LmManager, which implements this module.  *)
(***************************************************************************)

CONSTANTS Requests,  \* the requests ever made, each made at most once
          MayLose    \* TRUE where creating a thread may fail

VARIABLES backend,   \* is a language model registered?
          open,      \* the service has not begun to stop
          status     \* status[r]: what became of request r

vars == <<backend, open, status>>

Waiting == {"pending", "refused"}
Status == Waiting \cup {"fresh", "succeeded", "failed", "dropped"}

TypeOK == /\ backend \in BOOLEAN
          /\ open \in BOOLEAN
          /\ status \in [Requests -> Status]

Init == /\ backend = FALSE
        /\ open = TRUE
        /\ status = [r \in Requests |-> "fresh"]

\* A request without a backend is refused: it can only be answered with failure.
Ask(r) == /\ open
          /\ status[r] = "fresh"
          /\ status' = [status EXCEPT ![r] = IF backend THEN "pending" ELSE "refused"]
          /\ UNCHANGED <<backend, open>>

Succeed(r) == /\ open
              /\ status[r] = "pending"
              /\ status' = [status EXCEPT ![r] = "succeeded"]
              /\ UNCHANGED <<backend, open>>

Fail(r) == /\ open
           /\ status[r] \in Waiting
           /\ status' = [status EXCEPT ![r] = "failed"]
           /\ UNCHANGED <<backend, open>>

\* The request r could not be started, and R are lost with it.
Abort(r, R) == /\ MayLose /\ open
               /\ status[r] = "fresh"
               /\ \A q \in R : status[q] \in Waiting
               /\ status' = [q \in Requests |-> IF q \in R \cup {r} THEN "dropped" ELSE status[q]]
               /\ UNCHANGED <<backend, open>>

Configure(b) == /\ open
                /\ backend' = b
                /\ UNCHANGED <<open, status>>

Close == /\ open
         /\ open' = FALSE
         /\ backend' = FALSE
         /\ status' = [q \in Requests |-> IF status[q] \in Waiting THEN "dropped" ELSE status[q]]

Next == \/ \E r \in Requests : \/ Ask(r) \/ Succeed(r) \/ Fail(r)
                               \/ \E R \in SUBSET Requests : Abort(r, R)
        \/ \E b \in BOOLEAN : Configure(b)
        \/ Close

Spec == Init /\ [][Next]_vars
=============================================================================
