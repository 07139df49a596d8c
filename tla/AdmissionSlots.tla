--------------------------- MODULE AdmissionSlots ---------------------------
(***************************************************************************)
(* Admission control of the web layer (webapp/app.py).  A reconciliation   *)
(* request takes one of Slots permits of a bounded semaphore before its    *)
(* body is read; the permit belongs to a _ReconciliationSlot, which the    *)
(* event loop (handler and middleware) and the worker thread that runs the *)
(* engine hand over between them, and which exactly one of them returns.   *)
(*                                                                         *)
(* The methods of _ReconciliationSlot run under its lock, so each is one   *)
(* step.  Leaving asyncio.wait_for does not stop a thread that has begun;  *)
(* one still in the executor's queue may be dropped, or may begin first.   *)
(* The names of the specification carry a prefix so that one module can    *)
(* prove about this one and Submission.                                    *)
(***************************************************************************)
EXTENDS Naturals, FiniteSets

CONSTANTS Calls,      \* requests to the three reconciliation endpoints
          Slots       \* _RECONCILE_SLOTS (2 in the code)

ASSUME SlotsAssumption == Slots \in Nat /\ IsFiniteSet(Calls)

VARIABLES
    semaphore,  \* permits left in _RECONCILE_SEMAPHORE
    slot,       \* slot[r]: state of r's _ReconciliationSlot, "none" before admission
    handler,    \* handler[r]: where the request is on the event loop
    thread      \* thread[r]: where its worker() is

slotVars == <<semaphore, slot, handler, thread>>

SlotsTypeOK ==
    /\ semaphore \in 0 .. Slots
    /\ slot \in [Calls -> {"none", "held", "running", "freed"}]
    /\ handler \in [Calls -> {"new", "reading", "waiting", "raised", "unwinding",
                              "done"}]
    /\ thread \in [Calls -> {"none", "queued", "started", "executing", "ended"}]

SlotsInit ==
    /\ semaphore = Slots
    /\ slot = [r \in Calls |-> "none"]
    /\ handler = [r \in Calls |-> "new"]
    /\ thread = [r \in Calls |-> "none"]

Move(r, l) == handler' = [handler EXCEPT ![r] = l]

(***************************************************************************)
(* _ReconciliationSlot.                                                    *)
(***************************************************************************)

\* Faults for sensitivity: the handler returns the permit of a running worker too, or
\* forgets to return it.
FaultReleaseRunning(r) ==
    IF slot[r] \in {"held", "running"}
    THEN slot' = [slot EXCEPT ![r] = "freed"] /\ semaphore' = semaphore + 1
    ELSE UNCHANGED <<slot, semaphore>>

FaultReleaseForgets(r) == UNCHANGED <<slot, semaphore>>

release_if_held(r) ==
    IF slot[r] = "held"
    THEN slot' = [slot EXCEPT ![r] = "freed"] /\ semaphore' = semaphore + 1
    ELSE UNCHANGED <<slot, semaphore>>

\* mark_running, and the early return of worker() when it says no.
mark_running(r) ==
    IF slot[r] = "held"
    THEN /\ slot' = [slot EXCEPT ![r] = "running"]
         /\ thread' = [thread EXCEPT ![r] = "executing"]
    ELSE /\ thread' = [thread EXCEPT ![r] = "ended"]
         /\ UNCHANGED slot

\* In any other state than running the code raises RuntimeError.
release_from_worker(r) ==
    /\ slot[r] = "running"
    /\ slot' = [slot EXCEPT ![r] = "freed"]
    /\ semaphore' = semaphore + 1

(***************************************************************************)
(* The middleware and the handler.                                         *)
(***************************************************************************)

\* acquire(timeout=0) succeeds.
Admit(r) ==
    /\ handler[r] = "new"
    /\ semaphore > 0
    /\ semaphore' = semaphore - 1
    /\ slot' = [slot EXCEPT ![r] = "held"]
    /\ Move(r, "reading")
    /\ UNCHANGED thread

\* 503 before the body is read.
Refuse(r) ==
    /\ handler[r] = "new"
    /\ semaphore = 0
    /\ Move(r, "done")
    /\ UNCHANGED <<semaphore, slot, thread>>

\* An upload is too large, too slow or malformed, or the client goes away.
ReadRaises(r) ==
    /\ handler[r] = "reading"
    /\ Move(r, "unwinding")
    /\ UNCHANGED <<semaphore, slot, thread>>

\* asyncio.wait_for(asyncio.to_thread(worker)).
Offload(r) ==
    /\ handler[r] = "reading"
    /\ Move(r, "waiting")
    /\ thread' = [thread EXCEPT ![r] = "queued"]
    /\ UNCHANGED <<semaphore, slot>>

\* The worker's result or exception arrives.
WorkerReturns(r) ==
    /\ handler[r] = "waiting"
    /\ thread[r] = "ended"
    /\ Move(r, "unwinding")
    /\ UNCHANGED <<semaphore, slot, thread>>

\* TimeoutError after 90 seconds, or CancelledError: the wait is over.
GiveUp(r) ==
    /\ handler[r] = "waiting"
    /\ Move(r, "raised")
    /\ UNCHANGED <<semaphore, slot, thread>>

\* The except clauses of _run_safely_bytes_async.
HandlerReleases(r) ==
    /\ handler[r] = "raised"
    /\ release_if_held(r)
    /\ Move(r, "unwinding")
    /\ UNCHANGED thread

\* The middleware is cancelled itself: its finally clause runs before the handler's.
MiddlewareCancelled(r) ==
    /\ handler[r] \in {"reading", "waiting"}
    /\ release_if_held(r)
    /\ Move(r, "raised")
    /\ UNCHANGED thread

\* The finally clause of the middleware.
MiddlewareReleases(r) ==
    /\ handler[r] = "unwinding"
    /\ release_if_held(r)
    /\ Move(r, "done")
    /\ UNCHANGED thread

(***************************************************************************)
(* The worker thread.                                                      *)
(***************************************************************************)
StartThread(r) ==
    /\ thread[r] = "queued"
    /\ thread' = [thread EXCEPT ![r] = "started"]
    /\ UNCHANGED <<semaphore, slot, handler>>

\* A cancelled future is dropped from the executor's queue.
DropThread(r) ==
    /\ thread[r] = "queued"
    /\ handler[r] \in {"raised", "unwinding", "done"}
    /\ thread' = [thread EXCEPT ![r] = "ended"]
    /\ UNCHANGED <<semaphore, slot, handler>>

TakeOver(r) ==
    /\ thread[r] = "started"
    /\ mark_running(r)
    /\ UNCHANGED <<semaphore, handler>>

\* reconcile_bytes returns or raises; the finally clause gives the permit back.
FinishEngine(r) ==
    /\ thread[r] = "executing"
    /\ release_from_worker(r)
    /\ thread' = [thread EXCEPT ![r] = "ended"]
    /\ UNCHANGED handler

HandlerStep(r) ==
    \/ ReadRaises(r)
    \/ Offload(r)
    \/ WorkerReturns(r)
    \/ GiveUp(r)
    \/ HandlerReleases(r)
    \/ MiddlewareReleases(r)

ThreadStep(r) == StartThread(r) \/ TakeOver(r) \/ FinishEngine(r)

SlotsNext ==
    \E r \in Calls :
        \/ Admit(r)
        \/ Refuse(r)
        \/ HandlerStep(r)
        \/ MiddlewareCancelled(r)
        \/ DropThread(r)
        \/ ThreadStep(r)

SlotsSpec == SlotsInit /\ [][SlotsNext]_slotVars

(***************************************************************************)
(* Fairness: the event loop and the executor keep running, reading and     *)
(* waiting are limited by timeouts, and the engine terminates.             *)
(***************************************************************************)
SlotsFairSpec ==
    SlotsSpec /\ \A r \in Calls : WF_slotVars(HandlerStep(r)) /\ WF_slotVars(ThreadStep(r))

(***************************************************************************)
(* Properties.                                                             *)
(***************************************************************************)
Executing == {r \in Calls : thread[r] = "executing"}

Owned == {r \in Calls : slot[r] \in {"held", "running"}}

\* "This guarantees that no more than 2 worker threads can execute simultaneously": also
\* while timed-out and cancelled requests leave their threads behind.
ExecutingBounded == Cardinality(Executing) <= Slots

\* No permit is lost or returned twice, so the BoundedSemaphore never raises.
PermitsBalance == semaphore + Cardinality(Owned) = Slots

\* A worker that has begun owns its slot to its end, whatever the event loop does with
\* the request: release_from_worker never finds a state it would raise for.
WorkerOwnsSlot == \A r \in Calls : thread[r] = "executing" <=> slot[r] = "running"

\* Capacity comes back: every admitted request gives its permit back in the end.
PermitReturned == \A r \in Calls : r \in Owned ~> r \notin Owned
=============================================================================
