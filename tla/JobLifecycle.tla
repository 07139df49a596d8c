---------------------------- MODULE JobLifecycle ----------------------------
(***************************************************************************)
(* What the queue promises a caller who polls GET /api/tenant/jobs/{id}:   *)
(* no leases, tokens, workers, stages or object store.  A job is attempted *)
(* at most MaxAttempts times, results appear together with the status      *)
(* completed and are never replaced, and a job that has ended does not     *)
(* start again.  The one change an ended job may still see is failed to    *)
(* cancelled, from a cancellation that read the job before it failed.      *)
(***************************************************************************)
EXTENDS Naturals

CONSTANTS Jobs, MaxAttempts

VARIABLES phase,      \* phase[j]: the status the caller sees
          attempts,   \* attempts[j]: how often j has been started
          results     \* results[j]: which attempt's results are stored, 0 if none

vars == <<phase, attempts, results>>

Init ==
    /\ phase = [j \in Jobs |-> "queued"]
    /\ attempts = [j \in Jobs |-> 0]
    /\ results = [j \in Jobs |-> 0]

\* A worker starts j, or takes it over from one whose lease ran out.
Start(j) ==
    /\ phase[j] \in {"queued", "running"}
    /\ attempts[j] < MaxAttempts
    /\ phase' = [phase EXCEPT ![j] = "running"]
    /\ attempts' = [attempts EXCEPT ![j] = @ + 1]
    /\ UNCHANGED results

Requeue(j) ==
    /\ phase[j] = "running"
    /\ attempts[j] < MaxAttempts
    /\ phase' = [phase EXCEPT ![j] = "queued"]
    /\ UNCHANGED <<attempts, results>>

Complete(j) ==
    /\ phase[j] = "running"
    /\ results[j] = 0
    /\ phase' = [phase EXCEPT ![j] = "completed"]
    /\ results' = [results EXCEPT ![j] = attempts[j]]
    /\ UNCHANGED attempts

Fail(j) ==
    /\ phase[j] = "running"
    /\ phase' = [phase EXCEPT ![j] = "failed"]
    /\ UNCHANGED <<attempts, results>>

Cancel(j) ==
    /\ phase[j] \in {"queued", "running", "failed"}
    /\ phase' = [phase EXCEPT ![j] = "cancelled"]
    /\ UNCHANGED <<attempts, results>>

Next == \E j \in Jobs : \/ Start(j) \/ Requeue(j) \/ Complete(j)
                        \/ Fail(j)  \/ Cancel(j)

Spec == Init /\ [][Next]_vars
=============================================================================
