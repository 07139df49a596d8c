------------------------------ MODULE JobTable ------------------------------
(***************************************************************************)
(* The rows of reconciliation_jobs and reconciliation_runs, the CHECK      *)
(* constraints PostgreSQL enforces on them, and the fn_job_* SECURITY      *)
(* DEFINER functions, each as the row its UPDATE leaves behind.            *)
(*                                                                         *)
(* A timestamp column is abstracted to "is it NOT NULL", except            *)
(* lease_expires_at, whose position relative to clock_timestamp() decides  *)
(* who may claim: it is null, live or expired.  attempt_token is a number, *)
(* 0 standing for NULL; error_code is "is it NOT NULL".                    *)
(***************************************************************************)
EXTENDS Naturals

CONSTANT MaxAttempts    \* reconciliation_jobs.max_attempts (3 in production)

ASSUME MaxAttemptsAssumption == MaxAttempts \in Nat \ {0}

NoToken == 0

JobStatus == {"queued", "running", "completed", "failed", "cancelled"}

TerminalStatus == {"completed", "failed", "cancelled"}

JobStage == {"queued", "ingesting", "attributing", "reconciling",
             "investigating", "persisting", "completed"}

JobRow == [status           : JobStatus,
           stage            : JobStage,
           attempt_token    : Nat,
           lease_generation : Nat,
           attempt_count    : Nat,
           lease_expires_at : {"null", "live", "expired"},
           started_at       : BOOLEAN,
           completed_at     : BOOLEAN,
           failed_at        : BOOLEAN,
           cancelled_at     : BOOLEAN,
           error_code       : BOOLEAN,
           is_cancelled     : BOOLEAN]

RunStatus == {"initiated", "running", "completed", "failed", "aborted"}

RunRow == [status       : RunStatus,
           completed_at : BOOLEAN,
           failed_at    : BOOLEAN,
           error_code   : BOOLEAN]

(***************************************************************************)
(* CHECK constraints.  started_at of a run is NOT NULL from creation on.   *)
(***************************************************************************)

\* Fault for sensitivity: the constraint forgets completed_at for cancelled rows.
FaultCheckAllowsCompletedAt(r) ==
    \/ r.status = "cancelled" /\ r.cancelled_at
    \/ r.status = "queued" /\ r.attempt_token = NoToken
    \/ r.status = "running" /\ r.attempt_token # NoToken
    \/ r.status \in {"completed", "failed"} /\ r.started_at

chk_jobs_lifecycle_state_machine(r) ==
    \/ /\ r.status = "queued"
       /\ ~r.started_at /\ ~r.completed_at /\ ~r.failed_at
       /\ r.attempt_token = NoToken
    \/ /\ r.status = "running"
       /\ r.started_at /\ ~r.completed_at /\ ~r.failed_at
       /\ r.attempt_token # NoToken
       /\ r.lease_expires_at # "null"
    \/ /\ r.status = "completed"
       /\ r.started_at /\ r.completed_at /\ ~r.failed_at /\ ~r.error_code
    \/ /\ r.status = "failed"
       /\ r.started_at /\ r.failed_at /\ ~r.completed_at /\ r.error_code
    \/ /\ r.status = "cancelled"
       /\ r.cancelled_at /\ ~r.completed_at

chk_jobs_attempt_bounds(r) == r.attempt_count \in 0 .. MaxAttempts

chk_runs_lifecycle_state_machine(r) ==
    \/ /\ r.status \in {"initiated", "running"}
       /\ ~r.completed_at /\ ~r.failed_at /\ ~r.error_code
    \/ /\ r.status = "completed"
       /\ r.completed_at /\ ~r.failed_at /\ ~r.error_code
    \/ /\ r.status = "failed"
       /\ r.failed_at /\ ~r.completed_at /\ r.error_code
    \/ /\ r.status = "aborted"
       /\ r.failed_at /\ ~r.completed_at

\* PostgreSQL refuses an UPDATE whose new row fails one of the job checks.
JobChecks(r) == chk_jobs_lifecycle_state_machine(r) /\ chk_jobs_attempt_bounds(r)

(***************************************************************************)
(* create_reconciliation_job and create_run: the rows submission inserts.  *)
(***************************************************************************)
create_reconciliation_job ==
    [status           |-> "queued",
     stage            |-> "queued",
     attempt_token    |-> NoToken,
     lease_generation |-> 0,
     attempt_count    |-> 0,
     lease_expires_at |-> "null",
     started_at       |-> FALSE,
     completed_at     |-> FALSE,
     failed_at        |-> FALSE,
     cancelled_at     |-> FALSE,
     error_code       |-> FALSE,
     is_cancelled     |-> FALSE]

create_run == [status       |-> "initiated",
               completed_at |-> FALSE,
               failed_at    |-> FALSE,
               error_code   |-> FALSE]

(***************************************************************************)
(* The SQL functions.  Fence is the WHERE clause they share; each update   *)
(* applies only to a row that satisfies it, and returns v_rows > 0.        *)
(***************************************************************************)
Fence(r, token, gen) ==
    /\ r.attempt_token = token
    /\ r.lease_generation = gen
    /\ r.status = "running"

\* Faults for sensitivity: the retry budget, or the expired-lease case, is left out.
FaultEligibleNoBudget(r) ==
    /\ \/ r.status = "queued"
       \/ r.status = "running" /\ r.lease_expires_at = "expired"
    /\ ~r.is_cancelled

FaultEligibleQueuedOnly(r) ==
    r.status = "queued" /\ r.attempt_count < MaxAttempts /\ ~r.is_cancelled

\* WHERE of the eligible_job CTE: queued, or running on an expired lease.
Eligible(r) ==
    /\ \/ r.status = "queued"
       \/ r.status = "running" /\ r.lease_expires_at = "expired"
    /\ r.attempt_count < MaxAttempts
    /\ ~r.is_cancelled

fn_job_claim_next(r, token) ==
    [r EXCEPT !.status           = "running",
              !.stage            = "ingesting",
              !.attempt_token    = token,
              !.lease_generation = @ + 1,
              !.attempt_count    = @ + 1,
              !.started_at       = TRUE,
              !.lease_expires_at = "live"]

\* Extends the lease whether or not it has already expired.
fn_job_heartbeat(r) == [r EXCEPT !.lease_expires_at = "live"]

fn_job_transition_stage(r, stage) == [r EXCEPT !.stage = stage]

\* Fault for sensitivity: the status is consulted instead of the flag.
FaultCheckReadsStatus(r, token, gen) ==
    r.attempt_token = token /\ r.lease_generation = gen /\ r.status = "cancelled"

fn_job_check_cancellation(r, token, gen) == Fence(r, token, gen) /\ r.is_cancelled

\* A retryable failure with attempts left goes back to the queue; every other
\* one is final.  is_cancelled is left as it is, and so is the run.
fn_job_fail(r, retryable) ==
    IF retryable /\ r.attempt_count < MaxAttempts
    THEN [r EXCEPT !.status           = "queued",
                   !.stage            = "queued",
                   !.attempt_token    = NoToken,
                   !.lease_expires_at = "null",
                   !.started_at       = FALSE,
                   !.completed_at     = FALSE,
                   !.failed_at        = FALSE,
                   !.error_code       = FALSE]
    ELSE [r EXCEPT !.status     = "failed",
                   !.stage      = "completed",
                   !.failed_at  = TRUE,
                   !.error_code = TRUE]

\* The stage is left where the attempt had got to.
fn_job_cancel_ack(r) == [r EXCEPT !.status = "cancelled", !.cancelled_at = TRUE]

\* complete_job_fenced: the statement that ends the completion transaction.
complete_job_fenced(r) ==
    [r EXCEPT !.status = "completed", !.stage = "completed", !.completed_at = TRUE]

(***************************************************************************)
(* The two rows of the completion and of the cancellation transaction.     *)
(***************************************************************************)
complete_run(r) == [r EXCEPT !.status = "completed", !.completed_at = TRUE]

\* The columns the ORM writes for a job it read as queued, or as running:
\* only changed attributes are in the SET list, addressed by primary key.
cancel_queued(r) == [r EXCEPT !.status       = "cancelled",
                              !.stage        = "completed",
                              !.is_cancelled = TRUE,
                              !.cancelled_at = TRUE]

cancel_running(r) == [r EXCEPT !.is_cancelled = TRUE, !.cancelled_at = TRUE]

cancel_run(r) == [r EXCEPT !.status     = "failed",
                           !.failed_at  = TRUE,
                           !.error_code = TRUE]
=============================================================================
