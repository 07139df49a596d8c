------------------------------ MODULE JobQueue ------------------------------
(***************************************************************************)
(* The durable job queue: background workers that lease, execute, publish  *)
(* and clean up reconciliation jobs (persistence/worker.py), the heartbeat *)
(* thread of each attempt, and API clients that request cancellation       *)
(* (persistence/repositories/job.py), over PostgreSQL rows (JobTable) and  *)
(* an object store.                                                        *)
(*                                                                         *)
(* One action is one database transaction or one object-store call.  The   *)
(* completion and the cancellation transaction are single steps: both take *)
(* the run row's lock first and keep it to their commit, so what they      *)
(* checked on the run still holds then, and the job row is written last.   *)
(* A job and its run are created together by submission and stay one to    *)
(* one, so both rows are indexed by the job.                               *)
(***************************************************************************)
EXTENDS JobTable, FiniteSets

CONSTANTS Jobs,          \* jobs that have been submitted
          Workers,       \* worker processes
          Clients,       \* API requests that may be cancelling a job
          NumArtifacts,  \* artifacts an attempt promotes (3 in the code)
          RoleIdExists,  \* organisation_memberships has the column role_id
          NoJob          \* no job

ASSUME NoJobAssumption == NoJob \notin Jobs

ASSUME NumArtifactsAssumption == NumArtifacts \in Nat \ {0}

ASSUME RoleIdAssumption == RoleIdExists \in BOOLEAN

VARIABLES
    job,        \* job[j]: the reconciliation_jobs row
    run,        \* run[j]: the reconciliation_runs row of j's run
    published,  \* published[j]: token of the attempt whose completion transaction
                \*   inserted j's result, investigations, certificate, artifact
                \*   metadata and run.completed event; NoToken if none has
    objects,    \* final artifact keys present in the object store
    staged,     \* attempt tokens whose staging directory holds objects
    tokens,     \* number of attempt tokens issued so far
    pc,         \* pc[w]: where _execute_claimed_job is
    claimed,    \* claimed[w]: job, attempt_token and lease_generation of w's attempt
    hb,         \* hb[w]: "beating", or "error" once heartbeat_error is set
    retryable,  \* retryable[w]: the flag w's pending fail_job call will pass
    promoted,   \* promoted[w]: length of promoted_final_keys
    sweep,      \* sweep[w]: keys w has decided to delete, and has not yet
    client      \* client[c]: what the cancellation request c has read

dbVars == <<job, run, published>>
storeVars == <<objects, staged>>
workerVars == <<pc, claimed, hb, retryable, promoted, sweep>>
vars == <<job, run, published, objects, staged, tokens, pc, claimed, hb,
          retryable, promoted, sweep, client>>

Artifacts == 1 .. NumArtifacts

\* Final keys depend on the run and on the content hash only, and the engine is
\* deterministic: every attempt at a job promotes to the same keys.
FinalKeys(j) == {j} \X Artifacts

PC == {"idle", "revalidate", "reject", "ingest", "load", "reconcile", "persist", "stage",
       "promote", "check", "ack", "commit", "failing", "cleanup", "lookup", "sweep"}

\* Program points after each write of the stage column, up to the next one.
Executing == {"revalidate", "reject", "ingest", "load", "reconcile", "persist", "stage",
              "promote", "check", "ack", "commit"}

NoClaim == [job |-> NoJob, token |-> NoToken, gen |-> 0]

IdleClient == [at |-> "idle", job |-> NoJob, queued |-> FALSE, initiated |-> FALSE]

TypeOK ==
    /\ job \in [Jobs -> JobRow]
    /\ run \in [Jobs -> RunRow]
    /\ published \in [Jobs -> Nat]
    /\ objects \subseteq Jobs \X Artifacts
    /\ staged \subseteq Nat
    /\ tokens \in Nat
    /\ pc \in [Workers -> PC]
    /\ claimed \in [Workers -> [job : Jobs \cup {NoJob}, token : Nat, gen : Nat]]
    /\ hb \in [Workers -> {"beating", "error"}]
    /\ retryable \in [Workers -> BOOLEAN]
    /\ promoted \in [Workers -> 0 .. NumArtifacts]
    /\ sweep \in [Workers -> SUBSET (Jobs \X Artifacts)]
    /\ client \in [Clients -> [at        : {"idle", "read_run", "flush"},
                               job       : Jobs \cup {NoJob},
                               queued    : BOOLEAN,
                               initiated : BOOLEAN]]

Init ==
    /\ job = [j \in Jobs |-> create_reconciliation_job]
    /\ run = [j \in Jobs |-> create_run]
    /\ published = [j \in Jobs |-> NoToken]
    /\ objects = {}
    /\ staged = {}
    /\ tokens = 0
    /\ pc = [w \in Workers |-> "idle"]
    /\ claimed = [w \in Workers |-> NoClaim]
    /\ hb = [w \in Workers |-> "beating"]
    /\ retryable = [w \in Workers |-> FALSE]
    /\ promoted = [w \in Workers |-> 0]
    /\ sweep = [w \in Workers |-> {}]
    /\ client = [c \in Clients |-> IdleClient]

\* w's attempt is the one the job row is leased to.
Holds(w) ==
    /\ pc[w] # "idle"
    /\ Fence(job[claimed[w].job], claimed[w].token, claimed[w].gen)

Goto(w, l) == pc' = [pc EXCEPT ![w] = l]

\* UPDATE of w's job row under the attempt fence: no row, no change.
FencedUpdate(w, row) ==
    job' = IF Holds(w) THEN [job EXCEPT ![claimed[w].job] = row] ELSE job

(***************************************************************************)
(* Claiming and the lease.                                                 *)
(***************************************************************************)

\* claim_next_job.  FOR UPDATE SKIP LOCKED passes over rows another transaction
\* holds, so any eligible row may be the first one.  The token is fresh.
ClaimNextJob(w, j) ==
    /\ pc[w] = "idle"
    /\ Eligible(job[j])
    /\ tokens' = tokens + 1
    /\ job' = [job EXCEPT ![j] = fn_job_claim_next(job[j], tokens + 1)]
    /\ claimed' = [claimed EXCEPT ![w] = [job   |-> j,
                                         token |-> tokens + 1,
                                         gen   |-> job[j].lease_generation + 1]]
    /\ Goto(w, "revalidate")
    /\ hb' = [hb EXCEPT ![w] = "beating"]
    /\ UNCHANGED <<run, published, storeVars, retryable, promoted, sweep, client>>

\* clock_timestamp() passes lease_expires_at.
LeaseExpires(j) ==
    /\ job[j].status = "running"
    /\ job[j].lease_expires_at = "live"
    /\ job' = [job EXCEPT ![j].lease_expires_at = "expired"]
    /\ UNCHANGED <<run, published, storeVars, tokens, workerVars, client>>

\* One turn of _heartbeat_runner, which lives until the finally clause: it extends
\* the lease of the attempt that still holds the row; any other answer sets
\* heartbeat_error and ends the thread.
Heartbeat(w) ==
    /\ pc[w] \in Executing \cup {"failing"}
    /\ hb[w] = "beating"
    /\ FencedUpdate(w, fn_job_heartbeat(job[claimed[w].job]))
    /\ hb' = [hb EXCEPT ![w] = IF Holds(w) THEN "beating" ELSE "error"]
    /\ UNCHANGED <<run, published, storeVars, tokens, pc, claimed, retryable,
                   promoted, sweep, client>>

\* The heartbeat's session raises: same flag, same end, no row touched.
HeartbeatRaises(w) ==
    /\ pc[w] \in Executing \cup {"failing"}
    /\ hb[w] = "beating"
    /\ hb' = [hb EXCEPT ![w] = "error"]
    /\ UNCHANGED <<dbVars, storeVars, tokens, pc, claimed, retryable, promoted,
                   sweep, client>>

(***************************************************************************)
(* _execute_claimed_job, step by step.                                     *)
(***************************************************************************)

\* revalidate_job_creator.  Whether the creator is still an active owner, admin or
\* operator is up to the control plane; an attempt that lost the row gets FALSE too
\* and goes on to a fail_job that the fence turns into nothing.  For an attempt that
\* holds the row, fn_job_revalidate_creator joins on m.role_id: the statement raises
\* where organisation_memberships has no such column.
RevalidateJobCreator(w, member) ==
    /\ pc[w] = "revalidate"
    /\ Goto(w, IF Holds(w) /\ ~RoleIdExists THEN "failing"
               ELSE IF Holds(w) /\ member THEN "ingest"
               ELSE "reject")
    /\ retryable' = [retryable EXCEPT ![w] = Holds(w) /\ ~RoleIdExists]
    /\ UNCHANGED <<dbVars, storeVars, tokens, claimed, hb, promoted, sweep, client>>

\* transition_job_stage.  The worker ignores the returned boolean.
TransitionJobStage(w, from, stage, to) ==
    /\ pc[w] = from
    /\ FencedUpdate(w, fn_job_transition_stage(job[claimed[w].job], stage))
    /\ Goto(w, to)
    /\ UNCHANGED <<run, published, storeVars, tokens, claimed, hb, retryable,
                   promoted, sweep, client>>

StageIngesting(w) == TransitionJobStage(w, "ingest", "ingesting", "load")

\* Run, file metadata and input bytes are read and hashed; then heartbeat health
\* decides whether the engine runs at all.
LoadInputs(w) ==
    /\ pc[w] = "load"
    /\ Goto(w, IF hb[w] = "error" THEN "cleanup" ELSE "reconcile")
    /\ UNCHANGED <<dbVars, storeVars, tokens, claimed, hb, retryable, promoted,
                   sweep, client>>

StageReconciling(w) == TransitionJobStage(w, "reconcile", "reconciling", "persist")

\* The engine has run in memory in between.
StagePersisting(w) == TransitionJobStage(w, "persist", "persisting", "stage")

\* store_bytes of every artifact under the attempt's own directory.
StageArtifacts(w) ==
    /\ pc[w] = "stage"
    /\ staged' = staged \cup {claimed[w].token}
    /\ Goto(w, "promote")
    /\ UNCHANGED <<dbVars, objects, tokens, claimed, hb, retryable, promoted, sweep,
                   client>>

\* copy_object of the next artifact to its final key.
PromoteArtifact(w) ==
    /\ pc[w] = "promote"
    /\ objects' = objects \cup {<<claimed[w].job, promoted[w] + 1>>}
    /\ promoted' = [promoted EXCEPT ![w] = @ + 1]
    /\ Goto(w, IF promoted[w] + 1 = NumArtifacts THEN "check" ELSE "promote")
    /\ UNCHANGED <<dbVars, staged, tokens, claimed, hb, retryable, sweep, client>>

\* Pre-commit check: cancellation first, then heartbeat health.
CheckJobCancellation(w) ==
    /\ pc[w] = "check"
    /\ Goto(w, IF fn_job_check_cancellation(job[claimed[w].job], claimed[w].token,
                                            claimed[w].gen)
               THEN "ack"
               ELSE IF hb[w] = "error" THEN "cleanup" ELSE "commit")
    /\ UNCHANGED <<dbVars, storeVars, tokens, claimed, hb, retryable, promoted,
                   sweep, client>>

CancelAckJob(w) ==
    /\ pc[w] = "ack"
    /\ FencedUpdate(w, fn_job_cancel_ack(job[claimed[w].job]))
    /\ Goto(w, "cleanup")
    /\ UNCHANGED <<run, published, storeVars, tokens, claimed, hb, retryable,
                   promoted, sweep, client>>

(***************************************************************************)
(* The completion transaction.  Its statements run in this order: inserts  *)
(* that are UNIQUE per run, complete_run under FOR UPDATE, then            *)
(* complete_job_fenced; any of them may raise, and the UnitOfWork then     *)
(* rolls everything back.                                                  *)
(***************************************************************************)

\* Fault for sensitivity: complete_job_fenced matches the job id and status only.
FaultCommitUnfenced(w) ==
    /\ published[claimed[w].job] = NoToken
    /\ run[claimed[w].job].status \notin {"failed", "aborted"}
    /\ job[claimed[w].job].status = "running"

CompletionCommits(w) ==
    /\ published[claimed[w].job] = NoToken
    /\ run[claimed[w].job].status \notin {"failed", "aborted"}
    /\ Holds(w)

WriteCompletion(w) ==
    LET j == claimed[w].job IN
    /\ published' = [published EXCEPT ![j] = claimed[w].token]
    /\ run' = [run EXCEPT ![j] = complete_run(run[j])]
    /\ job' = [job EXCEPT ![j] = complete_job_fenced(job[j])]

Complete(w) ==
    /\ pc[w] = "commit"
    /\ CompletionCommits(w)
    /\ WriteCompletion(w)
    /\ Goto(w, "cleanup")
    /\ UNCHANGED <<storeVars, tokens, claimed, hb, retryable, promoted, sweep, client>>

\* The COMMIT takes effect and its acknowledgement is lost: the worker sees an
\* exception and takes the generic error path.
CompleteUnacknowledged(w) ==
    /\ pc[w] = "commit"
    /\ CompletionCommits(w)
    /\ WriteCompletion(w)
    /\ Goto(w, "failing")
    /\ retryable' = [retryable EXCEPT ![w] = TRUE]
    /\ UNCHANGED <<storeVars, tokens, claimed, hb, promoted, sweep, client>>

\* Only the last statement raises JobFencingError, which ends the attempt without
\* touching the database; the earlier ones raise what fail_job is called for.
CompleteRollsBack(w) ==
    LET j == claimed[w].job
        fenced == /\ published[j] = NoToken
                  /\ run[j].status \notin {"failed", "aborted"}
    IN  /\ pc[w] = "commit"
        /\ ~CompletionCommits(w)
        /\ Goto(w, IF fenced THEN "cleanup" ELSE "failing")
        /\ retryable' = [retryable EXCEPT ![w] = TRUE]
        /\ UNCHANGED <<dbVars, storeVars, tokens, claimed, hb, promoted, sweep, client>>

(***************************************************************************)
(* Errors, the finally clause, crashes.                                    *)
(***************************************************************************)

\* Any step may raise.  Loading and the engine raise InputError for bad input, the
\* rest (storage, database, checksum) is retryable.
StepRaises(w, retry) ==
    /\ pc[w] \in Executing
    /\ retry \/ pc[w] \in {"load", "persist"}
    /\ Goto(w, "failing")
    /\ retryable' = [retryable EXCEPT ![w] = retry]
    /\ UNCHANGED <<dbVars, storeVars, tokens, claimed, hb, promoted, sweep, client>>

\* fail_job: from an except clause, or for a revoked creator, still inside the try.
FailJob(w) ==
    /\ pc[w] \in {"failing", "reject"}
    /\ FencedUpdate(w, fn_job_fail(job[claimed[w].job], retryable[w]))
    /\ Goto(w, "cleanup")
    /\ UNCHANGED <<run, published, storeVars, tokens, claimed, hb, retryable,
                   promoted, sweep, client>>

\* fail_job itself raises: the finally clause still runs, the row is left leased.
FailJobRaises(w) ==
    /\ pc[w] = "failing"
    /\ Goto(w, "cleanup")
    /\ UNCHANGED <<dbVars, storeVars, tokens, claimed, hb, retryable, promoted,
                   sweep, client>>

\* The worker's locals go out of scope: between attempts, or when it dies.
Reset(w) ==
    /\ Goto(w, "idle")
    /\ claimed' = [claimed EXCEPT ![w] = NoClaim]
    /\ hb' = [hb EXCEPT ![w] = "beating"]
    /\ retryable' = [retryable EXCEPT ![w] = FALSE]
    /\ promoted' = [promoted EXCEPT ![w] = 0]
    /\ sweep' = [sweep EXCEPT ![w] = {}]

\* Staged objects are deleted best effort.  With nothing promoted that is all.
DeleteStaged(w, deleted) ==
    /\ pc[w] = "cleanup"
    /\ staged' = IF deleted THEN staged \ {claimed[w].token} ELSE staged
    /\ IF promoted[w] = 0
       THEN Reset(w)
       ELSE /\ Goto(w, "lookup")
            /\ UNCHANGED <<claimed, hb, retryable, promoted, sweep>>
    /\ UNCHANGED <<dbVars, objects, tokens, client>>

\* Fault for sensitivity: cleanup does not ask who owns the keys.
FaultOwnsNothing(w) == {}

\* Keys of promoted_final_keys that committed artifact metadata refers to.
OwnedKeys(w) ==
    IF published[claimed[w].job] = NoToken THEN {} ELSE FinalKeys(claimed[w].job)

\* The cleanup transaction reads the owned keys and ends; deletion comes after it.
LookupOwners(w) ==
    /\ pc[w] = "lookup"
    /\ sweep' = [sweep EXCEPT
                    ![w] = ({claimed[w].job} \X (1 .. promoted[w])) \ OwnedKeys(w)]
    /\ Goto(w, "sweep")
    /\ UNCHANGED <<dbVars, storeVars, tokens, claimed, hb, retryable, promoted, client>>

\* The lookup raises: cleanup is abandoned.
LookupRaises(w) ==
    /\ pc[w] = "lookup"
    /\ Reset(w)
    /\ UNCHANGED <<dbVars, storeVars, tokens, client>>

\* delete_object of the next unowned key, best effort.
SweepKey(w, deleted) ==
    /\ pc[w] = "sweep"
    /\ \E k \in sweep[w] :
          /\ \A l \in sweep[w] : k[2] <= l[2]
          /\ sweep' = [sweep EXCEPT ![w] = @ \ {k}]
          /\ objects' = IF deleted THEN objects \ {k} ELSE objects
    /\ UNCHANGED <<dbVars, staged, tokens, pc, claimed, hb, retryable, promoted, client>>

AttemptReturns(w) ==
    /\ pc[w] = "sweep"
    /\ sweep[w] = {}
    /\ Reset(w)
    /\ UNCHANGED <<dbVars, storeVars, tokens, client>>

\* The process dies and is restarted: no finally clause, no heartbeat.
WorkerCrash(w) ==
    /\ pc[w] # "idle"
    /\ Reset(w)
    /\ UNCHANGED <<dbVars, storeVars, tokens, client>>

(***************************************************************************)
(* request_job_cancellation: two unlocked reads, then one flush that       *)
(* updates by primary key whatever the rows have become since.             *)
(***************************************************************************)
CancelReadJob(c, j) ==
    /\ client[c].at = "idle"
    /\ job[j].status \notin TerminalStatus
    /\ client' = [client EXCEPT
                    ![c] = [at        |-> IF job[j].status = "queued"
                                          THEN "read_run" ELSE "flush",
                            job       |-> j,
                            queued    |-> job[j].status = "queued",
                            initiated |-> FALSE]]
    /\ UNCHANGED <<dbVars, storeVars, tokens, workerVars>>

CancelReadRun(c) ==
    /\ client[c].at = "read_run"
    /\ client' = [client EXCEPT ![c].at = "flush",
                                ![c].initiated = run[client[c].job].status = "initiated"]
    /\ UNCHANGED <<dbVars, storeVars, tokens, workerVars>>

\* The rows the flush would leave.
CancelledJob(c) == IF client[c].queued THEN cancel_queued(job[client[c].job])
                                       ELSE cancel_running(job[client[c].job])

CancelledRun(c) == IF client[c].initiated THEN cancel_run(run[client[c].job])
                                          ELSE run[client[c].job]

\* PostgreSQL checks the new rows; a violation rolls the whole request back.
FlushAccepted(c) ==
    /\ JobChecks(CancelledJob(c))
    /\ chk_runs_lifecycle_state_machine(CancelledRun(c))

CancelFlush(c) ==
    /\ client[c].at = "flush"
    /\ IF FlushAccepted(c)
       THEN /\ job' = [job EXCEPT ![client[c].job] = CancelledJob(c)]
            /\ run' = [run EXCEPT ![client[c].job] = CancelledRun(c)]
       ELSE UNCHANGED <<job, run>>
    /\ client' = [client EXCEPT ![c] = IdleClient]
    /\ UNCHANGED <<published, storeVars, tokens, workerVars>>

\* The request dies before its flush; nothing was written.
CancelAbandoned(c) ==
    /\ client[c].at # "idle"
    /\ client' = [client EXCEPT ![c] = IdleClient]
    /\ UNCHANGED <<dbVars, storeVars, tokens, workerVars>>

(***************************************************************************)
(* The specification.                                                      *)
(***************************************************************************)

\* What a healthy worker does next when it is executing an attempt.
WorkerStep(w) ==
    \/ RevalidateJobCreator(w, TRUE)
    \/ StageIngesting(w)
    \/ LoadInputs(w)
    \/ StageReconciling(w)
    \/ StagePersisting(w)
    \/ StageArtifacts(w)
    \/ PromoteArtifact(w)
    \/ CheckJobCancellation(w)
    \/ CancelAckJob(w)
    \/ Complete(w)
    \/ CompleteRollsBack(w)
    \/ FailJob(w)
    \/ DeleteStaged(w, TRUE)
    \/ LookupOwners(w)
    \/ SweepKey(w, TRUE)
    \/ AttemptReturns(w)

\* What may go wrong instead.
WorkerFault(w) ==
    \/ RevalidateJobCreator(w, FALSE)
    \/ \E retry \in BOOLEAN : StepRaises(w, retry)
    \/ CompleteUnacknowledged(w)
    \/ FailJobRaises(w)
    \/ DeleteStaged(w, FALSE)
    \/ LookupRaises(w)
    \/ SweepKey(w, FALSE)
    \/ WorkerCrash(w)

Next ==
    \/ \E w \in Workers :
          \/ \E j \in Jobs : ClaimNextJob(w, j)
          \/ WorkerStep(w)
          \/ WorkerFault(w)
          \/ Heartbeat(w)
          \/ HeartbeatRaises(w)
    \/ \E j \in Jobs : LeaseExpires(j)
    \/ \E c \in Clients :
          \/ \E j \in Jobs : CancelReadJob(c, j)
          \/ CancelReadRun(c)
          \/ CancelFlush(c)
          \/ CancelAbandoned(c)

Spec == Init /\ [][Next]_vars

(***************************************************************************)
(* Fairness.  A live worker process keeps executing and keeps polling, and *)
(* time passes: a lease nobody renews runs out.  Nothing is assumed of     *)
(* clients, faults, crashes or heartbeats.                                 *)
(***************************************************************************)
Attended(j) == \E w \in Workers : /\ pc[w] \in Executing \cup {"failing"}
                                  /\ claimed[w].job = j
                                  /\ Holds(w)
                                  /\ hb[w] = "beating"

LeaseLapses(j) == ~Attended(j) /\ LeaseExpires(j)

Fairness ==
    /\ \A w \in Workers : WF_vars(WorkerStep(w))
    /\ \A j \in Jobs : WF_vars(LeaseLapses(j))
    /\ \A j \in Jobs : WF_vars(\E w \in Workers : ClaimNextJob(w, j))

FairSpec == Spec /\ Fairness

(***************************************************************************)
(* Safety.                                                                 *)
(***************************************************************************)

\* Whatever the interleaving, every row the workers and clients leave behind passes
\* the CHECK constraints of migration 0003 and 0001, attempt bound included: no
\* fn_job_* call is ever refused by the database for the row it would produce.
RowsPassChecks ==
    \A j \in Jobs : /\ JobChecks(job[j])
                    /\ chk_runs_lifecycle_state_machine(run[j])

\* Attempt fencing: results, a completed run and a completed job exist together or
\* not at all, and the stored results are those of the attempt the row is leased to,
\* however many stale attempts raced it to the completion transaction.  A run fails
\* only together with the cancellation of its job.
PublishedByHolder ==
    \A j \in Jobs :
        /\ job[j].status = "completed" <=> run[j].status = "completed"
        /\ job[j].status = "completed" <=> published[j] # NoToken
        /\ job[j].status = "completed" => published[j] = job[j].attempt_token
        /\ run[j].status \in {"initiated", "completed", "failed"}
        /\ run[j].status = "failed" => job[j].status = "cancelled"

\* Cleanup after a commit whose acknowledgement was lost: an attempt that did publish,
\* but took the error path, deletes none of the objects it published.
OwnCommitSurvives ==
    \A w \in Workers :
        /\ pc[w] = "sweep"
        /\ published[claimed[w].job] = claimed[w].token
        => sweep[w] = {}

\* A job that has ended is never queued or run again; completed and cancelled are
\* final, as are the stored results and the run's outcome, even for a cancellation
\* that read the job while it was queued and writes after it completed.
TerminalIsFinal ==
    [][\A j \in Jobs :
        /\ job[j].status \in TerminalStatus => job'[j].status \in TerminalStatus
        /\ job[j].status \in {"completed", "cancelled"} =>
              job'[j].status = job[j].status
        /\ published[j] # NoToken => published'[j] = published[j]
        /\ run[j].status # "initiated" => run'[j].status = run[j].status]_vars

\* j has been cancelled in time: the flag is set, and no attempt that holds j has
\* passed the pre-commit cancellation check.
CancelledInTime(j) ==
    /\ job[j].is_cancelled
    /\ job[j].status # "completed"
    /\ \A w \in Workers : Holds(w) /\ claimed[w].job = j => pc[w] # "commit"

\* A cancellation committed before the leaseholder's pre-commit check is never lost:
\* the job is not claimed again, and nothing is ever published for it.
CancellationHolds == [][\A j \in Jobs : CancelledInTime(j) => CancelledInTime(j)']_vars

\* The queue implements the lifecycle promised to callers.
Lifecycle == INSTANCE JobLifecycle WITH
    phase    <- [j \in Jobs |-> job[j].status],
    attempts <- [j \in Jobs |-> job[j].attempt_count],
    results  <- [j \in Jobs |-> IF published[j] = NoToken THEN 0
                                 ELSE job[j].lease_generation]

\* Every behaviour of workers, leases, stale attempts and cancellations is one that
\* JobLifecycle allows.
ImplementsLifecycle == Lifecycle!Spec

(***************************************************************************)
(* Claims of the repository's own text, and progress.                      *)
(***************************************************************************)

\* worker.py's cleanup: "Delete only keys with no committed metadata owner".  Every
\* artifact that committed metadata names is in the object store.
CommittedArtifactsStored ==
    \A j \in Jobs : published[j] # NoToken => FinalKeys(j) \subseteq objects

\* Nobody will ever work on j again although it has not ended: no attempt holds it,
\* and fn_job_claim_next passes it over.
Stranded(j) ==
    /\ job[j].status \notin TerminalStatus
    /\ ~\E w \in Workers : Holds(w) /\ claimed[w].job = j
    /\ job[j].is_cancelled \/ job[j].attempt_count = MaxAttempts

\* Through crashes, faults, lost leases and retries, every job ends, with one
\* exception: its last permitted attempt died, or it was flagged for cancellation
\* and then given up by the attempt that should have acknowledged it.
Settles == \A j \in Jobs : <>[](job[j].status \in TerminalStatus \/ Stranded(j))
=============================================================================
