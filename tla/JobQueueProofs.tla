--------------------------- MODULE JobQueueProofs ---------------------------
(***************************************************************************)
(* Theorems about JobQueue for any number of jobs, workers, clients,       *)
(* attempts and artifacts.                                                 *)
(***************************************************************************)
EXTENDS JobQueue, TLAPS

BeforePromotion == {"idle", "revalidate", "ingest", "load", "reconcile", "persist",
                    "stage"}

\* What a worker's program counter says of its locals.
WorkerLocals ==
    \A w \in Workers :
        /\ pc[w] # "idle" => claimed[w].job \in Jobs
        /\ pc[w] \in BeforePromotion => promoted[w] = 0
        /\ pc[w] = "promote" => promoted[w] < NumArtifacts

\* What a cancellation request has read.
ClientLocals ==
    \A c \in Clients :
        /\ client[c].at # "idle" => client[c].job \in Jobs
        /\ client[c].at = "read_run" => client[c].queued
        /\ client[c].initiated => client[c].queued

LocalInv == TypeOK /\ WorkerLocals /\ ClientLocals

(***************************************************************************)
(* Types of the rows.                                                      *)
(***************************************************************************)

\* Every SQL function and every ORM update maps a row to a row.
LEMMA JobRowTypes ==
    ASSUME NEW r \in JobRow
    PROVE  /\ \A t \in Nat : fn_job_claim_next(r, t) \in JobRow
           /\ fn_job_heartbeat(r) \in JobRow
           /\ [r EXCEPT !.lease_expires_at = "expired"] \in JobRow
           /\ \A s \in JobStage : fn_job_transition_stage(r, s) \in JobRow
           /\ \A b \in BOOLEAN : fn_job_fail(r, b) \in JobRow
           /\ fn_job_cancel_ack(r) \in JobRow
           /\ complete_job_fenced(r) \in JobRow
           /\ cancel_queued(r) \in JobRow
           /\ cancel_running(r) \in JobRow
  <1>1. ASSUME NEW t \in Nat PROVE fn_job_claim_next(r, t) \in JobRow
    <2>1. r.lease_generation + 1 \in Nat /\ r.attempt_count + 1 \in Nat
      BY DEF JobRow
    <2> QED
      BY <2>1 DEF fn_job_claim_next, JobRow, JobStatus, JobStage
  <1>2. fn_job_heartbeat(r) \in JobRow
    BY DEF fn_job_heartbeat, JobRow
  <1>3. [r EXCEPT !.lease_expires_at = "expired"] \in JobRow
    BY DEF JobRow
  <1>4. ASSUME NEW s \in JobStage PROVE fn_job_transition_stage(r, s) \in JobRow
    BY DEF fn_job_transition_stage, JobRow
  <1>5. ASSUME NEW b \in BOOLEAN PROVE fn_job_fail(r, b) \in JobRow
    BY ZenonT(60) DEF fn_job_fail, JobRow, JobStatus, JobStage, NoToken
  <1>6. fn_job_cancel_ack(r) \in JobRow
    BY DEF fn_job_cancel_ack, JobRow, JobStatus
  <1>7. complete_job_fenced(r) \in JobRow
    BY DEF complete_job_fenced, JobRow, JobStatus, JobStage
  <1>8. cancel_queued(r) \in JobRow
    BY DEF cancel_queued, JobRow, JobStatus, JobStage
  <1>9. cancel_running(r) \in JobRow
    BY DEF cancel_running, JobRow
  <1> QED
    BY <1>1, <1>2, <1>3, <1>4, <1>5, <1>6, <1>7, <1>8, <1>9

\* The two writes of a run row yield a run row.
LEMMA RunRowTypes ==
    ASSUME NEW n \in RunRow
    PROVE  complete_run(n) \in RunRow /\ cancel_run(n) \in RunRow
  BY DEF complete_run, cancel_run, RunRow, RunStatus

\* The rows submission inserts are rows.
LEMMA NewRowTypes == create_reconciliation_job \in JobRow /\ create_run \in RunRow
  BY DEF create_reconciliation_job, create_run, JobRow, RunRow, JobStatus, JobStage,
         RunStatus, NoToken

\* The initial state is well typed, and all locals are at rest.
LEMMA InitLocal == Init => LocalInv
  BY NewRowTypes, NumArtifactsAssumption
  DEF Init, LocalInv, TypeOK, WorkerLocals, ClientLocals, NoClaim, IdleClient, NoToken, PC

(***************************************************************************)
(* Every step keeps LocalInv.                                              *)
(***************************************************************************)
LEMMA NextLocal == LocalInv /\ [Next]_vars => LocalInv'
  <1> SUFFICES ASSUME LocalInv, [Next]_vars
               PROVE  LocalInv'
    OBVIOUS
  <1> USE NumArtifactsAssumption DEF LocalInv, TypeOK, WorkerLocals, ClientLocals, PC,
          BeforePromotion, Goto, dbVars, storeVars, workerVars
  <1>rows. ASSUME NEW j \in Jobs PROVE job[j] \in JobRow /\ run[j] \in RunRow
    OBVIOUS
  <1>held. ASSUME NEW w \in Workers, pc[w] # "idle", NEW row \in JobRow,
                  FencedUpdate(w, row)
           PROVE  job' \in [Jobs -> JobRow]
    BY <1>held DEF FencedUpdate
  <1>1. ASSUME NEW w \in Workers, NEW j \in Jobs, ClaimNextJob(w, j) PROVE LocalInv'
    <2>0. job[j] \in JobRow /\ tokens + 1 \in Nat
      OBVIOUS
    <2> HIDE DEF LocalInv
    <2>1. fn_job_claim_next(job[j], tokens + 1) \in JobRow
      BY <2>0, JobRowTypes
    <2> USE DEF LocalInv
    <2>2. job' \in [Jobs -> JobRow]
      BY <1>1, <2>1 DEF ClaimNextJob
    <2>3. job[j].lease_generation + 1 \in Nat
      BY DEF JobRow
    <2> QED
      BY <1>1, <2>2, <2>3 DEF ClaimNextJob
  <1>2. ASSUME NEW j \in Jobs, LeaseExpires(j) PROVE LocalInv'
    BY <1>2, JobRowTypes DEF LeaseExpires
  <1>3. ASSUME NEW w \in Workers, Heartbeat(w) PROVE LocalInv'
    <2>1. pc[w] # "idle" /\ fn_job_heartbeat(job[claimed[w].job]) \in JobRow
      BY <1>3, JobRowTypes DEF Heartbeat, Executing
    <2>2. job' \in [Jobs -> JobRow]
      BY <1>3, <1>held, <2>1 DEF Heartbeat
    <2> QED
      BY <1>3, <2>2 DEF Heartbeat
  <1>4. ASSUME NEW w \in Workers, HeartbeatRaises(w) PROVE LocalInv'
    BY <1>4 DEF HeartbeatRaises
  <1>5. ASSUME NEW w \in Workers, NEW member \in BOOLEAN, RevalidateJobCreator(w, member)
        PROVE LocalInv'
    BY <1>5 DEF RevalidateJobCreator
  <1>stage. ASSUME NEW w \in Workers, NEW from \in PC, NEW stage \in JobStage,
                   NEW to \in PC, TransitionJobStage(w, from, stage, to),
                   from \in {"ingest", "reconcile", "persist"},
                   to \in {"load", "persist", "stage"}
            PROVE LocalInv'
    <2>1. pc[w] # "idle"
      BY <1>stage DEF TransitionJobStage
    <2>2. fn_job_transition_stage(job[claimed[w].job], stage) \in JobRow
      BY <2>1, JobRowTypes
    <2>3. job' \in [Jobs -> JobRow]
      BY <1>stage, <1>held, <2>1, <2>2 DEF TransitionJobStage
    <2> QED
      BY <1>stage, <2>3 DEF TransitionJobStage
  <1>6. ASSUME NEW w \in Workers,
               StageIngesting(w) \/ StageReconciling(w) \/ StagePersisting(w)
        PROVE LocalInv'
    BY <1>6, <1>stage DEF StageIngesting, StageReconciling, StagePersisting, JobStage
  <1>7. ASSUME NEW w \in Workers, LoadInputs(w) PROVE LocalInv'
    BY <1>7 DEF LoadInputs
  <1>8. ASSUME NEW w \in Workers, StageArtifacts(w) PROVE LocalInv'
    <2>1. claimed[w].token \in Nat /\ promoted[w] = 0 /\ claimed[w].job \in Jobs
      BY <1>8 DEF StageArtifacts
    <2>2. TypeOK'
      BY <1>8, <2>1 DEF StageArtifacts
    <2>3. WorkerLocals' /\ ClientLocals'
      BY <1>8, <2>1 DEF StageArtifacts
    <2> QED
      BY <2>2, <2>3
  <1>9. ASSUME NEW w \in Workers, PromoteArtifact(w) PROVE LocalInv'
    <2>1. promoted[w] + 1 \in 1 .. NumArtifacts /\ claimed[w].job \in Jobs
      BY <1>9 DEF PromoteArtifact
    <2>2. objects' \subseteq Jobs \X Artifacts
      BY <1>9, <2>1 DEF PromoteArtifact, Artifacts
    <2>3. promoted' \in [Workers -> 0 .. NumArtifacts] /\ pc' \in [Workers -> PC]
      BY <1>9, <2>1 DEF PromoteArtifact
    <2>4. TypeOK'
      BY <1>9, <2>2, <2>3 DEF PromoteArtifact
    <2>5. WorkerLocals' /\ ClientLocals'
      BY <1>9, <2>1 DEF PromoteArtifact
    <2> QED
      BY <2>4, <2>5
  <1>10. ASSUME NEW w \in Workers, CheckJobCancellation(w) PROVE LocalInv'
    BY <1>10 DEF CheckJobCancellation
  <1>11. ASSUME NEW w \in Workers, CancelAckJob(w) PROVE LocalInv'
    <2>1. pc[w] # "idle" /\ fn_job_cancel_ack(job[claimed[w].job]) \in JobRow
      BY <1>11, JobRowTypes DEF CancelAckJob
    <2>2. job' \in [Jobs -> JobRow]
      BY <1>11, <1>held, <2>1 DEF CancelAckJob
    <2> QED
      BY <1>11, <2>2 DEF CancelAckJob
  <1>12. ASSUME NEW w \in Workers, Complete(w) \/ CompleteUnacknowledged(w)
         PROVE LocalInv'
    <2>1. claimed[w].job \in Jobs
      BY <1>12 DEF Complete, CompleteUnacknowledged
    <2>2. job[claimed[w].job] \in JobRow /\ run[claimed[w].job] \in RunRow
      BY <2>1
    <2>3. /\ complete_job_fenced(job[claimed[w].job]) \in JobRow
          /\ complete_run(run[claimed[w].job]) \in RunRow
      BY <2>2, JobRowTypes, RunRowTypes
    <2>4. WriteCompletion(w)
      BY <1>12 DEF Complete, CompleteUnacknowledged
    <2>5. job' \in [Jobs -> JobRow] /\ run' \in [Jobs -> RunRow]
      BY <2>1, <2>3, <2>4 DEF WriteCompletion
    <2>6. published' \in [Jobs -> Nat]
      BY <2>1, <2>4 DEF WriteCompletion
    <2>7. CASE Complete(w)
      BY <2>5, <2>6, <2>7 DEF Complete
    <2>8. CASE CompleteUnacknowledged(w)
      BY <2>5, <2>6, <2>8 DEF CompleteUnacknowledged
    <2> QED
      BY <1>12, <2>7, <2>8
  <1>13. ASSUME NEW w \in Workers, CompleteRollsBack(w) PROVE LocalInv'
    BY <1>13 DEF CompleteRollsBack
  <1>14. ASSUME NEW w \in Workers, NEW retry \in BOOLEAN, StepRaises(w, retry)
         PROVE LocalInv'
    BY <1>14 DEF StepRaises, Executing
  <1>15. ASSUME NEW w \in Workers, FailJob(w) PROVE LocalInv'
    <2>1. pc[w] # "idle" /\ fn_job_fail(job[claimed[w].job], retryable[w]) \in JobRow
      BY <1>15, JobRowTypes DEF FailJob
    <2>2. job' \in [Jobs -> JobRow]
      BY <1>15, <1>held, <2>1 DEF FailJob
    <2> QED
      BY <1>15, <2>2 DEF FailJob
  <1>16. ASSUME NEW w \in Workers, FailJobRaises(w) PROVE LocalInv'
    BY <1>16 DEF FailJobRaises
  <1>reset. ASSUME NEW w \in Workers, Reset(w)
            PROVE  /\ pc' \in [Workers -> PC]
                   /\ claimed' \in [Workers -> [job : Jobs \cup {NoJob},
                                                token : Nat, gen : Nat]]
                   /\ hb' \in [Workers -> {"beating", "error"}]
                   /\ retryable' \in [Workers -> BOOLEAN]
                   /\ promoted' \in [Workers -> 0 .. NumArtifacts]
                   /\ sweep' \in [Workers -> SUBSET (Jobs \X Artifacts)]
                   /\ WorkerLocals'
    BY <1>reset DEF Reset, NoClaim, NoToken
  <1>17. ASSUME NEW w \in Workers, NEW deleted \in BOOLEAN, DeleteStaged(w, deleted)
         PROVE LocalInv'
    <2>1. CASE promoted[w] = 0
      BY <1>17, <1>reset, <2>1 DEF DeleteStaged
    <2>2. CASE promoted[w] # 0
      BY ZenonT(60), <1>17, <2>2 DEF DeleteStaged
    <2> QED
      BY <2>1, <2>2
  <1>18. ASSUME NEW w \in Workers, LookupOwners(w) PROVE LocalInv'
    <2>1. {claimed[w].job} \X (1 .. promoted[w]) \subseteq Jobs \X Artifacts
      BY <1>18 DEF LookupOwners, Artifacts
    <2> QED
      BY <1>18, <2>1 DEF LookupOwners
  <1>19. ASSUME NEW w \in Workers, NEW deleted \in BOOLEAN, SweepKey(w, deleted)
         PROVE LocalInv'
    BY <1>19 DEF SweepKey
  <1>20. ASSUME NEW w \in Workers,
                LookupRaises(w) \/ AttemptReturns(w) \/ WorkerCrash(w)
         PROVE LocalInv'
    BY <1>20, <1>reset DEF LookupRaises, AttemptReturns, WorkerCrash
  <1>21. ASSUME NEW c \in Clients, NEW j \in Jobs, CancelReadJob(c, j) PROVE LocalInv'
    BY <1>21 DEF CancelReadJob
  <1>22. ASSUME NEW c \in Clients, CancelReadRun(c) PROVE LocalInv'
    <2>1. client'[c].at = "flush" /\ client'[c].job = client[c].job
      BY <1>22 DEF CancelReadRun
    <2>2. /\ client'[c].queued = client[c].queued
          /\ client'[c].initiated \in BOOLEAN
      BY <1>22 DEF CancelReadRun
    <2>3. client' \in [Clients -> [at        : {"idle", "read_run", "flush"},
                                   job       : Jobs \cup {NoJob},
                                   queued    : BOOLEAN,
                                   initiated : BOOLEAN]]
      <3> DEFINE new == [client[c] EXCEPT !.at = "flush",
                                !.initiated = run[client[c].job].status = "initiated"]
      <3>1. new \in [at        : {"idle", "read_run", "flush"},
                     job       : Jobs \cup {NoJob},
                     queued    : BOOLEAN,
                     initiated : BOOLEAN]
        BY ZenonT(60)
      <3>2. client' = [client EXCEPT ![c] = new]
        BY <1>22 DEF CancelReadRun
      <3> QED
        BY <3>1, <3>2
    <2>4. ASSUME NEW d \in Clients, d # c PROVE client'[d] = client[d]
      BY <1>22, <2>4 DEF CancelReadRun
    <2>5. ClientLocals'
      BY <1>22, <2>1, <2>2, <2>4 DEF CancelReadRun
    <2> QED
      BY <1>22, <2>3, <2>5 DEF CancelReadRun
  <1>23. ASSUME NEW c \in Clients, CancelFlush(c) PROVE LocalInv'
    <2>1. client[c].job \in Jobs
      BY <1>23 DEF CancelFlush
    <2>2. CancelledJob(c) \in JobRow /\ CancelledRun(c) \in RunRow
      BY <2>1, JobRowTypes, RunRowTypes DEF CancelledJob, CancelledRun
    <2>3. job' \in [Jobs -> JobRow] /\ run' \in [Jobs -> RunRow]
      <3>1. CASE FlushAccepted(c)
        <4>1. /\ job' = [job EXCEPT ![client[c].job] = CancelledJob(c)]
              /\ run' = [run EXCEPT ![client[c].job] = CancelledRun(c)]
          BY <1>23, <3>1 DEF CancelFlush
        <4> QED
          BY <2>1, <2>2, <4>1
      <3>2. CASE ~FlushAccepted(c)
        BY <1>23, <3>2 DEF CancelFlush
      <3> QED
        BY <3>1, <3>2
    <2> QED
      BY <1>23, <2>3 DEF CancelFlush, IdleClient
  <1>24. ASSUME NEW c \in Clients, CancelAbandoned(c) PROVE LocalInv'
    BY <1>24 DEF CancelAbandoned, IdleClient
  <1>25. CASE UNCHANGED vars
    BY <1>25 DEF vars
  <1> HIDE DEF LocalInv
  <1> QED
    BY <1>1, <1>2, <1>3, <1>4, <1>5, <1>6, <1>7, <1>8, <1>9, <1>10, <1>11, <1>12, <1>13,
       <1>14, <1>15, <1>16, <1>17, <1>18, <1>19, <1>20, <1>21, <1>22, <1>23, <1>24, <1>25
    DEF Next, WorkerStep, WorkerFault

\* Type correctness of the queue, for every number of jobs, workers and clients.
THEOREM TypeCorrect == Spec => []TypeOK
  <1>1. Spec => []LocalInv
    BY InitLocal, NextLocal, PTL DEF Spec
  <1> QED
    BY <1>1, PTL DEF LocalInv

(***************************************************************************)
(* The database seen one job at a time.  However many workers and clients  *)
(* there are, a step changes the job row r, the run row n and the stored   *)
(* results p of at most one job, and only in one of these ways.            *)
(***************************************************************************)
Claimed(r, r2) == Eligible(r) /\ \E t \in Nat \ {0} : r2 = fn_job_claim_next(r, t)

Renewed(r, r2) ==
    /\ r.status = "running"
    /\ \/ r2 = fn_job_heartbeat(r)
       \/ r2 = [r EXCEPT !.lease_expires_at = "expired"]
       \/ \E s \in JobStage : r2 = fn_job_transition_stage(r, s)

Failed(r, r2) == r.status = "running" /\ \E b \in BOOLEAN : r2 = fn_job_fail(r, b)

Acknowledged(r, r2) == r.status = "running" /\ r2 = fn_job_cancel_ack(r)

Completed(r, n, p, r2, n2, p2) ==
    /\ r.status = "running"
    /\ n.status \notin {"failed", "aborted"}
    /\ p = NoToken
    /\ p2 = r.attempt_token
    /\ r2 = complete_job_fenced(r)
    /\ n2 = complete_run(n)

Cancelled(r, n, r2, n2) ==
    /\ JobChecks(r2)
    /\ chk_runs_lifecycle_state_machine(n2)
    /\ \/ r2 = cancel_running(r) /\ n2 = n
       \/ r2 = cancel_queued(r) /\ n2 \in {n, cancel_run(n)}

RowStep(r, n, p, r2, n2, p2) ==
    \/ (Claimed(r, r2) \/ Renewed(r, r2) \/ Failed(r, r2) \/ Acknowledged(r, r2))
          /\ n2 = n /\ p2 = p
    \/ Completed(r, n, p, r2, n2, p2)
    \/ Cancelled(r, n, r2, n2) /\ p2 = p

StepOf(j) ==
    /\ \A i \in Jobs \ {j} :
          job'[i] = job[i] /\ run'[i] = run[i] /\ published'[i] = published[i]
    /\ RowStep(job[j], run[j], published[j], job'[j], run'[j], published'[j])

\* A step changes the rows of at most one job, and in one of the six ways of RowStep.
LEMMA StepChangesOneJob ==
    ASSUME LocalInv, Next
    PROVE  UNCHANGED dbVars \/ \E j \in Jobs : StepOf(j)
  <1> DEFINE Goal == UNCHANGED dbVars \/ \E j \in Jobs : StepOf(j)
  <1>types. /\ job \in [Jobs -> JobRow]
            /\ run \in [Jobs -> RunRow]
            /\ published \in [Jobs -> Nat]
            /\ tokens \in Nat
            /\ retryable \in [Workers -> BOOLEAN]
            /\ \A w \in Workers : pc[w] # "idle" => claimed[w].job \in Jobs
    BY DEF LocalInv, TypeOK, WorkerLocals
  <1>fenced. ASSUME NEW w \in Workers, pc[w] # "idle", NEW row,
                    FencedUpdate(w, row), UNCHANGED <<run, published>>,
                    Renewed(job[claimed[w].job], row) \/ Failed(job[claimed[w].job], row)
                      \/ Acknowledged(job[claimed[w].job], row) \/ ~Holds(w)
             PROVE  Goal
    <2>1. CASE Holds(w)
      <3>1. job' = [job EXCEPT ![claimed[w].job] = row] /\ claimed[w].job \in Jobs
        BY <1>fenced, <1>types, <2>1 DEF FencedUpdate
      <3>2. StepOf(claimed[w].job)
        BY <1>fenced, <1>types, <2>1, <3>1 DEF StepOf, RowStep
      <3> QED
        BY <3>1, <3>2
    <2>2. CASE ~Holds(w)
      BY <1>fenced, <2>2 DEF FencedUpdate, dbVars
    <2> QED
      BY <2>1, <2>2
  <1>held. ASSUME NEW w \in Workers, Holds(w)
           PROVE  /\ job[claimed[w].job].status = "running"
                  /\ job[claimed[w].job].attempt_token = claimed[w].token
    BY <1>held DEF Holds, Fence
  <1>1. ASSUME NEW w \in Workers, NEW j \in Jobs, ClaimNextJob(w, j) PROVE Goal
    <2>1. Claimed(job[j], job'[j])
      <3>1. tokens + 1 \in Nat \ {0}
        BY <1>types
      <3>2. job'[j] = fn_job_claim_next(job[j], tokens + 1)
        BY <1>1, <1>types DEF ClaimNextJob
      <3> QED
        BY <1>1, <3>1, <3>2 DEF Claimed, ClaimNextJob
    <2>2. StepOf(j)
      BY <1>1, <1>types, <2>1 DEF StepOf, RowStep, ClaimNextJob
    <2> QED
      BY <2>2
  <1>2. ASSUME NEW j \in Jobs, LeaseExpires(j) PROVE Goal
    <2>1. Renewed(job[j], job'[j])
      BY <1>2, <1>types DEF LeaseExpires, Renewed
    <2>2. StepOf(j)
      BY <1>2, <1>types, <2>1 DEF StepOf, RowStep, LeaseExpires
    <2> QED
      BY <2>2
  <1>3. ASSUME NEW w \in Workers, Heartbeat(w) PROVE Goal
    <2>1. pc[w] # "idle"
      BY <1>3 DEF Heartbeat, Executing
    <2>2. Holds(w) => Renewed(job[claimed[w].job], fn_job_heartbeat(job[claimed[w].job]))
      BY <1>held DEF Renewed
    <2> QED
      BY <1>3, <1>fenced, <2>1, <2>2 DEF Heartbeat
  <1>4. ASSUME NEW w \in Workers, NEW from, NEW stage \in JobStage, NEW to,
               from # "idle", TransitionJobStage(w, from, stage, to)
        PROVE  Goal
    <2>1. Holds(w) => Renewed(job[claimed[w].job],
                              fn_job_transition_stage(job[claimed[w].job], stage))
      BY <1>held DEF Renewed
    <2> QED
      BY <1>4, <1>fenced, <2>1 DEF TransitionJobStage
  <1>5. ASSUME NEW w \in Workers,
               StageIngesting(w) \/ StageReconciling(w) \/ StagePersisting(w)
        PROVE  Goal
    BY <1>4, <1>5 DEF StageIngesting, StageReconciling, StagePersisting, JobStage
  <1>6. ASSUME NEW w \in Workers, CancelAckJob(w) PROVE Goal
    <2>1. Holds(w) => Acknowledged(job[claimed[w].job],
                                   fn_job_cancel_ack(job[claimed[w].job]))
      BY <1>held DEF Acknowledged
    <2> QED
      BY <1>6, <1>fenced, <2>1 DEF CancelAckJob
  <1>7. ASSUME NEW w \in Workers, FailJob(w) PROVE Goal
    <2>1. Holds(w) => Failed(job[claimed[w].job],
                             fn_job_fail(job[claimed[w].job], retryable[w]))
      BY <1>held, <1>types DEF Failed
    <2> QED
      BY <1>7, <1>fenced, <2>1 DEF FailJob
  <1>8. ASSUME NEW w \in Workers, Complete(w) \/ CompleteUnacknowledged(w) PROVE Goal
    <2>1. CompletionCommits(w) /\ WriteCompletion(w) /\ claimed[w].job \in Jobs
      BY <1>8, <1>types DEF Complete, CompleteUnacknowledged
    <2>2. StepOf(claimed[w].job)
      BY <1>held, <1>types, <2>1
      DEF StepOf, RowStep, Completed, CompletionCommits, WriteCompletion
    <2> QED
      BY <2>1, <2>2
  <1>9. ASSUME NEW c \in Clients, CancelFlush(c) PROVE Goal
    <2>1. CASE FlushAccepted(c)
      <3>1. client[c].initiated => client[c].queued
        BY DEF LocalInv, ClientLocals
      <3>2. client[c].job \in Jobs
        BY <1>9 DEF CancelFlush, LocalInv, ClientLocals
      <3>3. /\ job' = [job EXCEPT ![client[c].job] = CancelledJob(c)]
            /\ run' = [run EXCEPT ![client[c].job] = CancelledRun(c)]
            /\ published' = published
        BY <1>9, <2>1 DEF CancelFlush
      <3>4. Cancelled(job[client[c].job], run[client[c].job], CancelledJob(c),
                      CancelledRun(c))
        BY <2>1, <3>1, <3>2 DEF FlushAccepted, Cancelled, CancelledJob, CancelledRun
      <3>5. StepOf(client[c].job)
        BY <1>types, <3>2, <3>3, <3>4 DEF StepOf, RowStep
      <3> QED
        BY <3>2, <3>5
    <2>2. CASE ~FlushAccepted(c)
      BY <1>9, <2>2 DEF CancelFlush, dbVars
    <2> QED
      BY <2>1, <2>2
  <1>10. ASSUME NEW w \in Workers,
                \/ HeartbeatRaises(w)
                \/ \E member \in BOOLEAN : RevalidateJobCreator(w, member)
                \/ LoadInputs(w)
                \/ StageArtifacts(w)
                \/ PromoteArtifact(w)
                \/ CheckJobCancellation(w)
                \/ CompleteRollsBack(w)
                \/ \E retry \in BOOLEAN : StepRaises(w, retry)
                \/ FailJobRaises(w)
                \/ \E deleted \in BOOLEAN : DeleteStaged(w, deleted)
                \/ LookupOwners(w)
                \/ LookupRaises(w)
                \/ \E deleted \in BOOLEAN : SweepKey(w, deleted)
                \/ AttemptReturns(w)
                \/ WorkerCrash(w)
         PROVE  Goal
    BY <1>10 DEF HeartbeatRaises, RevalidateJobCreator, LoadInputs, StageArtifacts,
       PromoteArtifact, CheckJobCancellation, CompleteRollsBack, StepRaises,
       FailJobRaises, DeleteStaged, LookupOwners, LookupRaises, SweepKey, AttemptReturns,
       WorkerCrash
  <1>11. ASSUME NEW c \in Clients, (\E j \in Jobs : CancelReadJob(c, j))
                \/ CancelReadRun(c) \/ CancelAbandoned(c)
         PROVE  Goal
    BY <1>11 DEF CancelReadJob, CancelReadRun, CancelAbandoned
  <1> HIDE DEF Goal
  <1>12. Goal
    BY <1>1, <1>2, <1>3, <1>5, <1>6, <1>7, <1>8, <1>9, <1>10, <1>11
    DEF Next, WorkerStep, WorkerFault
  <1> QED
    BY <1>12 DEF Goal

(***************************************************************************)
(* What holds of each job's rows.  RowsPassChecks and PublishedByHolder    *)
(* are not inductive by themselves: complete_job_fenced leaves error_code  *)
(* alone, so no unfinished job may have one, and the refinement counts     *)
(* attempts by lease_generation.                                           *)
(***************************************************************************)
RowsAgree(r, n, p) ==
    /\ JobChecks(r)
    /\ chk_runs_lifecycle_state_machine(n)
    /\ r.status \in {"queued", "running"} => ~r.error_code
    /\ r.lease_generation = r.attempt_count
    /\ r.status = "completed" <=> n.status = "completed"
    /\ r.status = "completed" <=> p # NoToken
    /\ r.status = "completed" => p = r.attempt_token
    /\ n.status \in {"initiated", "completed", "failed"}
    /\ n.status = "failed" => r.status = "cancelled"

\* No step of a job's rows makes them disagree, or takes back an outcome.
LEMMA RowStepAgrees ==
    ASSUME NEW r \in JobRow, NEW n \in RunRow, NEW p \in Nat, RowsAgree(r, n, p),
           NEW r2 \in JobRow, NEW n2 \in RunRow, NEW p2 \in Nat,
           RowStep(r, n, p, r2, n2, p2)
    PROVE  RowsAgree(r2, n2, p2)
  <1> USE DEF RowsAgree, JobChecks, chk_jobs_lifecycle_state_machine,
          chk_jobs_attempt_bounds, chk_runs_lifecycle_state_machine, NoToken
  <1>bound. r.attempt_count \in Nat /\ r.lease_generation \in Nat
    BY DEF JobRow
  <1>1. CASE Claimed(r, r2) /\ n2 = n /\ p2 = p
    <2>1. PICK t \in Nat \ {0} : r2 = fn_job_claim_next(r, t)
      BY <1>1 DEF Claimed
    <2>2. /\ r2.status = "running" /\ r2.attempt_token = t /\ r2.started_at = TRUE
          /\ r2.attempt_count = r.attempt_count + 1
          /\ r2.lease_generation = r.lease_generation + 1
          /\ r2.lease_expires_at = "live"
          /\ r2.completed_at = r.completed_at /\ r2.failed_at = r.failed_at
          /\ r2.error_code = r.error_code
      BY <2>1 DEF fn_job_claim_next, JobRow
    <2>3. r.status \in {"queued", "running"} /\ r.attempt_count < MaxAttempts
      BY <1>1 DEF Claimed, Eligible
    <2> QED
      BY <1>1, <1>bound, <2>2, <2>3, MaxAttemptsAssumption
  <1>2. CASE Renewed(r, r2) /\ n2 = n /\ p2 = p
    <2>1. /\ r2.status = "running" /\ r2.lease_expires_at # "null"
          /\ r2.attempt_token = r.attempt_token /\ r2.started_at = r.started_at
          /\ r2.attempt_count = r.attempt_count
          /\ r2.lease_generation = r.lease_generation
          /\ r2.completed_at = r.completed_at /\ r2.failed_at = r.failed_at
          /\ r2.error_code = r.error_code
      BY <1>2 DEF Renewed, fn_job_heartbeat, fn_job_transition_stage, JobRow
    <2> QED
      BY <1>2, <2>1 DEF Renewed
  <1>3. CASE Failed(r, r2) /\ n2 = n /\ p2 = p
    <2>1. PICK b \in BOOLEAN : r2 = fn_job_fail(r, b)
      BY <1>3 DEF Failed
    <2>2. CASE b /\ r.attempt_count < MaxAttempts
      BY <1>3, <2>1, <2>2 DEF Failed, fn_job_fail, JobRow
    <2>3. CASE ~(b /\ r.attempt_count < MaxAttempts)
      BY <1>3, <2>1, <2>3 DEF Failed, fn_job_fail, JobRow
    <2> QED
      BY <2>2, <2>3
  <1>4. CASE Acknowledged(r, r2) /\ n2 = n /\ p2 = p
    BY <1>4 DEF Acknowledged, fn_job_cancel_ack, JobRow
  <1>5. CASE Completed(r, n, p, r2, n2, p2)
    BY <1>5 DEF Completed, complete_job_fenced, complete_run, JobRow, RunRow
  <1>6. CASE Cancelled(r, n, r2, n2) /\ p2 = p
    <2>1. CASE r2 = cancel_running(r) /\ n2 = n
      BY <1>6, <2>1 DEF cancel_running, JobRow
    <2>2. CASE r2 = cancel_queued(r) /\ n2 \in {n, cancel_run(n)}
      BY ZenonT(60), <1>6, <2>2 DEF Cancelled, cancel_queued, cancel_run, JobRow, RunRow
    <2> QED
      BY <1>6, <2>1, <2>2 DEF Cancelled
  <1> QED
    BY <1>1, <1>2, <1>3, <1>4, <1>5, <1>6 DEF RowStep

\* The inductive invariant of the queue.
Agreement == \A j \in Jobs : RowsAgree(job[j], run[j], published[j])

\* The rows submission inserts agree.
LEMMA InitAgrees == Init => Agreement
  BY MaxAttemptsAssumption
  DEF Init, Agreement, RowsAgree, JobChecks, chk_jobs_lifecycle_state_machine,
      chk_jobs_attempt_bounds, chk_runs_lifecycle_state_machine, NoToken,
      create_reconciliation_job, create_run

\* Every step keeps the rows of each job in agreement.
LEMMA StepAgrees == LocalInv /\ Agreement /\ [Next]_vars => Agreement'
  <1> SUFFICES ASSUME LocalInv, Agreement, [Next]_vars
               PROVE  Agreement'
    OBVIOUS
  <1>1. CASE UNCHANGED dbVars
    BY <1>1 DEF Agreement, dbVars
  <1>2. ASSUME NEW j \in Jobs, StepOf(j) PROVE Agreement'
    <2>1. /\ job[j] \in JobRow /\ run[j] \in RunRow /\ published[j] \in Nat
          /\ job'[j] \in JobRow /\ run'[j] \in RunRow /\ published'[j] \in Nat
      BY NextLocal DEF LocalInv, TypeOK
    <2>2. RowsAgree(job'[j], run'[j], published'[j])
      BY <1>2, <2>1, RowStepAgrees DEF Agreement, StepOf
    <2>3. ASSUME NEW i \in Jobs, i # j PROVE RowsAgree(job'[i], run'[i], published'[i])
      BY <1>2, <2>3 DEF Agreement, StepOf
    <2> QED
      BY <2>2, <2>3 DEF Agreement
  <1>3. CASE UNCHANGED vars
    BY <1>1, <1>3 DEF vars, dbVars
  <1> QED
    BY <1>1, <1>2, <1>3, StepChangesOneJob

\* The invariant holds in every reachable state.
LEMMA Inductive == Spec => [](LocalInv /\ Agreement)
  BY InitLocal, NextLocal, InitAgrees, StepAgrees, PTL DEF Spec

\* No interleaving of workers, stale attempts, expired leases and cancellations makes
\* the database refuse, or store, a job or run row that its CHECK constraints forbid.
THEOREM RowsAlwaysPassChecks == Spec => []RowsPassChecks
  <1>1. Agreement => RowsPassChecks
    BY DEF Agreement, RowsAgree, RowsPassChecks
  <1> QED
    BY <1>1, Inductive, PTL

\* Attempt fencing: for any number of workers, results, completed run and completed job
\* come from the one attempt the job row is leased to, or do not exist.
THEOREM FencedPublication == Spec => []PublishedByHolder
  <1>1. Agreement => PublishedByHolder
    BY DEF Agreement, RowsAgree, PublishedByHolder
  <1> QED
    BY <1>1, Inductive, PTL

(***************************************************************************)
(* Outcomes are final.                                                     *)
(***************************************************************************)
OutcomeKept(r, n, p, r2, n2, p2) ==
    /\ r.status \in TerminalStatus => r2.status \in TerminalStatus
    /\ r.status \in {"completed", "cancelled"} => r2.status = r.status
    /\ p # NoToken => p2 = p
    /\ n.status # "initiated" => n2.status = n.status

\* What RowStep may do to rows that have ended.
LEMMA RowStepKeepsOutcome ==
    ASSUME NEW r \in JobRow, NEW n \in RunRow, NEW p \in Nat, RowsAgree(r, n, p),
           NEW r2 \in JobRow, NEW n2 \in RunRow, NEW p2 \in Nat,
           RowStep(r, n, p, r2, n2, p2)
    PROVE  OutcomeKept(r, n, p, r2, n2, p2)
  <1> USE DEF OutcomeKept, TerminalStatus, NoToken
  <1>1. CASE r.status \in {"queued", "running"} /\ n2 = n /\ p2 = p
    BY <1>1
  <1>2. CASE Completed(r, n, p, r2, n2, p2)
    BY <1>2 DEF Completed, RowsAgree
  <1>3. CASE Cancelled(r, n, r2, n2) /\ p2 = p
    <2>1. CASE r2 = cancel_running(r) /\ n2 = n
      BY <1>3, <2>1 DEF cancel_running, JobRow
    <2>2. CASE r2 = cancel_queued(r) /\ n2 \in {n, cancel_run(n)}
      <3>1. r2.status = "cancelled" /\ r2.completed_at = r.completed_at
        BY <2>2 DEF cancel_queued, JobRow
      <3>2. r.status # "completed"
        BY <1>3, <3>1 DEF Cancelled, JobChecks, RowsAgree, chk_jobs_lifecycle_state_machine
      <3>3. n.status # "initiated" => n.status = "failed"
        BY <3>2 DEF RowsAgree
      <3>4. n2 = n \/ n2.status = "failed"
        BY <2>2 DEF cancel_run, RunRow
      <3> QED
        BY <1>3, <3>1, <3>2, <3>3, <3>4
    <2> QED
      BY <1>3, <2>1, <2>2 DEF Cancelled
  <1> QED
    BY <1>1, <1>2, <1>3
    DEF RowStep, Claimed, Eligible, Renewed, Failed, Acknowledged

\* Ended jobs stay ended, and results and run outcome are never replaced, whatever a
\* stale worker or a late cancellation still writes.
THEOREM OutcomesAreFinal == Spec => TerminalIsFinal
  <1> DEFINE Kept == \A j \in Jobs : OutcomeKept(job[j], run[j], published[j],
                                                 job'[j], run'[j], published'[j])
  <1>1. LocalInv /\ Agreement /\ [Next]_vars => Kept \/ UNCHANGED vars
    <2> SUFFICES ASSUME LocalInv, Agreement, Next
                 PROVE  Kept
      OBVIOUS
    <2>1. LocalInv'
      BY NextLocal
    <2>2. CASE UNCHANGED dbVars
      BY <2>2 DEF dbVars, OutcomeKept, TerminalStatus
    <2>3. ASSUME NEW j \in Jobs, StepOf(j) PROVE Kept
      <3>1. /\ job[j] \in JobRow /\ run[j] \in RunRow /\ published[j] \in Nat
            /\ job'[j] \in JobRow /\ run'[j] \in RunRow /\ published'[j] \in Nat
        BY <2>1 DEF LocalInv, TypeOK
      <3>2. OutcomeKept(job[j], run[j], published[j], job'[j], run'[j], published'[j])
        BY <2>3, <3>1, RowStepKeepsOutcome DEF Agreement, StepOf
      <3>3. ASSUME NEW i \in Jobs, i # j
            PROVE  OutcomeKept(job[i], run[i], published[i], job'[i], run'[i], published'[i])
        BY <2>3, <3>3 DEF StepOf, OutcomeKept
      <3> QED
        BY <3>2, <3>3
    <2> QED
      BY <2>2, <2>3, StepChangesOneJob
  <1>2. Kept \/ UNCHANGED vars =>
          [\A j \in Jobs :
              /\ job[j].status \in TerminalStatus => job'[j].status \in TerminalStatus
              /\ job[j].status \in {"completed", "cancelled"} =>
                    job'[j].status = job[j].status
              /\ published[j] # NoToken => published'[j] = published[j]
              /\ run[j].status # "initiated" => run'[j].status = run[j].status]_vars
    BY DEF OutcomeKept
  <1> QED
    BY <1>1, <1>2, Inductive, PTL DEF Spec, TerminalIsFinal

(***************************************************************************)
(* The queue implements the lifecycle it promises.                         *)
(***************************************************************************)
LEMMA RowStepIsLifecycleStep ==
    ASSUME LocalInv, LocalInv', Agreement, Agreement', NEW j \in Jobs, StepOf(j)
    PROVE  [Lifecycle!Next]_(Lifecycle!vars)
  <1> DEFINE phase == [i \in Jobs |-> job[i].status]
             attempts == [i \in Jobs |-> job[i].attempt_count]
             results == [i \in Jobs |-> IF published[i] = NoToken THEN 0
                                        ELSE job[i].lease_generation]
  <1>types. /\ job \in [Jobs -> JobRow] /\ job' \in [Jobs -> JobRow]
            /\ job[j] \in JobRow /\ job'[j] \in JobRow
            /\ published[j] \in Nat /\ published'[j] \in Nat
    BY DEF LocalInv, TypeOK
  <1>others. \A i \in Jobs \ {j} : /\ phase'[i] = phase[i]
                                   /\ attempts'[i] = attempts[i]
                                   /\ results'[i] = results[i]
    BY DEF StepOf
  <1>agree. RowsAgree(job[j], run[j], published[j])
            /\ RowsAgree(job'[j], run'[j], published'[j])
    BY DEF Agreement
  <1>phase. ASSUME NEW v, job'[j].status = v PROVE phase' = [phase EXCEPT ![j] = v]
    BY <1>phase, <1>others
  <1>attempts. ASSUME NEW v, job'[j].attempt_count = v
               PROVE  attempts' = [attempts EXCEPT ![j] = v]
    BY <1>attempts, <1>others
  <1>results. ASSUME NEW v, v = results'[j] PROVE results' = [results EXCEPT ![j] = v]
    <2>1. DOMAIN results' = Jobs /\ DOMAIN results = Jobs
      OBVIOUS
    <2>2. results' = [i \in Jobs |-> results'[i]]
      OBVIOUS
    <2> HIDE DEF results
    <2>3. results' = [i \in Jobs |-> IF i = j THEN v ELSE results[i]]
      BY <1>results, <1>others, <2>2
    <2> QED
      BY <2>1, <2>3
  <1>same. /\ job'[j].status = job[j].status => phase' = phase
           /\ job'[j].attempt_count = job[j].attempt_count => attempts' = attempts
           /\ results'[j] = results[j] => results' = results
    BY <1>others
  <1>none. job[j].status # "completed" => results[j] = 0
    BY <1>agree DEF RowsAgree
  <1>none2. job'[j].status # "completed" => results'[j] = 0
    BY <1>agree DEF RowsAgree
  <1>1. CASE Claimed(job[j], job'[j])
    <2>1. job'[j].status = "running" /\ job'[j].attempt_count = job[j].attempt_count + 1
      BY <1>1, <1>types DEF Claimed, fn_job_claim_next, JobRow
    <2>2. job[j].status \in {"queued", "running"} /\ job[j].attempt_count < MaxAttempts
      BY <1>1 DEF Claimed, Eligible
    <2>3. results' = results
      BY <1>same, <1>none, <1>none2, <2>1, <2>2
    <2>4. Lifecycle!Start(j)
      BY <1>phase, <1>attempts, <2>1, <2>2, <2>3 DEF Lifecycle!Start
    <2> QED
      BY <2>4 DEF Lifecycle!Next
  <1>2. CASE Renewed(job[j], job'[j])
    <2>1. /\ job[j].status = "running" /\ job'[j].status = job[j].status
          /\ job'[j].attempt_count = job[j].attempt_count
      BY <1>2, <1>types DEF Renewed, fn_job_heartbeat, fn_job_transition_stage, JobRow
    <2>2. results' = results
      BY <1>same, <1>none, <1>none2, <2>1
    <2> QED
      BY <1>same, <2>1, <2>2 DEF Lifecycle!vars
  <1>3. CASE Failed(job[j], job'[j])
    <2>1. /\ job[j].status = "running"
          /\ \/ job'[j].status = "queued" /\ job[j].attempt_count < MaxAttempts
             \/ job'[j].status = "failed"
          /\ job'[j].attempt_count = job[j].attempt_count
      BY ZenonT(60), <1>3, <1>types DEF Failed, fn_job_fail, JobRow
    <2>2. results' = results /\ attempts' = attempts
      BY <1>same, <1>none, <1>none2, <2>1
    <2>3. Lifecycle!Requeue(j) \/ Lifecycle!Fail(j)
      BY <1>phase, <2>1, <2>2 DEF Lifecycle!Requeue, Lifecycle!Fail
    <2> QED
      BY <2>3 DEF Lifecycle!Next
  <1>4. CASE Acknowledged(job[j], job'[j])
    <2>1. /\ job[j].status = "running" /\ job'[j].status = "cancelled"
          /\ job'[j].attempt_count = job[j].attempt_count
      BY <1>4, <1>types DEF Acknowledged, fn_job_cancel_ack, JobRow
    <2>2. results' = results /\ attempts' = attempts
      BY <1>same, <1>none, <1>none2, <2>1
    <2>3. Lifecycle!Cancel(j)
      BY <1>phase, <2>1, <2>2 DEF Lifecycle!Cancel
    <2> QED
      BY <2>3 DEF Lifecycle!Next
  <1>5. CASE Completed(job[j], run[j], published[j], job'[j], run'[j], published'[j])
    <2>1. /\ job[j].status = "running" /\ job'[j].status = "completed"
          /\ job'[j].attempt_count = job[j].attempt_count
          /\ job'[j].lease_generation = job[j].attempt_count
      BY <1>5, <1>types, <1>agree DEF Completed, complete_job_fenced, RowsAgree, JobRow
    <2>2. published'[j] # NoToken
      BY <1>agree, <2>1 DEF RowsAgree
    <2>3. results'[j] = attempts[j] /\ results[j] = 0
      BY <1>none, <2>1, <2>2
    <2>4. attempts' = attempts
      BY <1>same, <2>1
    <2>5. Lifecycle!Complete(j)
      BY <1>phase, <1>results, <2>1, <2>3, <2>4 DEF Lifecycle!Complete
    <2> QED
      BY <2>5 DEF Lifecycle!Next
  <1>6. CASE /\ Cancelled(job[j], run[j], job'[j], run'[j])
             /\ published'[j] = published[j]
    <2>1. /\ job'[j].attempt_count = job[j].attempt_count
          /\ job'[j].lease_generation = job[j].lease_generation
          /\ job'[j].status \in {job[j].status, "cancelled"}
      BY <1>6, <1>types DEF Cancelled, cancel_running, cancel_queued, JobRow
    <2>2. results' = results /\ attempts' = attempts
      BY <1>6, <1>same, <2>1
    <2>3. CASE job'[j].status = job[j].status
      BY <1>same, <2>2, <2>3 DEF Lifecycle!vars
    <2>4. CASE job'[j].status = "cancelled" /\ job[j].status # "cancelled"
      <3>1. job[j].status # "completed"
        BY <1>6, <1>agree, <2>4 DEF RowsAgree
      <3>2. job[j].status \in {"queued", "running", "failed"}
        BY <1>types, <2>4, <3>1 DEF JobRow, JobStatus
      <3>3. Lifecycle!Cancel(j)
        BY <1>phase, <2>2, <2>4, <3>2 DEF Lifecycle!Cancel
      <3> QED
        BY <3>3 DEF Lifecycle!Next
    <2> QED
      BY <2>1, <2>3, <2>4
  <1> QED
    BY <1>1, <1>2, <1>3, <1>4, <1>5, <1>6 DEF StepOf, RowStep

\* Workers, leases, retries, stale attempts and cancellations together implement the
\* lifecycle a polling client is promised.
THEOREM QueueImplementsLifecycle == Spec => ImplementsLifecycle
  <1>1. Init => Lifecycle!Init
    BY DEF Init, Lifecycle!Init, create_reconciliation_job, NoToken
  <1>2. LocalInv /\ Agreement /\ [Next]_vars => [Lifecycle!Next]_(Lifecycle!vars)
    <2> SUFFICES ASSUME LocalInv, Agreement, [Next]_vars
                 PROVE  [Lifecycle!Next]_(Lifecycle!vars)
      OBVIOUS
    <2>1. LocalInv' /\ Agreement'
      BY NextLocal, StepAgrees
    <2>2. CASE UNCHANGED dbVars
      BY <2>2 DEF dbVars, Lifecycle!vars
    <2>3. CASE UNCHANGED vars
      BY <2>2, <2>3 DEF vars, dbVars
    <2>4. ASSUME NEW j \in Jobs, StepOf(j) PROVE [Lifecycle!Next]_(Lifecycle!vars)
      BY <2>1, <2>4, RowStepIsLifecycleStep
    <2> QED
      BY <2>2, <2>3, <2>4, StepChangesOneJob
  <1> QED
    BY <1>1, <1>2, Inductive, PTL DEF Spec, ImplementsLifecycle, Lifecycle!Spec

(***************************************************************************)
(* Attempts.  An attempt's own results are safe from its own cleanup       *)
(* because no two attempts share a token and no token is issued twice:     *)
(* published[j] = claimed[w].token can only have been written by w.        *)
(***************************************************************************)
AttemptTokens ==
    /\ \A w \in Workers : pc[w] # "idle" => claimed[w].token \in 1 .. tokens
    /\ \A w, v \in Workers :
          /\ pc[w] # "idle" /\ pc[v] # "idle"
          /\ claimed[w].token = claimed[v].token
          => w = v
    /\ \A j \in Jobs : published[j] <= tokens

AttemptInv == AttemptTokens /\ OwnCommitSurvives

\* A step that issues, publishes and sweeps nothing, and only moves busy workers.
Quiet ==
    /\ UNCHANGED <<tokens, published, claimed, sweep>>
    /\ \A w \in Workers : pc'[w] # pc[w] => pc[w] # "idle" /\ pc'[w] # "sweep"

\* Moving a busy worker anywhere but into its sweep keeps the attempts apart.
LEMMA QuietKeepsAttempts == AttemptInv /\ Quiet => AttemptInv'
  BY DEF AttemptInv, AttemptTokens, OwnCommitSurvives, Quiet

\* A worker that forgets its attempt keeps the attempts apart.
LEMMA ResetKeepsAttempts ==
    ASSUME LocalInv, AttemptInv, NEW w \in Workers, Reset(w), UNCHANGED <<tokens, published>>
    PROVE  AttemptInv'
  <1>1. /\ pc'[w] = "idle"
        /\ \A v \in Workers \ {w} : /\ pc'[v] = pc[v] /\ claimed'[v] = claimed[v]
                                    /\ sweep'[v] = sweep[v]
    BY DEF Reset, Goto, LocalInv, TypeOK
  <1> QED
    BY <1>1 DEF AttemptInv, AttemptTokens, OwnCommitSurvives

\* Every step keeps the attempts apart, and their own results out of their sweeps.
LEMMA StepKeepsAttempts == LocalInv /\ AttemptInv /\ [Next]_vars => AttemptInv'
  <1> SUFFICES ASSUME LocalInv, AttemptInv, [Next]_vars
               PROVE  AttemptInv'
    OBVIOUS
  <1> USE QuietKeepsAttempts DEF Goto, dbVars, storeVars, workerVars
  <1>types. /\ pc \in [Workers -> PC] /\ tokens \in Nat
            /\ claimed \in [Workers -> [job : Jobs \cup {NoJob}, token : Nat, gen : Nat]]
            /\ published \in [Jobs -> Nat]
            /\ promoted \in [Workers -> 0 .. NumArtifacts]
            /\ sweep \in [Workers -> SUBSET (Jobs \X Artifacts)]
            /\ \A w \in Workers : pc[w] # "idle" => claimed[w].job \in Jobs
    BY DEF LocalInv, TypeOK, WorkerLocals
  <1>1. ASSUME NEW w \in Workers, NEW j \in Jobs, ClaimNextJob(w, j) PROVE AttemptInv'
    <2>1. /\ pc'[w] = "revalidate" /\ claimed'[w].token = tokens + 1 /\ tokens' = tokens + 1
          /\ \A v \in Workers \ {w} : pc'[v] = pc[v] /\ claimed'[v] = claimed[v]
          /\ sweep' = sweep /\ published' = published
      BY <1>1, <1>types DEF ClaimNextJob
    <2>2. AttemptTokens'
      BY <1>types, <2>1 DEF AttemptInv, AttemptTokens
    <2>3. OwnCommitSurvives'
      BY <2>1 DEF AttemptInv, OwnCommitSurvives
    <2> QED
      BY <2>2, <2>3 DEF AttemptInv
  <1>2. ASSUME NEW w \in Workers, Complete(w) \/ CompleteUnacknowledged(w)
        PROVE  AttemptInv'
    <2>1. /\ pc[w] = "commit" /\ claimed[w].job \in Jobs
          /\ published' = [published EXCEPT ![claimed[w].job] = claimed[w].token]
          /\ UNCHANGED <<tokens, claimed, sweep>>
          /\ pc'[w] \in {"cleanup", "failing"}
          /\ \A v \in Workers \ {w} : pc'[v] = pc[v]
      BY <1>2, <1>types DEF Complete, CompleteUnacknowledged, WriteCompletion
    <2>2. claimed[w].token \in 1 .. tokens
      BY <2>1 DEF AttemptInv, AttemptTokens
    <2>3. AttemptTokens'
      BY <1>types, <2>1, <2>2 DEF AttemptInv, AttemptTokens
    <2>4. ASSUME NEW v \in Workers, pc'[v] = "sweep",
                 published'[claimed'[v].job] = claimed'[v].token
          PROVE  sweep'[v] = {}
      <3>1. v # w /\ pc[v] = "sweep" /\ claimed[v].token # claimed[w].token
        BY <2>1, <2>4 DEF AttemptInv, AttemptTokens
      <3>2. published[claimed[v].job] = claimed[v].token
        BY <1>types, <2>1, <2>4, <3>1
      <3> QED
        BY <2>1, <3>1, <3>2 DEF AttemptInv, OwnCommitSurvives
    <2> QED
      BY <2>3, <2>4 DEF AttemptInv, OwnCommitSurvives
  <1>3. ASSUME NEW w \in Workers, LookupOwners(w) PROVE AttemptInv'
    <2>1. /\ pc[w] = "lookup" /\ UNCHANGED <<tokens, claimed, published>>
          /\ pc'[w] = "sweep"
          /\ sweep'[w] = ({claimed[w].job} \X (1 .. promoted[w])) \ OwnedKeys(w)
          /\ \A v \in Workers \ {w} : pc'[v] = pc[v] /\ sweep'[v] = sweep[v]
      BY <1>3, <1>types DEF LookupOwners
    <2>2. AttemptTokens'
      BY <2>1 DEF AttemptInv, AttemptTokens
    <2>3. ASSUME published[claimed[w].job] = claimed[w].token PROVE sweep'[w] = {}
      <3>1. claimed[w].token # NoToken
        BY <2>1 DEF AttemptInv, AttemptTokens, NoToken
      <3>2. OwnedKeys(w) = {claimed[w].job} \X (1 .. NumArtifacts)
        BY <2>3, <3>1 DEF OwnedKeys, FinalKeys, Artifacts
      <3>3. 1 .. promoted[w] \subseteq 1 .. NumArtifacts
        BY <1>types, NumArtifactsAssumption
      <3> QED
        BY <2>1, <3>2, <3>3
    <2>4. OwnCommitSurvives'
      BY <2>1, <2>3 DEF AttemptInv, OwnCommitSurvives
    <2> QED
      BY <2>2, <2>4 DEF AttemptInv
  <1>4. ASSUME NEW w \in Workers, NEW deleted \in BOOLEAN, SweepKey(w, deleted)
        PROVE  AttemptInv'
    <2>1. /\ UNCHANGED <<tokens, claimed, published, pc>>
          /\ \A v \in Workers : sweep'[v] \subseteq sweep[v]
      BY <1>4, <1>types DEF SweepKey
    <2> QED
      BY <2>1 DEF AttemptInv, AttemptTokens, OwnCommitSurvives
  <1>5. ASSUME NEW w \in Workers, NEW deleted \in BOOLEAN, DeleteStaged(w, deleted)
        PROVE  AttemptInv'
    <2>1. CASE promoted[w] = 0
      BY <1>5, <2>1, ResetKeepsAttempts DEF DeleteStaged
    <2>2. CASE promoted[w] # 0
      <3>1. Quiet
        BY <1>5, <1>types, <2>2 DEF DeleteStaged, Quiet
      <3> QED
        BY <3>1
    <2> QED
      BY <2>1, <2>2
  <1>6. ASSUME NEW w \in Workers,
               LookupRaises(w) \/ AttemptReturns(w) \/ WorkerCrash(w)
        PROVE  AttemptInv'
    BY <1>6, ResetKeepsAttempts DEF LookupRaises, AttemptReturns, WorkerCrash
  <1>7. ASSUME NEW w \in Workers,
               \/ Heartbeat(w)
               \/ HeartbeatRaises(w)
               \/ \E member \in BOOLEAN : RevalidateJobCreator(w, member)
               \/ StageIngesting(w) \/ StageReconciling(w) \/ StagePersisting(w)
               \/ LoadInputs(w)
               \/ StageArtifacts(w)
               \/ PromoteArtifact(w)
               \/ CheckJobCancellation(w)
               \/ CancelAckJob(w)
               \/ CompleteRollsBack(w)
               \/ \E retry \in BOOLEAN : StepRaises(w, retry)
               \/ FailJob(w)
               \/ FailJobRaises(w)
        PROVE  AttemptInv'
    <2>1. /\ UNCHANGED <<tokens, published, claimed, sweep>>
          /\ \/ UNCHANGED pc
             \/ pc[w] # "idle" /\ \E l \in PC \ {"sweep"} : pc' = [pc EXCEPT ![w] = l]
      BY <1>7 DEF Heartbeat, HeartbeatRaises, RevalidateJobCreator, StageIngesting,
         StageReconciling, StagePersisting, TransitionJobStage, LoadInputs,
         StageArtifacts, PromoteArtifact, CheckJobCancellation, CancelAckJob,
         CompleteRollsBack, StepRaises, FailJob, FailJobRaises, Executing, PC
    <2>2. Quiet
      BY <1>types, <2>1 DEF Quiet
    <2> QED
      BY <2>2
  <1>8. ASSUME (\E j \in Jobs : LeaseExpires(j)) \/
               \E c \in Clients : \/ \E j \in Jobs : CancelReadJob(c, j)
                                  \/ CancelReadRun(c) \/ CancelFlush(c)
                                  \/ CancelAbandoned(c)
        PROVE  AttemptInv'
    <2>1. Quiet
      BY <1>8 DEF Quiet, LeaseExpires, CancelReadJob, CancelReadRun, CancelFlush,
         CancelAbandoned
    <2> QED
      BY <2>1
  <1>9. CASE UNCHANGED vars
    <2>1. Quiet
      BY <1>9 DEF Quiet, vars
    <2> QED
      BY <2>1
  <1> QED
    BY <1>1, <1>2, <1>3, <1>4, <1>5, <1>6, <1>7, <1>8, <1>9
    DEF Next, WorkerStep, WorkerFault

\* A worker whose commit went through unacknowledged deletes none of the artifacts it
\* published, for any number of workers, attempts and artifacts.
THEOREM OwnCommitsSurviveCleanup == Spec => []OwnCommitSurvives
  <1>1. Init => AttemptInv
    BY DEF Init, AttemptInv, AttemptTokens, OwnCommitSurvives, NoToken
  <1>2. Spec => []AttemptInv
    BY <1>1, InitLocal, NextLocal, StepKeepsAttempts, PTL DEF Spec
  <1> QED
    BY <1>2, PTL DEF AttemptInv

(***************************************************************************)
(* Cancellations hold.                                                     *)
(***************************************************************************)

\* A flagged row stays flagged, and no attempt that does not hold it comes to hold it:
\* only a claim issues a lease, and fn_job_claim_next passes flagged rows over.
LEMMA FlaggedRowStep ==
    ASSUME NEW r \in JobRow, NEW n \in RunRow, NEW p \in Nat, r.is_cancelled,
           NEW r2 \in JobRow, NEW n2 \in RunRow, NEW p2 \in Nat,
           RowStep(r, n, p, r2, n2, p2)
    PROVE  /\ r2.is_cancelled
           /\ \A t, g \in Nat : Fence(r2, t, g) => Fence(r, t, g)
           /\ r2.status = "completed" =>
                r.status = "completed" \/ Completed(r, n, p, r2, n2, p2)
  <1>1. CASE Claimed(r, r2)
    BY <1>1 DEF Claimed, Eligible
  <1>2. CASE Renewed(r, r2)
    BY <1>2 DEF Renewed, Fence, fn_job_heartbeat, fn_job_transition_stage, JobRow
  <1>3. CASE Failed(r, r2)
    BY <1>3 DEF Failed, Fence, fn_job_fail, JobRow
  <1>4. CASE Acknowledged(r, r2)
    BY <1>4 DEF Acknowledged, Fence, fn_job_cancel_ack, JobRow
  <1>5. CASE Completed(r, n, p, r2, n2, p2)
    BY <1>5 DEF Completed, Fence, complete_job_fenced, JobRow
  <1>6. CASE Cancelled(r, n, r2, n2)
    BY <1>6 DEF Cancelled, Fence, cancel_running, cancel_queued, JobRow
  <1> QED
    BY <1>1, <1>2, <1>3, <1>4, <1>5, <1>6 DEF RowStep

\* A worker reaches the completion transaction only through the pre-commit check, which
\* sends an attempt that holds a flagged row elsewhere.
LEMMA CommitFollowsCheck ==
    ASSUME LocalInv, [Next]_vars, NEW w \in Workers, pc'[w] = "commit"
    PROVE  /\ claimed'[w] = claimed[w]
           /\ pc[w] # "idle"
           /\ \/ pc[w] = "commit"
              \/ job' = job /\ ~(Holds(w) /\ job[claimed[w].job].is_cancelled)
  <1> DEFINE Goal == /\ claimed'[w] = claimed[w]
                     /\ pc[w] # "idle"
                     /\ \/ pc[w] = "commit"
                        \/ job' = job /\ ~(Holds(w) /\ job[claimed[w].job].is_cancelled)
  <1> USE DEF Goto, dbVars, storeVars, workerVars
  <1>types. /\ pc \in [Workers -> PC]
            /\ claimed \in [Workers -> [job : Jobs \cup {NoJob}, token : Nat, gen : Nat]]
    BY DEF LocalInv, TypeOK
  <1>1. CASE pc'[w] = pc[w] /\ claimed'[w] = claimed[w]
    BY <1>1
  <1>2. ASSUME NEW v \in Workers,
               \/ \E j \in Jobs : ClaimNextJob(v, j)
               \/ \E member \in BOOLEAN : RevalidateJobCreator(v, member)
               \/ StageIngesting(v) \/ StageReconciling(v) \/ StagePersisting(v)
               \/ LoadInputs(v)
               \/ StageArtifacts(v)
               \/ PromoteArtifact(v)
               \/ CancelAckJob(v)
               \/ Complete(v)
               \/ CompleteUnacknowledged(v)
               \/ CompleteRollsBack(v)
               \/ \E retry \in BOOLEAN : StepRaises(v, retry)
               \/ FailJob(v)
               \/ FailJobRaises(v)
               \/ \E deleted \in BOOLEAN : DeleteStaged(v, deleted)
               \/ LookupOwners(v)
               \/ LookupRaises(v)
               \/ AttemptReturns(v)
               \/ WorkerCrash(v)
        PROVE  Goal
    <2>1. /\ \E l \in PC \ {"commit"} : pc' = [pc EXCEPT ![v] = l]
          /\ \A u \in Workers \ {v} : claimed'[u] = claimed[u]
      BY <1>2, <1>types
      DEF ClaimNextJob, RevalidateJobCreator, StageIngesting, StageReconciling,
          StagePersisting, TransitionJobStage, LoadInputs, StageArtifacts,
          PromoteArtifact, CancelAckJob, Complete, CompleteUnacknowledged,
          CompleteRollsBack, StepRaises, FailJob, FailJobRaises, DeleteStaged, Reset,
          LookupOwners, LookupRaises, AttemptReturns, WorkerCrash, PC
    <2> QED
      BY <1>1, <1>types, <2>1
  <1>3. ASSUME NEW v \in Workers, CheckJobCancellation(v) PROVE Goal
    <2>1. CASE v = w
      BY <1>3, <1>types, <2>1
      DEF CheckJobCancellation, fn_job_check_cancellation, Holds
    <2>2. CASE v # w
      BY <1>1, <1>3, <1>types, <2>2 DEF CheckJobCancellation
    <2> QED
      BY <2>1, <2>2
  <1>4. ASSUME UNCHANGED <<pc, claimed>> PROVE Goal
    BY <1>1, <1>4
  <1>5. ASSUME NEW v \in Workers,
               \/ Heartbeat(v) \/ HeartbeatRaises(v)
               \/ \E deleted \in BOOLEAN : SweepKey(v, deleted)
        PROVE  Goal
    BY <1>4, <1>5 DEF Heartbeat, HeartbeatRaises, SweepKey
  <1>6. ASSUME (\E j \in Jobs : LeaseExpires(j)) \/
               \E c \in Clients : \/ \E j \in Jobs : CancelReadJob(c, j)
                                  \/ CancelReadRun(c) \/ CancelFlush(c)
                                  \/ CancelAbandoned(c)
        PROVE  Goal
    BY <1>4, <1>6 DEF LeaseExpires, CancelReadJob, CancelReadRun, CancelFlush,
       CancelAbandoned
  <1>7. ASSUME UNCHANGED vars PROVE Goal
    BY <1>4, <1>7 DEF vars
  <1> HIDE DEF Goal
  <1>8. ASSUME NEW v \in Workers, WorkerStep(v) PROVE Goal
    BY <1>2, <1>3, <1>5, <1>8 DEF WorkerStep
  <1>9. ASSUME NEW v \in Workers, WorkerFault(v) PROVE Goal
    BY <1>2, <1>5, <1>9 DEF WorkerFault
  <1>10. Goal
    BY <1>2, <1>5, <1>6, <1>7, <1>8, <1>9 DEF Next
  <1> QED
    BY <1>10 DEF Goal

\* Results appear only in the completion transaction of an attempt that holds the row.
LEMMA PublishedAtCommit ==
    ASSUME LocalInv, Next, NEW j \in Jobs, published'[j] # published[j]
    PROVE  \E w \in Workers : Holds(w) /\ claimed[w].job = j /\ pc[w] = "commit"
  <1> USE DEF dbVars
  <1>1. PICK w \in Workers : Complete(w) \/ CompleteUnacknowledged(w)
    BY ZenonT(60) DEF Next, WorkerStep, WorkerFault, ClaimNextJob, LeaseExpires, Heartbeat,
       HeartbeatRaises, RevalidateJobCreator, StageIngesting, StageReconciling,
       StagePersisting, TransitionJobStage, LoadInputs, StageArtifacts, PromoteArtifact,
       CheckJobCancellation, CancelAckJob, CompleteRollsBack, StepRaises, FailJob,
       FailJobRaises, DeleteStaged, LookupOwners, LookupRaises, SweepKey,
       AttemptReturns, WorkerCrash, CancelReadJob, CancelReadRun, CancelFlush,
       CancelAbandoned
  <1>2. /\ pc[w] = "commit" /\ Holds(w)
        /\ published' = [published EXCEPT ![claimed[w].job] = claimed[w].token]
    BY <1>1 DEF Complete, CompleteUnacknowledged, CompletionCommits, WriteCompletion
  <1>3. claimed[w].job = j
    BY <1>2 DEF LocalInv, TypeOK
  <1> QED
    BY <1>2, <1>3

\* No step of a worker, stale or not, takes back a cancellation that was in time.
LEMMA StepKeepsCancellation ==
    ASSUME LocalInv, Agreement, [Next]_vars, NEW j \in Jobs, CancelledInTime(j)
    PROVE  CancelledInTime(j)'
  <1>types. /\ job[j] \in JobRow /\ run[j] \in RunRow /\ published[j] \in Nat
            /\ job'[j] \in JobRow /\ run'[j] \in RunRow /\ published'[j] \in Nat
            /\ \A w \in Workers : claimed'[w].token \in Nat /\ claimed'[w].gen \in Nat
    BY NextLocal DEF LocalInv, TypeOK
  <1>1. /\ job'[j].is_cancelled
        /\ \A t, g \in Nat : Fence(job'[j], t, g) => Fence(job[j], t, g)
        /\ job'[j].status # "completed"
    <2>1. CASE job'[j] = job[j]
      BY <2>1 DEF CancelledInTime
    <2>2. CASE StepOf(j) /\ Next
      <3>1. /\ job'[j].is_cancelled
            /\ \A t, g \in Nat : Fence(job'[j], t, g) => Fence(job[j], t, g)
            /\ job'[j].status = "completed" =>
                 Completed(job[j], run[j], published[j], job'[j], run'[j], published'[j])
        BY <1>types, <2>2, FlaggedRowStep DEF StepOf, CancelledInTime
      <3>2. ASSUME Completed(job[j], run[j], published[j],
                             job'[j], run'[j], published'[j])
            PROVE  FALSE
        <4>1. published'[j] # published[j]
          BY <3>2 DEF Completed, Agreement, RowsAgree, JobChecks,
             chk_jobs_lifecycle_state_machine
        <4> QED
          BY <2>2, <4>1, PublishedAtCommit DEF CancelledInTime
      <3> QED
        BY <3>1, <3>2
    <2>3. CASE UNCHANGED vars
      BY <2>1, <2>3 DEF vars
    <2>4. ASSUME NEW i \in Jobs, i # j, StepOf(i) PROVE job'[j] = job[j]
      BY <2>4 DEF StepOf
    <2>5. ASSUME UNCHANGED dbVars PROVE job'[j] = job[j]
      BY <2>5 DEF dbVars
    <2> QED
      BY <2>1, <2>2, <2>3, <2>4, <2>5, StepChangesOneJob
  <1>2. ASSUME NEW w \in Workers, Holds(w)', claimed'[w].job = j, pc'[w] = "commit"
        PROVE  FALSE
    <2>1. /\ claimed'[w] = claimed[w]
          /\ pc[w] # "idle"
          /\ \/ pc[w] = "commit"
             \/ job' = job /\ ~(Holds(w) /\ job[claimed[w].job].is_cancelled)
      BY <1>2, CommitFollowsCheck
    <2>2. Fence(job'[j], claimed[w].token, claimed[w].gen)
      BY <1>2, <2>1 DEF Holds
    <2>3. Holds(w)
      BY <1>1, <1>2, <1>types, <2>1, <2>2 DEF Holds
    <2> QED
      BY <1>2, <2>1, <2>3 DEF CancelledInTime
  <1> QED
    BY <1>1, <1>2 DEF CancelledInTime

\* A cancellation committed before the leaseholder's pre-commit check is never lost,
\* whatever retries, expired leases, stale attempts and later cancellations follow.
THEOREM CancellationsHold == Spec => CancellationHolds
  <1>1. LocalInv /\ Agreement /\ [Next]_vars =>
          [\A j \in Jobs : CancelledInTime(j) => CancelledInTime(j)']_vars
    BY StepKeepsCancellation
  <1> QED
    BY <1>1, Inductive, PTL DEF Spec, CancellationHolds

=============================================================================
