----------------------------- MODULE TenantRuns -----------------------------
(***************************************************************************)
(* The reconciliation runs of the tenants: the synchronous execution of a  *)
(* run in three phases (persistence/service.py), the run repository        *)
(* (persistence/repositories/run.py), and the routes under /api/tenant     *)
(* that read, hold, delete, list and compare runs (webapp/tenant_routes.py *)
(* and webapp/agent_service.py).  A database transaction that takes the    *)
(* row lock is one step; a handler that reads with several statements of a *)
(* READ COMMITTED transaction takes one step per statement.                *)
(***************************************************************************)
EXTENDS Integers, Sequences, FiniteSets, SequencesExt

CONSTANTS
    Orgs,          \* organisations
    Calls,         \* calls of execute_reconciliation; a call signs its own certificate
    Hashes,        \* digests of the canonical report
    Periods,       \* reporting periods, integers; each stands for one month
    Deployments,   \* subset of BOOLEAN: whether forced row-level security binds the role
    PageLimit,     \* the limit parameter of GET /runs
    MaxRuns,       \* bound: rows of reconciliation_runs
    MaxHolds,      \* bound: changes of the legal hold of one run
    MaxClock,      \* bound: the application clock
    NoTenant,      \* app.current_tenant_id is not set
    NoPeriod,      \* the reporting period columns are NULL
    NoHash,        \* reconciliation_hash is NULL
    NoOutput       \* no result, certificate and artifact rows

ASSUME TenantRunsAssumption ==
    /\ Deployments \subseteq BOOLEAN
    /\ PageLimit \in Nat \ {0}
    /\ MaxRuns \in Nat /\ MaxHolds \in Nat /\ MaxClock \in Nat
    /\ Periods \subseteq Int /\ NoPeriod \notin Periods
    /\ NoHash \notin Hashes
    /\ NoOutput \notin [hash : Hashes, cert : Calls] /\ NoOutput \notin Calls
    /\ NoTenant \notin Orgs

VARIABLES
    client,   \* what the one client beside the executions does
    rls,      \* whether the deployment's database role is bound by row-level security
    runs,     \* reconciliation_runs, by surrogate id
    outputs,  \* result, certificate and artifact rows of each run, written together
    audit,    \* audit_events of each run, in order
    call,     \* the executions of runs
    reader,   \* one GET of a run's evidence
    pager,    \* one client that walks GET /runs page by page
    served,   \* history: every certificate a caller was given, <<run, certificate>>
    compared, \* history: every answer of POST /runs/compare
    clock     \* the application clock

vars == <<client, rls, runs, outputs, audit, call, reader, pager, served, compared, clock>>

RunIds == 1..MaxRuns
Clients == {"reads", "lists", "compares"}   \* none of them writes what another one reads
Roles == {"owner", "admin", "operator", "reviewer", "auditor"}

(* Rows of reconciliation_runs: the columns the operations read or write. *)
ReconciliationRun ==
    [org : Orgs, created : 0..MaxClock, period : Periods \cup {NoPeriod},
     status : {"initiated", "completed", "failed"}, hash : Hashes \cup {NoHash},
     hold : BOOLEAN, deleted : BOOLEAN]

(* The rows one completion writes: the result, the certificate (named by   *)
(* the call that signed it) and the artifact metadata.                     *)
Output == [hash : Hashes, cert : Calls]

AuditEvent ==
    {"run.initiated", "run.completed", "run.failed", "run.deleted",
     "run.legal_hold_placed", "run.legal_hold_released"}

RUN_PERMISSIONS(action) ==
    IF action \in {"delete", "legal_hold"} THEN {"owner", "admin"}
    ELSE {"owner", "admin", "operator"}

(* Some role of the caller's organisation passes require_run_mutation.     *)
require_run_mutation(action) ==
    \E role \in Roles : role \in RUN_PERMISSIONS(action)

-----------------------------------------------------------------------------
(* Row visibility.                                                         *)

(* Fault: soft-deleted rows are not filtered out.                          *)
FaultSeesDeleted(o) == {r \in DOMAIN runs : runs[r].org = o}

(* Fault: the repository relies on the database's policy alone.            *)
FaultPolicyOnly(o) == {r \in DOMAIN runs : ~runs[r].deleted}

(* The repository's filter: the caller's organisation, not soft-deleted.   *)
scoped_select(o) ==
    {r \in DOMAIN runs : runs[r].org = o /\ ~runs[r].deleted}

(* The database's filter: rows whose organisation is app.current_tenant_id. *)
tenant_isolation_policy(setting) ==
    {r \in DOMAIN runs : rls => runs[r].org = setting}

(* Inside a UnitOfWork the setting is the caller's organisation.           *)
UnitOfWork(o) == scoped_select(o) \cap tenant_isolation_policy(o)

(* The routes open a plain session: the setting is never made.             *)
PlainSession(o) == scoped_select(o) \cap tenant_isolation_policy(NoTenant)

-----------------------------------------------------------------------------
TypeOK ==
    /\ client \in Clients
    /\ rls \in Deployments
    /\ runs \in Seq(ReconciliationRun) /\ Len(runs) <= MaxRuns
    /\ outputs \in [RunIds -> Output \cup {NoOutput}]
    /\ audit \in [RunIds -> Seq(AuditEvent)]
    /\ call \in [Calls -> [pc : {"idle", "engine", "persist", "record", "done"},
                           run : {0} \cup RunIds, hash : Hashes \cup {NoHash}]]
    /\ reader \in [pc : {"idle", "result", "certificate", "done"}, org : Orgs \cup {NoTenant},
                   run : {0} \cup RunIds, status : {"", "initiated", "completed", "failed"},
                   hash : Hashes \cup {NoHash}, result : Hashes \cup {NoHash},
                   cert : Calls \cup {NoOutput}]
    /\ pager \in [pc : {"idle", "more", "done"}, org : Orgs \cup {NoTenant},
                  cursor : {<<>>} \cup ((0..MaxClock) \X RunIds),
                  seen : Seq(SUBSET RunIds), start : SUBSET RunIds]
    /\ served \subseteq RunIds \X Calls
    /\ compared \subseteq [base : RunIds, target : RunIds, delta : SUBSET (Hashes \X {1, -1}),
                           relationship : {"subsequent", "preceding"}]
    /\ clock \in 0..MaxClock

IdleCall == [pc |-> "idle", run |-> 0, hash |-> NoHash]
EndedCall == [pc |-> "done", run |-> 0, hash |-> NoHash]
IdleReader == [pc |-> "idle", org |-> NoTenant, run |-> 0, status |-> "",
               hash |-> NoHash, result |-> NoHash, cert |-> NoOutput]
IdlePager == [pc |-> "idle", org |-> NoTenant, cursor |-> <<>>, seen |-> <<>>, start |-> {}]

Init ==
    /\ client \in Clients
    /\ rls \in Deployments
    /\ runs = <<>>
    /\ outputs = [r \in RunIds |-> NoOutput]
    /\ audit = [r \in RunIds |-> <<>>]
    /\ call = [c \in Calls |-> IdleCall]
    /\ reader = IdleReader
    /\ pager = IdlePager
    /\ served = {} /\ compared = {}
    /\ clock = 0

-----------------------------------------------------------------------------
(* Run creation.                                                           *)

create_run(o, p) ==
    /\ require_run_mutation("create")
    /\ Len(runs) < MaxRuns
    /\ runs' = Append(runs, [org |-> o, created |-> clock, period |-> p, status |-> "initiated",
                             hash |-> NoHash, hold |-> FALSE, deleted |-> FALSE])

append_audit_event(r, event) == audit' = [audit EXCEPT ![r] = Append(@, event)]

(* Phase 1: the run, its file rows and run.initiated in one transaction.   *)
InitiateRun(c, o) ==
    /\ call[c].pc = "idle"
    /\ create_run(o, NoPeriod)
    /\ append_audit_event(Len(runs) + 1, "run.initiated")
    /\ call' = [call EXCEPT ![c].pc = "engine", ![c].run = Len(runs) + 1]
    /\ UNCHANGED <<client, rls, outputs, reader, pager, served, compared, clock>>

(* A submission creates the run with its reporting period, which only the  *)
(* comparison reads; a worker will execute it.                             *)
SubmitRun(o, p) ==
    /\ client = "compares"
    /\ create_run(o, p)
    /\ append_audit_event(Len(runs) + 1, "run.initiated")
    /\ UNCHANGED <<client, rls, outputs, call, reader, pager, served, compared, clock>>

(* Another execution of a run that exists: the retry and the concurrent    *)
(* worker that the comments of phase 3 and the lifecycle tests describe.   *)
ResumeRun(c, r) ==
    /\ call[c].pc = "idle"
    /\ r \in UnitOfWork(runs[r].org)
    /\ call' = [call EXCEPT ![c].pc = "engine", ![c].run = r]
    /\ UNCHANGED <<client, rls, runs, outputs, audit, reader, pager, served, compared, clock>>

-----------------------------------------------------------------------------
(* Phase 2: the engine runs with no transaction open.                      *)

EngineReports(c, h) ==
    /\ call[c].pc = "engine"
    /\ call' = [call EXCEPT ![c].pc = "persist", ![c].hash = h]
    /\ UNCHANGED <<client, rls, runs, outputs, audit, reader, pager, served, compared, clock>>

EngineFails(c) ==
    /\ call[c].pc = "engine"
    /\ call' = [call EXCEPT ![c].pc = "record"]
    /\ UNCHANGED <<client, rls, runs, outputs, audit, reader, pager, served, compared, clock>>

-----------------------------------------------------------------------------
(* Phase 3: one transaction under the run's row lock.                      *)

(* lock_run_for_update and the three refusals that persist nothing: the    *)
(* run is gone, completed with another report, or failed.                  *)
Refused(c) ==
    LET r == call[c].run
    IN \/ r \notin UnitOfWork(runs[r].org)
       \/ runs[r].status = "completed" /\ runs[r].hash # call[c].hash
       \/ runs[r].status = "failed"

RefuseToPersist(c) ==
    /\ call[c].pc = "persist"
    /\ Refused(c)
    /\ call' = [call EXCEPT ![c] = EndedCall]
    /\ UNCHANGED <<client, rls, runs, outputs, audit, reader, pager, served, compared, clock>>

(* Fault: the retry issues its certificate again.                          *)
FaultReissued(c) == c

(* The certificate handed to a caller whose run turns out to be completed: *)
(* the one stored at the first completion.                                 *)
_authoritative_completed_result(c) == outputs[call[c].run].cert

ReturnCompleted(c) ==
    /\ call[c].pc = "persist"
    /\ ~Refused(c) /\ runs[call[c].run].status = "completed"
    /\ served' = served \cup {<<call[c].run, _authoritative_completed_result(c)>>}
    /\ call' = [call EXCEPT ![c] = EndedCall]
    /\ UNCHANGED <<client, rls, runs, outputs, audit, reader, pager, compared, clock>>

complete_run(r, h) == runs' = [runs EXCEPT ![r].status = "completed", ![r].hash = h]

(* Everything of the completion, committed together.                       *)
PersistCompletion(c) ==
    LET r == call[c].run
    IN /\ call[c].pc = "persist"
       /\ ~Refused(c) /\ runs[r].status = "initiated"
       /\ outputs[r] = NoOutput
       /\ outputs' = [outputs EXCEPT ![r] = [hash |-> call[c].hash, cert |-> c]]
       /\ append_audit_event(r, "run.completed")
       /\ complete_run(r, call[c].hash)

CompleteRun(c) ==
    /\ PersistCompletion(c)
    /\ served' = served \cup {<<call[c].run, c>>}
    /\ call' = [call EXCEPT ![c] = EndedCall]
    /\ UNCHANGED <<client, rls, reader, pager, compared, clock>>

(* The commit reached the database and its acknowledgement was lost: the   *)
(* caller sees an exception and records a failure.                         *)
CommitUncertain(c) ==
    /\ PersistCompletion(c)
    /\ call' = [call EXCEPT ![c].pc = "record"]
    /\ UNCHANGED <<client, rls, reader, pager, served, compared, clock>>

(* A statement of phase 3 failed: everything it wrote is rolled back.      *)
PersistFails(c) ==
    /\ call[c].pc = "persist"
    /\ ~Refused(c)
    /\ call' = [call EXCEPT ![c].pc = "record"]
    /\ UNCHANGED <<client, rls, runs, outputs, audit, reader, pager, served, compared, clock>>

-----------------------------------------------------------------------------
(* Recording a failure, in a transaction of its own.                       *)

(* Fault: the failure overwrites whatever the run's status is.             *)
FaultFailsCompleted(r) == runs' = [runs EXCEPT ![r].status = "failed"]

fail_run(r) ==
    runs' = [runs EXCEPT ![r].status = IF @ = "completed" THEN @ ELSE "failed"]

_record_failure(c) ==
    LET r == call[c].run
    IN /\ call[c].pc = "record"
       /\ r \in UnitOfWork(runs[r].org)
       /\ fail_run(r)
       /\ IF runs'[r].status = "completed" THEN UNCHANGED audit
          ELSE append_audit_event(r, "run.failed")
       /\ call' = [call EXCEPT ![c] = EndedCall]
       /\ UNCHANGED <<client, rls, outputs, reader, pager, served, compared, clock>>

(* The run is not visible, or the transaction fails: nothing is recorded.  *)
FailureUnrecorded(c) ==
    /\ call[c].pc = "record"
    /\ call' = [call EXCEPT ![c] = EndedCall]
    /\ UNCHANGED <<client, rls, runs, outputs, audit, reader, pager, served, compared, clock>>

(* The process dies in the middle of a call.                               *)
Crash(c) ==
    /\ call[c].pc \in {"engine", "persist", "record"}
    /\ call' = [call EXCEPT ![c] = EndedCall]
    /\ UNCHANGED <<client, rls, runs, outputs, audit, reader, pager, served, compared, clock>>

-----------------------------------------------------------------------------
(* Legal hold and deletion, each in one transaction under the row lock.    *)

(* Where the trail of run r records a change of its hold.                  *)
HoldEvents(r) ==
    {i \in DOMAIN audit[r] : audit[r][i] \in {"run.legal_hold_placed", "run.legal_hold_released"}}

set_run_legal_hold(o, r, v) ==
    /\ require_run_mutation("legal_hold")
    /\ r \in PlainSession(o)
    /\ Cardinality(HoldEvents(r)) < MaxHolds
    /\ runs' = [runs EXCEPT ![r].hold = v]
    /\ append_audit_event(r, IF v THEN "run.legal_hold_placed" ELSE "run.legal_hold_released")
    /\ UNCHANGED <<client, rls, outputs, call, reader, pager, served, compared, clock>>

soft_delete_run(o, r) ==
    /\ require_run_mutation("delete")
    /\ r \in PlainSession(o)
    /\ ~runs[r].hold
    /\ runs' = [runs EXCEPT ![r].deleted = TRUE]
    /\ append_audit_event(r, "run.deleted")
    /\ UNCHANGED <<client, rls, outputs, call, reader, pager, served, compared, clock>>

-----------------------------------------------------------------------------
(* Reading a run's evidence: the run first, then its result, then its      *)
(* certificate, each a statement of its own.                               *)

(* AgentEvidenceSnapshot.load and the routes get the run, found or not.    *)
ReadRun(o, r) ==
    /\ client = "reads" /\ reader.pc = "idle"
    /\ reader' = IF r \in PlainSession(o)
                 THEN [IdleReader EXCEPT !.pc = "result", !.org = o, !.run = r,
                                         !.status = runs[r].status, !.hash = runs[r].hash]
                 ELSE [IdleReader EXCEPT !.pc = "done", !.org = o, !.run = r]
    /\ UNCHANGED <<client, rls, runs, outputs, audit, call, pager, served, compared, clock>>

ReadResult ==
    /\ reader.pc = "result"
    /\ LET out == outputs[reader.run]
       IN reader' = [reader EXCEPT !.pc = "certificate",
                                   !.result = IF out = NoOutput THEN NoHash ELSE out.hash]
    /\ UNCHANGED <<client, rls, runs, outputs, audit, call, pager, served, compared, clock>>

(* Fault: the run's status is taken again when the snapshot is assembled.  *)
FaultStatusReread ==
    /\ reader.pc = "certificate"
    /\ LET out == outputs[reader.run]
           row == runs[reader.run]
       IN reader' = [reader EXCEPT !.pc = "done", !.status = row.status, !.hash = row.hash,
                                   !.cert = IF out = NoOutput THEN NoOutput ELSE out.cert]
    /\ UNCHANGED <<client, rls, runs, outputs, audit, call, pager, served, compared, clock>>

ReadCertificate ==
    /\ reader.pc = "certificate"
    /\ LET out == outputs[reader.run]
       IN /\ reader' = [reader EXCEPT !.pc = "done",
                                      !.cert = IF out = NoOutput THEN NoOutput ELSE out.cert]
          /\ served' = IF out = NoOutput THEN served
                       ELSE served \cup {<<reader.run, out.cert>>}
    /\ UNCHANGED <<client, rls, runs, outputs, audit, call, pager, compared, clock>>

-----------------------------------------------------------------------------
(* Listing runs page by page.                                              *)

(* ORDER BY created_at DESC, id DESC.                                      *)
Before(r, s) ==
    \/ runs[r].created > runs[s].created
    \/ runs[r].created = runs[s].created /\ r > s

(* Fault: the cursor compares the timestamp alone.                         *)
FaultTimestampOnly(cursor) ==
    {r \in DOMAIN runs : cursor = <<>> \/ runs[r].created < cursor[1]}

(* Rows after the cursor <<created_at, id>>; the empty cursor passes all.  *)
AfterCursor(cursor) ==
    IF cursor = <<>> THEN DOMAIN runs
    ELSE {r \in DOMAIN runs : \/ runs[r].created < cursor[1]
                              \/ runs[r].created = cursor[1] /\ r < cursor[2]}

(* ORDER BY and LIMIT: the rows fewer than limit others come before, as a  *)
(* set; the order of its members is Before.                                *)
FirstRows(rows, limit) ==
    {r \in rows : Cardinality({s \in rows : Before(s, r)}) < limit}

LastRow(page) == CHOOSE r \in page : \A s \in page : ~Before(r, s)

(* The page and the cursor of the next one: limit + 1 rows are fetched, so *)
(* a full page is the last one exactly when nothing follows it.            *)
list_runs_cursor(o, cursor) ==
    LET rows == PlainSession(o) \cap AfterCursor(cursor)
        page == FirstRows(rows, PageLimit)
        last == LastRow(page)
    IN [page |-> page,
        next |-> IF Cardinality(rows) > PageLimit THEN <<runs[last].created, last>> ELSE <<>>]

FetchPage(o, p) ==
    LET answer == list_runs_cursor(o, p.cursor)
    IN [p EXCEPT !.org = o, !.seen = Append(@, answer.page), !.cursor = answer.next,
                 !.pc = IF answer.next = <<>> THEN "done" ELSE "more"]

FirstPage(o) ==
    /\ client = "lists" /\ pager.pc = "idle"
    /\ pager' = FetchPage(o, [IdlePager EXCEPT !.start = PlainSession(o)])
    /\ UNCHANGED <<client, rls, runs, outputs, audit, call, reader, served, compared, clock>>

NextPage ==
    /\ pager.pc = "more"
    /\ pager' = FetchPage(pager.org, pager)
    /\ UNCHANGED <<client, rls, runs, outputs, audit, call, reader, served, compared, clock>>

-----------------------------------------------------------------------------
(* Comparing two completed runs of periods that do not overlap.            *)

non_overlapping(b, t) == runs[b].period < runs[t].period \/ runs[t].period < runs[b].period

(* Every figure of the answer is target minus base; the pair of signed     *)
(* report digests stands for all of them.                                  *)
compare_runs(o, b, t) ==
    /\ client = "compares"
    /\ {b, t} \subseteq UnitOfWork(o)
    /\ runs[b].status = "completed" /\ runs[t].status = "completed"
    /\ runs[b].period # NoPeriod /\ runs[t].period # NoPeriod
    /\ non_overlapping(b, t)
    /\ compared' = compared \cup
         {[base |-> b, target |-> t,
           delta |-> {<<outputs[t].hash, 1>>, <<outputs[b].hash, -1>>},
           relationship |-> IF runs[b].period < runs[t].period THEN "subsequent" ELSE "preceding"]}
    /\ UNCHANGED <<client, rls, runs, outputs, audit, call, reader, pager, served, clock>>

Tick ==
    /\ client = "lists" /\ clock < MaxClock   \* only the listing reads the clock's order
    /\ clock' = clock + 1
    /\ UNCHANGED <<client, rls, runs, outputs, audit, call, reader, pager, served, compared>>

-----------------------------------------------------------------------------
Next ==
    \/ \E c \in Calls :
         \/ \E o \in Orgs : InitiateRun(c, o)
         \/ \E r \in DOMAIN runs : ResumeRun(c, r)
         \/ \E h \in Hashes : EngineReports(c, h)
         \/ EngineFails(c)
         \/ RefuseToPersist(c) \/ ReturnCompleted(c)
         \/ CompleteRun(c) \/ CommitUncertain(c) \/ PersistFails(c)
         \/ _record_failure(c) \/ FailureUnrecorded(c) \/ Crash(c)
    \/ \E o \in Orgs :
         \/ \E p \in Periods : SubmitRun(o, p)
         \/ \E r \in DOMAIN runs, v \in BOOLEAN : set_run_legal_hold(o, r, v)
         \/ \E r \in DOMAIN runs : soft_delete_run(o, r)
         \/ \E r \in DOMAIN runs : ReadRun(o, r)
         \/ \E b, t \in DOMAIN runs : compare_runs(o, b, t)
         \/ FirstPage(o)
    \/ ReadResult \/ ReadCertificate \/ NextPage \/ Tick

Spec == Init /\ [][Next]_vars

-----------------------------------------------------------------------------
(* Properties.                                                             *)

Recorded(r, e) == Cardinality({i \in DOMAIN audit[r] : audit[r][i] = e})

(* The audit trail of a run tells its row: it is completed exactly when    *)
(* one completion is recorded, failed exactly when a failure is, held      *)
(* exactly when the last hold event placed it, and deleted exactly when    *)
(* the deletion is the last event of all: an execution that was under way  *)
(* when its run was deleted writes nothing more, and a held run is never   *)
(* deleted (run.py, service.py phase 3 and _record_failure).               *)
AuditTellsState ==
    \A r \in DOMAIN runs :
        /\ runs[r].status = "completed" <=> Recorded(r, "run.completed") = 1
        /\ runs[r].status = "failed" <=> Recorded(r, "run.failed") > 0
        /\ runs[r].deleted <=> Last(audit[r]) = "run.deleted"
        /\ runs[r].hold <=> \E i \in HoldEvents(r) : /\ audit[r][i] = "run.legal_hold_placed"
                                                    /\ \A j \in HoldEvents(r) : j <= i
        /\ ~(runs[r].hold /\ runs[r].deleted)

(* A run is completed exactly when its result, certificate and artifacts   *)
(* are stored, for the report the run names, also when the commit's answer *)
(* was lost and a failure was recorded after it (_record_failure).         *)
CompletionIsWhole ==
    \A r \in DOMAIN runs :
        /\ runs[r].status = "completed" <=> outputs[r] # NoOutput
        /\ runs[r].status = "completed" => outputs[r].hash = runs[r].hash

(* Every caller that is ever handed a certificate of a run is handed the   *)
(* same one, whether it executed the run, retried it or read it later:     *)
(* signing again would give another signature                              *)
(* (_authoritative_completed_result).                                      *)
OneCertificatePerRun == \A s, t \in served : s[1] = t[1] => s = t

(* A reader that found the run completed has its result and certificate,   *)
(* for that report, although each is read by a statement of its own        *)
(* (AgentEvidenceSnapshot.load and the routes read the run first).         *)
SnapshotCoherent ==
    reader.pc = "done" /\ reader.status = "completed" =>
        reader.result = reader.hash /\ reader.cert # NoOutput

(* No organisation reads, lists or compares a run of another, whether the  *)
(* database enforces row-level security or only the repository's filter    *)
(* does (base.py scoped_select).                                           *)
TenantIsolation ==
    /\ reader.status # "" => runs[reader.run].org = reader.org
    /\ \A i \in DOMAIN pager.seen : \A r \in pager.seen[i] : runs[r].org = pager.org
    /\ \A a \in compared : runs[a.base].org = runs[a.target].org

(* A walk over the pages lists no run twice and misses none that was there *)
(* when it began and was not deleted meanwhile, whatever was created and   *)
(* deleted between the pages (list_runs_cursor).                           *)
PagesCoverRuns ==
    /\ \A i, j \in DOMAIN pager.seen : i < j =>
          \A r \in pager.seen[i], s \in pager.seen[j] : Before(r, s)
    /\ pager.pc = "done" =>
         \A r \in pager.start : runs[r].deleted \/ \E i \in DOMAIN pager.seen : r \in pager.seen[i]

(* A request of an organisation for a run of its own that is not deleted   *)
(* finds the run (tenant_routes.py get_run_detail).                        *)
OwnRunFound ==
    reader.pc = "done" /\ reader.status = "" =>
        runs[reader.run].org # reader.org \/ runs[reader.run].deleted
=============================================================================
