-------------------------- MODULE TenantRunsProofs --------------------------
(***************************************************************************)
(* Proofs of the safety properties of TenantRuns, for any number of        *)
(* organisations, runs, calls and pages.                                   *)
(*                                                                         *)
(* What the rows may never do is one lemma, RowsOnlyAdvance: no step       *)
(* changes a run's organisation or its creation time, undoes a deletion,   *)
(* or touches a completed run's report and certificate.  What a reader, a  *)
(* pager or a comparison has seen of the rows therefore stays true while   *)
(* other requests go on, and only its own steps are left to look at.       *)
(***************************************************************************)
EXTENDS TenantRuns, FiniteSetTheorems, WellFoundedInduction, TLAPS

(* An execution that is under way has a run, and its report from the end   *)
(* of phase 2 on.                                                          *)
Executions ==
    \A c \in Calls :
        /\ call[c].pc \in {"engine", "persist", "record"} => call[c].run \in DOMAIN runs
        /\ call[c].pc = "persist" => call[c].hash \in Hashes

(* Rows that were not inserted yet have no output and no audit trail.      *)
Fresh ==
    \A r \in RunIds \ DOMAIN runs : outputs[r] = NoOutput /\ audit[r] = <<>>

(* Every certificate that was given out is the stored one.                 *)
ServedIsStored ==
    \A s \in served : /\ s[1] \in DOMAIN runs
                      /\ outputs[s[1]] # NoOutput
                      /\ s[2] = outputs[s[1]].cert

(* What the reader holds of its run is still true of it.                   *)
ReaderHolds ==
    /\ reader.pc = "idle" => reader.status = ""
    /\ reader.pc \in {"result", "certificate"} => reader.run \in DOMAIN runs
    /\ reader.status # "" => /\ reader.run \in DOMAIN runs
                             /\ runs[reader.run].org = reader.org
    /\ reader.status = "completed" => /\ runs[reader.run].status = "completed"
                                      /\ reader.hash = runs[reader.run].hash
    /\ reader.status = "completed" /\ reader.pc \in {"certificate", "done"} =>
          reader.result = reader.hash
    /\ reader.status = "completed" /\ reader.pc = "done" => reader.cert # NoOutput

(* Compared runs exist, in one organisation.                               *)
ComparedExist ==
    \A a \in compared : /\ a.base \in DOMAIN runs /\ a.target \in DOMAIN runs
                        /\ runs[a.base].org = runs[a.target].org

Listed(r) == \E i \in DOMAIN pager.seen : r \in pager.seen[i]

(* The walk so far: what was listed is the organisation's own and in       *)
(* order, ends at the cursor, and what is still missing of the rows the    *)
(* walk began with lies after the cursor or was deleted.                   *)
Walk ==
    /\ pager.pc = "idle" => pager = IdlePager
    /\ pager.pc = "more" => pager.cursor # <<>>
    /\ \A i \in DOMAIN pager.seen : \A r \in pager.seen[i] :
          r \in DOMAIN runs /\ runs[r].org = pager.org
    /\ \A r \in pager.start :
          r \in DOMAIN runs /\ (runs[r].deleted \/ r \in PlainSession(pager.org))
    /\ pager.cursor # <<>> =>
          /\ pager.cursor[2] \in DOMAIN runs
          /\ pager.cursor[1] = runs[pager.cursor[2]].created
          /\ \A i \in DOMAIN pager.seen : \A r \in pager.seen[i] :
                r = pager.cursor[2] \/ Before(r, pager.cursor[2])
    /\ pager.pc = "more" =>
          \A r \in pager.start :
             runs[r].deleted \/ Listed(r) \/ r \in AfterCursor(pager.cursor)

Positions(q, e) == {i \in DOMAIN q : q[i] = e}

HoldPositions(q) ==
    {i \in DOMAIN q : q[i] \in {"run.legal_hold_placed", "run.legal_hold_released"}}

(* The trail q tells the row, as sets of positions.                        *)
TellsRow(q, row) ==
    /\ q # <<>>
    /\ row.status = "completed" => \E i \in DOMAIN q : Positions(q, "run.completed") = {i}
    /\ row.status # "completed" => Positions(q, "run.completed") = {}
    /\ row.status = "failed" <=> Positions(q, "run.failed") # {}
    /\ row.deleted <=> Last(q) = "run.deleted"
    /\ row.hold <=> \E i \in HoldPositions(q) : /\ q[i] = "run.legal_hold_placed"
                                               /\ \A j \in HoldPositions(q) : j <= i
    /\ ~(row.hold /\ row.deleted)

Trail == \A r \in DOMAIN runs : TellsRow(audit[r], runs[r])

(* The pages are in order.                                                 *)
PagesOrdered ==
    \A i, j \in DOMAIN pager.seen : i < j =>
       \A r \in pager.seen[i], s \in pager.seen[j] : Before(r, s)

PagesCover ==
    pager.pc = "done" => \A r \in pager.start : runs[r].deleted \/ Listed(r)

Inv ==
    /\ TypeOK
    /\ Executions
    /\ Fresh
    /\ CompletionIsWhole
    /\ ServedIsStored
    /\ ReaderHolds
    /\ ComparedExist
    /\ Walk
    /\ PagesOrdered
    /\ PagesCover
    /\ Trail

-----------------------------------------------------------------------------
(* What a step does to the rows.                                           *)

RowsTyped ==
    /\ runs \in Seq(ReconciliationRun) /\ Len(runs) <= MaxRuns
    /\ outputs \in [RunIds -> Output \cup {NoOutput}]
    /\ audit \in [RunIds -> Seq(AuditEvent)]

NewRow(o, p) ==
    [org |-> o, created |-> clock, period |-> p, status |-> "initiated",
     hash |-> NoHash, hold |-> FALSE, deleted |-> FALSE]

(* A run is inserted.                                                      *)
Inserted(o, p) ==
    /\ Len(runs) < MaxRuns
    /\ runs' = Append(runs, NewRow(o, p))
    /\ append_audit_event(Len(runs) + 1, "run.initiated")
    /\ outputs' = outputs

(* The row of run r becomes row, and the trail says so.                    *)
Edited(r, row, event) ==
    /\ r \in DOMAIN runs /\ ~runs[r].deleted
    /\ runs' = [runs EXCEPT ![r] = row]
    /\ append_audit_event(r, event)

Completed(r, h, c) ==
    /\ runs[r].status = "initiated" /\ outputs[r] = NoOutput
    /\ Edited(r, [runs[r] EXCEPT !.status = "completed", !.hash = h], "run.completed")
    /\ outputs' = [outputs EXCEPT ![r] = [hash |-> h, cert |-> c]]

Failed(r) ==
    /\ runs[r].status # "completed"
    /\ Edited(r, [runs[r] EXCEPT !.status = "failed"], "run.failed")
    /\ outputs' = outputs

Held(r, v) ==
    /\ Edited(r, [runs[r] EXCEPT !.hold = v],
              IF v THEN "run.legal_hold_placed" ELSE "run.legal_hold_released")
    /\ outputs' = outputs

Deleted(r) ==
    /\ ~runs[r].hold
    /\ Edited(r, [runs[r] EXCEPT !.deleted = TRUE], "run.deleted")
    /\ outputs' = outputs

RowStep ==
    \/ \E o \in Orgs, p \in Periods \cup {NoPeriod} : Inserted(o, p)
    \/ \E r \in DOMAIN runs :
         \/ \E h \in Hashes, c \in Calls : Completed(r, h, c)
         \/ Failed(r)
         \/ \E v \in BOOLEAN : Held(r, v)
         \/ Deleted(r)

(* The rows only ever advance.                                             *)
RowsAdvance ==
    /\ rls' = rls
    /\ \A r \in DOMAIN runs :
         /\ r \in DOMAIN runs'
         /\ runs'[r].org = runs[r].org /\ runs'[r].created = runs[r].created
         /\ runs[r].deleted => runs'[r].deleted
         /\ runs[r].status = "completed" =>
               runs'[r].status = "completed" /\ runs'[r].hash = runs[r].hash
         /\ outputs[r] # NoOutput => outputs'[r] = outputs[r]

LEMMA RowFacts ==
    ASSUME RowsTyped
    PROVE  /\ DOMAIN runs = 1..Len(runs) /\ Len(runs) \in Nat
           /\ \A r \in DOMAIN runs :
                 /\ r \in RunIds /\ runs[r] \in ReconciliationRun
                 /\ audit[r] \in Seq(AuditEvent)
                 /\ outputs[r] \in Output \cup {NoOutput}
BY TenantRunsAssumption DEF RowsTyped, RunIds

(* Each edit keeps the rows' type and every other row.                     *)
LEMMA EditedRow ==
    ASSUME RowsTyped, NEW r, NEW row \in ReconciliationRun, NEW e \in AuditEvent,
           Edited(r, row, e)
    PROVE  /\ runs' \in Seq(ReconciliationRun) /\ Len(runs') = Len(runs)
           /\ DOMAIN runs' = DOMAIN runs
           /\ runs'[r] = row
           /\ \A s \in DOMAIN runs : s # r => runs'[s] = runs[s]
           /\ audit' \in [RunIds -> Seq(AuditEvent)]
           /\ audit'[r] = Append(audit[r], e)
           /\ \A s \in RunIds : s # r => audit'[s] = audit[s]
<1>1. r \in RunIds /\ r \in DOMAIN runs /\ audit[r] \in Seq(AuditEvent)
    BY RowFacts DEF Edited
<1>2. /\ audit' \in [RunIds -> Seq(AuditEvent)]
      /\ audit'[r] = Append(audit[r], e)
      /\ \A s \in RunIds : s # r => audit'[s] = audit[s]
    BY <1>1 DEF RowsTyped, Edited, append_audit_event
<1>3. /\ runs' \in Seq(ReconciliationRun) /\ Len(runs') = Len(runs)
      /\ DOMAIN runs' = DOMAIN runs
      /\ runs'[r] = row
      /\ \A s \in DOMAIN runs : s # r => runs'[s] = runs[s]
    BY <1>1 DEF RowsTyped, Edited
<1> QED
    BY <1>2, <1>3

LEMMA InsertedRow ==
    ASSUME RowsTyped, NEW o \in Orgs, NEW p \in Periods \cup {NoPeriod}, clock \in 0..MaxClock,
           Inserted(o, p)
    PROVE  /\ NewRow(o, p) \in ReconciliationRun
           /\ runs' \in Seq(ReconciliationRun) /\ Len(runs') = Len(runs) + 1
           /\ DOMAIN runs' = DOMAIN runs \cup {Len(runs) + 1}
           /\ Len(runs) + 1 \in RunIds \ DOMAIN runs
           /\ runs'[Len(runs) + 1] = NewRow(o, p)
           /\ \A s \in DOMAIN runs : runs'[s] = runs[s]
           /\ audit' \in [RunIds -> Seq(AuditEvent)]
           /\ audit'[Len(runs) + 1] = Append(audit[Len(runs) + 1], "run.initiated")
           /\ \A s \in RunIds : s # Len(runs) + 1 => audit'[s] = audit[s]
<1>1. NewRow(o, p) \in ReconciliationRun
    BY DEF NewRow, ReconciliationRun
<1>2. Len(runs) + 1 \in RunIds \ DOMAIN runs
    BY RowFacts, TenantRunsAssumption DEF Inserted, RunIds, RowsTyped
<1>3. /\ audit' \in [RunIds -> Seq(AuditEvent)]
      /\ audit'[Len(runs) + 1] = Append(audit[Len(runs) + 1], "run.initiated")
      /\ \A s \in RunIds : s # Len(runs) + 1 => audit'[s] = audit[s]
    <2>1. "run.initiated" \in AuditEvent
        BY DEF AuditEvent
    <2> QED
        BY <1>2, <2>1 DEF RowsTyped, Inserted, append_audit_event
<1>4. /\ runs' \in Seq(ReconciliationRun) /\ Len(runs') = Len(runs) + 1
      /\ runs'[Len(runs) + 1] = NewRow(o, p)
      /\ \A s \in DOMAIN runs : runs'[s] = runs[s]
      /\ DOMAIN runs' = DOMAIN runs \cup {Len(runs) + 1}
    <2> DEFINE new == NewRow(o, p)
    <2>1. new \in ReconciliationRun /\ runs' = Append(runs, new)
        BY <1>1 DEF Inserted
    <2> HIDE DEF new
    <2>2. /\ runs' \in Seq(ReconciliationRun) /\ Len(runs') = Len(runs) + 1
          /\ runs'[Len(runs) + 1] = new
          /\ \A s \in DOMAIN runs : runs'[s] = runs[s]
          /\ DOMAIN runs' = DOMAIN runs \cup {Len(runs) + 1}
        BY <2>1 DEF RowsTyped
    <2> QED
        BY <2>2 DEF new
<1> QED
    BY <1>1, <1>2, <1>3, <1>4

(* Every step leaves the rows alone or edits them in one of these ways.    *)
LEMMA StepsEditRows ==
    ASSUME RowsTyped, Executions, Next
    PROVE  rls' = rls /\ (RowStep \/ UNCHANGED <<runs, outputs, audit>>)
<1> USE RowFacts
<1>1. ASSUME NEW c \in Calls, NEW o \in Orgs, InitiateRun(c, o)
      PROVE  rls' = rls /\ RowStep
    BY <1>1 DEF InitiateRun, create_run, RowStep, Inserted, NewRow
<1>2. ASSUME NEW o \in Orgs, NEW p \in Periods, SubmitRun(o, p)
      PROVE  rls' = rls /\ RowStep
    BY <1>2 DEF SubmitRun, create_run, RowStep, Inserted, NewRow
<1>3. ASSUME NEW c \in Calls, PersistCompletion(c)
      PROVE  RowStep
    <2> DEFINE r == call[c].run
    <2>1. r \in DOMAIN runs /\ call[c].hash \in Hashes
        BY <1>3 DEF PersistCompletion, Executions
    <2>2. ~runs[r].deleted
        BY <1>3 DEF PersistCompletion, Refused, UnitOfWork, scoped_select
    <2>3. runs' = [runs EXCEPT ![r] = [runs[r] EXCEPT !.status = "completed", !.hash = call[c].hash]]
        BY <1>3, <2>1 DEF PersistCompletion, complete_run, RowsTyped
    <2>4. Completed(r, call[c].hash, c)
        BY <1>3, <2>1, <2>2, <2>3 DEF PersistCompletion, Completed, Edited
    <2> QED
        BY <2>1, <2>4 DEF RowStep
<1>4. ASSUME NEW c \in Calls, _record_failure(c)
      PROVE  rls' = rls /\ (RowStep \/ UNCHANGED <<runs, outputs, audit>>)
    <2> DEFINE r == call[c].run
    <2>1. r \in DOMAIN runs /\ ~runs[r].deleted
        BY <1>4 DEF _record_failure, UnitOfWork, scoped_select
    <2>2. CASE runs[r].status = "completed"
        <3>1. runs' = [runs EXCEPT ![r].status = "completed"]
            BY <1>4, <2>2 DEF _record_failure, fail_run
        <3>2. runs' = runs /\ runs'[r].status = "completed"
            BY <2>1, <2>2, <3>1 DEF ReconciliationRun, RowsTyped
        <3> QED
            BY <1>4, <3>2 DEF _record_failure
    <2>3. CASE runs[r].status # "completed"
        <3>1. runs' = [runs EXCEPT ![r] = [runs[r] EXCEPT !.status = "failed"]]
            BY <1>4, <2>1, <2>3 DEF _record_failure, fail_run
        <3>2. runs'[r].status = "failed"
            BY <2>1, <3>1 DEF ReconciliationRun, RowsTyped
        <3>3. Failed(r)
            BY <1>4, <2>1, <2>3, <3>1, <3>2 DEF _record_failure, Failed, Edited
        <3> QED
            BY <1>4, <2>1, <3>3 DEF _record_failure, RowStep
    <2> QED
        BY <2>2, <2>3
<1>5. ASSUME NEW o \in Orgs, NEW r \in DOMAIN runs, NEW v \in BOOLEAN, set_run_legal_hold(o, r, v)
      PROVE  rls' = rls /\ RowStep
    <2>1. ~runs[r].deleted
        BY <1>5 DEF set_run_legal_hold, PlainSession, scoped_select
    <2>2. Held(r, v)
        BY <1>5, <2>1 DEF set_run_legal_hold, Held, Edited
    <2> QED
        BY <1>5, <2>2 DEF set_run_legal_hold, RowStep
<1>6. ASSUME NEW o \in Orgs, NEW r \in DOMAIN runs, soft_delete_run(o, r)
      PROVE  rls' = rls /\ RowStep
    <2>1. ~runs[r].deleted
        BY <1>6 DEF soft_delete_run, PlainSession, scoped_select
    <2>2. Deleted(r)
        BY <1>6, <2>1 DEF soft_delete_run, Deleted, Edited
    <2> QED
        BY <1>6, <2>2 DEF soft_delete_run, RowStep
<1>7. ASSUME NEW c \in Calls, CompleteRun(c) \/ CommitUncertain(c)
      PROVE  rls' = rls /\ RowStep
    BY <1>3, <1>7 DEF CompleteRun, CommitUncertain
<1>8. ASSUME NEW c \in Calls,
             \/ \E r \in DOMAIN runs : ResumeRun(c, r)
             \/ \E h \in Hashes : EngineReports(c, h)
             \/ EngineFails(c) \/ RefuseToPersist(c) \/ ReturnCompleted(c) \/ PersistFails(c)
             \/ FailureUnrecorded(c) \/ Crash(c)
      PROVE  rls' = rls /\ UNCHANGED <<runs, outputs, audit>>
    BY <1>8 DEF ResumeRun, EngineReports, EngineFails, RefuseToPersist, ReturnCompleted,
                PersistFails, FailureUnrecorded, Crash
<1>9. ASSUME NEW o \in Orgs,
             \/ \E r \in DOMAIN runs : ReadRun(o, r)
             \/ \E b, t \in DOMAIN runs : compare_runs(o, b, t)
             \/ FirstPage(o)
      PROVE  rls' = rls /\ UNCHANGED <<runs, outputs, audit>>
    BY <1>9 DEF ReadRun, compare_runs, FirstPage
<1>10. ASSUME ReadResult \/ ReadCertificate \/ NextPage \/ Tick
       PROVE  rls' = rls /\ UNCHANGED <<runs, outputs, audit>>
    BY <1>10 DEF ReadResult, ReadCertificate, NextPage, Tick
<1> QED
    BY <1>1, <1>2, <1>4, <1>5, <1>6, <1>7, <1>8, <1>9, <1>10 DEF Next

-----------------------------------------------------------------------------
(* What the edits keep.                                                    *)

(* Every edit of a row that exists, spelled out.                           *)
LEMMA RowStepFacts ==
    ASSUME RowsTyped, CompletionIsWhole, Fresh, clock \in 0..MaxClock, RowStep
    PROVE  /\ RowsTyped'
           /\ CompletionIsWhole'
           /\ Fresh'
           /\ rls' = rls => RowsAdvance
<1> USE RowFacts, TenantRunsAssumption
<1>1. CASE \E o \in Orgs, p \in Periods \cup {NoPeriod} : Inserted(o, p)
    <2>1. PICK o \in Orgs, p \in Periods \cup {NoPeriod} : Inserted(o, p)
        BY <1>1
    <2> DEFINE n == Len(runs) + 1
    <2>2. /\ runs' \in Seq(ReconciliationRun) /\ Len(runs') = n
          /\ DOMAIN runs' = DOMAIN runs \cup {n} /\ n \in RunIds \ DOMAIN runs
          /\ runs'[n] = NewRow(o, p)
          /\ \A s \in DOMAIN runs : runs'[s] = runs[s]
          /\ audit' \in [RunIds -> Seq(AuditEvent)]
          /\ \A s \in RunIds : s # n => audit'[s] = audit[s]
        BY <2>1, InsertedRow
    <2>3. outputs' = outputs /\ Len(runs) < MaxRuns
        BY <2>1 DEF Inserted
    <2>4. runs'[n].status = "initiated"
        BY <2>2 DEF NewRow
    <2> HIDE DEF n
    <2>5. RowsTyped'
        BY <2>2, <2>3 DEF RowsTyped, n
    <2>6. CompletionIsWhole'
        BY <2>2, <2>3, <2>4 DEF CompletionIsWhole, Fresh
    <2>7. Fresh'
        BY <2>2, <2>3 DEF Fresh
    <2>8. rls' = rls => RowsAdvance
        BY <2>2, <2>3 DEF RowsAdvance
    <2> QED
        BY <2>5, <2>6, <2>7, <2>8
<1>2. ASSUME NEW r \in DOMAIN runs, NEW row \in ReconciliationRun, NEW e \in AuditEvent,
             Edited(r, row, e), row.org = runs[r].org, row.created = runs[r].created,
             runs[r].deleted => row.deleted,
             \/ outputs' = outputs /\ row.hash = runs[r].hash
                /\ (row.status = "completed" <=> runs[r].status = "completed")
             \/ \E h \in Hashes, c \in Calls :
                   /\ outputs[r] = NoOutput
                   /\ row.status = "completed" /\ row.hash = h
                   /\ outputs' = [outputs EXCEPT ![r] = [hash |-> h, cert |-> c]]
      PROVE  /\ RowsTyped'
             /\ CompletionIsWhole'
             /\ Fresh'
             /\ rls' = rls => RowsAdvance
    <2>1. /\ runs' \in Seq(ReconciliationRun) /\ Len(runs') = Len(runs)
          /\ DOMAIN runs' = DOMAIN runs
          /\ runs'[r] = row
          /\ \A s \in DOMAIN runs : s # r => runs'[s] = runs[s]
          /\ audit' \in [RunIds -> Seq(AuditEvent)]
          /\ \A s \in RunIds : s # r => audit'[s] = audit[s]
        BY <1>2, EditedRow
    <2>2. CASE outputs' = outputs /\ row.hash = runs[r].hash
                /\ (row.status = "completed" <=> runs[r].status = "completed")
        <3>1. RowsTyped'
            BY <2>1, <2>2 DEF RowsTyped
        <3>2. CompletionIsWhole'
            BY <2>1, <2>2 DEF CompletionIsWhole
        <3>3. Fresh'
            BY <2>1, <2>2 DEF Fresh
        <3>4. rls' = rls => RowsAdvance
            BY <1>2, <2>1, <2>2 DEF RowsAdvance
        <3> QED
            BY <3>1, <3>2, <3>3, <3>4
    <2>3. CASE \E h \in Hashes, c \in Calls :
                   /\ outputs[r] = NoOutput
                   /\ row.status = "completed" /\ row.hash = h
                   /\ outputs' = [outputs EXCEPT ![r] = [hash |-> h, cert |-> c]]
        <3>1. PICK h \in Hashes, c \in Calls :
                   /\ outputs[r] = NoOutput
                   /\ row.status = "completed" /\ row.hash = h
                   /\ outputs' = [outputs EXCEPT ![r] = [hash |-> h, cert |-> c]]
            BY <2>3
        <3>2. /\ [hash |-> h, cert |-> c] \in Output
              /\ [hash |-> h, cert |-> c] # NoOutput
              /\ [hash |-> h, cert |-> c].hash = h
            BY DEF Output
        <3> DEFINE out == [hash |-> h, cert |-> c]
        <3>3. /\ outputs' \in [RunIds -> Output \cup {NoOutput}]
              /\ outputs'[r].hash = h /\ outputs'[r] # NoOutput
              /\ \A s \in RunIds : s # r => outputs'[s] = outputs[s]
            <4>1. r \in RunIds /\ outputs' = [outputs EXCEPT ![r] = out] /\ out \in Output
                  /\ out # NoOutput /\ out.hash = h
                BY <3>1, <3>2
            <4> HIDE DEF out
            <4> QED
                BY <4>1 DEF RowsTyped
        <3>4. RowsTyped'
            BY <2>1, <3>3 DEF RowsTyped
        <3>5. CompletionIsWhole'
            BY <2>1, <3>1, <3>3 DEF CompletionIsWhole
        <3>6. Fresh'
            BY <2>1, <3>3 DEF Fresh
        <3>7. rls' = rls => RowsAdvance
            BY <1>2, <2>1, <3>1, <3>3 DEF RowsAdvance, CompletionIsWhole
        <3> QED
            BY <3>4, <3>5, <3>6, <3>7
    <2> QED
        BY <1>2, <2>2, <2>3
<1>3. ASSUME NEW r \in DOMAIN runs, NEW h \in Hashes, NEW c \in Calls, Completed(r, h, c)
      PROVE  /\ RowsTyped' /\ CompletionIsWhole' /\ Fresh' /\ (rls' = rls => RowsAdvance)
    <2> DEFINE row == [runs[r] EXCEPT !.status = "completed", !.hash = h]
    <2>1. runs[r] \in ReconciliationRun
        OBVIOUS
    <2>2. /\ row \in ReconciliationRun /\ row.org = runs[r].org
          /\ row.created = runs[r].created /\ row.deleted = runs[r].deleted
          /\ row.status = "completed" /\ row.hash = h
        BY <2>1 DEF ReconciliationRun
    <2>3. /\ outputs[r] = NoOutput
          /\ Edited(r, row, "run.completed")
          /\ outputs' = [outputs EXCEPT ![r] = [hash |-> h, cert |-> c]]
        BY <1>3 DEF Completed
    <2>4. "run.completed" \in AuditEvent
        BY DEF AuditEvent
    <2> HIDE DEF row
    <2> QED
        BY <1>2, <2>2, <2>3, <2>4
<1>4. ASSUME NEW r \in DOMAIN runs, Failed(r)
      PROVE  /\ RowsTyped' /\ CompletionIsWhole' /\ Fresh' /\ (rls' = rls => RowsAdvance)
    <2> DEFINE row == [runs[r] EXCEPT !.status = "failed"]
    <2>1. runs[r] \in ReconciliationRun
        OBVIOUS
    <2>2. /\ row \in ReconciliationRun /\ row.org = runs[r].org
          /\ row.created = runs[r].created /\ row.deleted = runs[r].deleted
          /\ row.status = "failed" /\ row.hash = runs[r].hash
        BY <2>1 DEF ReconciliationRun
    <2>3. /\ runs[r].status # "completed" /\ outputs' = outputs
          /\ Edited(r, row, "run.failed")
        BY <1>4 DEF Failed
    <2>4. "run.failed" \in AuditEvent
        BY DEF AuditEvent
    <2> HIDE DEF row
    <2> QED
        BY <1>2, <2>2, <2>3, <2>4
<1>5. ASSUME NEW r \in DOMAIN runs, NEW v \in BOOLEAN, Held(r, v)
      PROVE  /\ RowsTyped' /\ CompletionIsWhole' /\ Fresh' /\ (rls' = rls => RowsAdvance)
    <2> DEFINE row == [runs[r] EXCEPT !.hold = v]
               e == IF v THEN "run.legal_hold_placed" ELSE "run.legal_hold_released"
    <2>1. runs[r] \in ReconciliationRun
        OBVIOUS
    <2>2. /\ row \in ReconciliationRun /\ row.org = runs[r].org
          /\ row.created = runs[r].created /\ row.deleted = runs[r].deleted
          /\ row.status = runs[r].status /\ row.hash = runs[r].hash
        BY <2>1 DEF ReconciliationRun
    <2>3. outputs' = outputs /\ Edited(r, row, e)
        BY <1>5 DEF Held
    <2>4. e \in AuditEvent
        BY DEF AuditEvent
    <2> HIDE DEF row, e
    <2> QED
        BY <1>2, <2>2, <2>3, <2>4
<1>6. ASSUME NEW r \in DOMAIN runs, Deleted(r)
      PROVE  /\ RowsTyped' /\ CompletionIsWhole' /\ Fresh' /\ (rls' = rls => RowsAdvance)
    <2> DEFINE row == [runs[r] EXCEPT !.deleted = TRUE]
    <2>1. runs[r] \in ReconciliationRun
        OBVIOUS
    <2>2. /\ row \in ReconciliationRun /\ row.org = runs[r].org
          /\ row.created = runs[r].created /\ row.deleted
          /\ row.status = runs[r].status /\ row.hash = runs[r].hash
        BY <2>1 DEF ReconciliationRun
    <2>3. outputs' = outputs /\ Edited(r, row, "run.deleted")
        BY <1>6 DEF Deleted
    <2>4. "run.deleted" \in AuditEvent
        BY DEF AuditEvent
    <2> HIDE DEF row
    <2> QED
        BY <1>2, <2>2, <2>3, <2>4
<1> QED
    BY <1>1, <1>3, <1>4, <1>5, <1>6 DEF RowStep

(* The rows only advance, whatever the step.                               *)
LEMMA RowsOnlyAdvance ==
    ASSUME RowsTyped, CompletionIsWhole, Fresh, Executions, clock \in 0..MaxClock, Next
    PROVE  /\ RowsTyped'
           /\ CompletionIsWhole'
           /\ Fresh'
           /\ RowsAdvance
<1>1. rls' = rls /\ (RowStep \/ UNCHANGED <<runs, outputs, audit>>)
    BY StepsEditRows
<1>2. CASE RowStep
    BY <1>1, <1>2, RowStepFacts
<1>3. CASE UNCHANGED <<runs, outputs, audit>>
    BY <1>1, <1>3 DEF RowsTyped, CompletionIsWhole, Fresh, RowsAdvance
<1> QED
    BY <1>1, <1>2, <1>3

-----------------------------------------------------------------------------
(* The audit trail.                                                        *)

(* One more event on the trail.                                            *)
LEMMA AppendedEvent ==
    ASSUME NEW q \in Seq(AuditEvent), NEW x \in AuditEvent
    PROVE  LET n == Len(q) + 1 IN
           /\ Append(q, x) # <<>>
           /\ DOMAIN Append(q, x) = DOMAIN q \cup {n} /\ n \notin DOMAIN q
           /\ \A i \in DOMAIN q : i < n /\ i \in Nat
           /\ n \in Nat
           /\ \A i \in DOMAIN q : Append(q, x)[i] = q[i]
           /\ Append(q, x)[n] = x
           /\ Last(Append(q, x)) = x
BY DEF Last

LEMMA AppendedPositions ==
    ASSUME NEW q \in Seq(AuditEvent), NEW x \in AuditEvent, NEW e
    PROVE  /\ x = e => Positions(Append(q, x), e) = Positions(q, e) \cup {Len(q) + 1}
           /\ x # e => Positions(Append(q, x), e) = Positions(q, e)
BY AppendedEvent DEF Positions

(* A trail that tells a row that is not deleted, extended by the event of  *)
(* a change, tells the changed row.                                        *)
LEMMA TrailFollows ==
    ASSUME NEW q \in Seq(AuditEvent), NEW x \in AuditEvent, NEW row, NEW new,
           TellsRow(q, row), ~row.deleted,
           new.deleted <=> x = "run.deleted",
           x = "run.deleted" => ~row.hold,
           x = "run.completed" => row.status = "initiated" /\ new.status = "completed",
           x = "run.failed" => row.status # "completed" /\ new.status = "failed",
           x \notin {"run.completed", "run.failed"} => new.status = row.status,
           x = "run.legal_hold_placed" => new.hold,
           x = "run.legal_hold_released" => ~new.hold,
           x \notin {"run.legal_hold_placed", "run.legal_hold_released"} => (new.hold <=> row.hold)
    PROVE  TellsRow(Append(q, x), new)
<1> DEFINE n == Len(q) + 1
           p == Append(q, x)
<1>1. /\ p # <<>> /\ Last(p) = x
      /\ DOMAIN p = DOMAIN q \cup {n} /\ n \notin DOMAIN q
      /\ \A i \in DOMAIN q : i < n /\ i \in Nat
      /\ n \in Nat
      /\ \A i \in DOMAIN q : p[i] = q[i]
      /\ p[n] = x
    BY AppendedEvent
<1>2. \A e : /\ x = e => Positions(p, e) = Positions(q, e) \cup {n}
             /\ x # e => Positions(p, e) = Positions(q, e)
    BY AppendedPositions
<1>3. /\ x \in {"run.legal_hold_placed", "run.legal_hold_released"} =>
            HoldPositions(p) = HoldPositions(q) \cup {n}
      /\ x \notin {"run.legal_hold_placed", "run.legal_hold_released"} =>
            HoldPositions(p) = HoldPositions(q)
    BY <1>1 DEF HoldPositions
<1>4. HoldPositions(q) \subseteq DOMAIN q
    BY DEF HoldPositions
<1> HIDE DEF p, n
<1>5. new.status = "completed" => \E i \in DOMAIN p : Positions(p, "run.completed") = {i}
    <2>1. CASE x = "run.completed"
        <3>1. Positions(q, "run.completed") = {}
            BY <2>1 DEF TellsRow
        <3>2. Positions(p, "run.completed") = {n}
            BY <1>2, <2>1, <3>1
        <3> QED
            BY <1>1, <3>2
    <2>2. CASE x # "run.completed"
        <3>1. Positions(p, "run.completed") = Positions(q, "run.completed")
            BY <1>2, <2>2
        <3>2. ASSUME new.status = "completed" PROVE row.status = "completed"
            BY <2>2, <3>2
        <3> QED
            BY <1>1, <3>1, <3>2 DEF TellsRow
    <2> QED
        BY <2>1, <2>2
<1>6. new.status # "completed" => Positions(p, "run.completed") = {}
    <2>1. ASSUME new.status # "completed" PROVE x # "run.completed" /\ row.status # "completed"
        BY <2>1
    <2> QED
        BY <1>2, <2>1 DEF TellsRow
<1>7. new.status = "failed" <=> Positions(p, "run.failed") # {}
    <2>1. CASE x = "run.failed"
        BY <1>2, <2>1
    <2>2. CASE x = "run.completed"
        <3>1. Positions(p, "run.failed") = Positions(q, "run.failed")
            BY <1>2, <2>2
        <3> QED
            BY <2>2, <3>1 DEF TellsRow
    <2>3. CASE x \notin {"run.failed", "run.completed"}
        <3>1. Positions(p, "run.failed") = Positions(q, "run.failed")
            BY <1>2, <2>3
        <3> QED
            BY <2>3, <3>1 DEF TellsRow
    <2> QED
        BY <2>1, <2>2, <2>3
<1>8. new.hold <=> \E i \in HoldPositions(p) : /\ p[i] = "run.legal_hold_placed"
                                             /\ \A j \in HoldPositions(p) : j <= i
    <2>1. CASE x = "run.legal_hold_placed"
        <3>1. n \in HoldPositions(p) /\ \A j \in HoldPositions(p) : j <= n
            BY <1>1, <1>3, <1>4, <2>1
        <3> QED
            BY <1>1, <2>1, <3>1
    <2>2. CASE x = "run.legal_hold_released"
        <3>1. n \in HoldPositions(p) /\ p[n] # "run.legal_hold_placed"
            BY <1>1, <1>3, <2>2
        <3>2. \A i \in HoldPositions(p) : i # n => ~(n <= i)
            BY <1>1, <1>3, <1>4, <2>2
        <3> QED
            BY <2>2, <3>1, <3>2
    <2>3. CASE x \notin {"run.legal_hold_placed", "run.legal_hold_released"}
        <3>1. HoldPositions(p) = HoldPositions(q) /\ \A i \in HoldPositions(q) : p[i] = q[i]
            BY <1>1, <1>3, <1>4, <2>3
        <3>2. new.hold <=> row.hold
            BY <2>3
        <3> QED
            BY <3>1, <3>2 DEF TellsRow
    <2> QED
        BY <2>1, <2>2, <2>3
<1>9. ~(new.hold /\ new.deleted)
    OBVIOUS
<1>10. new.deleted <=> Last(p) = "run.deleted"
    BY <1>1
<1>11. TellsRow(p, new)
    BY <1>1, <1>5, <1>6, <1>7, <1>8, <1>9, <1>10 DEF TellsRow
<1> QED
    BY <1>11 DEF p

LEMMA RowStepsKeepTrail ==
    ASSUME RowsTyped, Fresh, Trail, clock \in 0..MaxClock, RowStep
    PROVE  Trail'
<1> USE RowFacts
<1>1. CASE \E o \in Orgs, p \in Periods \cup {NoPeriod} : Inserted(o, p)
    <2>1. PICK o \in Orgs, p \in Periods \cup {NoPeriod} : Inserted(o, p)
        BY <1>1
    <2> DEFINE n == Len(runs) + 1
               q == <<"run.initiated">>
    <2>2. /\ DOMAIN runs' = DOMAIN runs \cup {n} /\ n \in RunIds \ DOMAIN runs
          /\ runs'[n] = NewRow(o, p)
          /\ \A s \in DOMAIN runs : runs'[s] = runs[s]
          /\ audit'[n] = Append(audit[n], "run.initiated")
          /\ \A s \in RunIds : s # n => audit'[s] = audit[s]
        BY <2>1, InsertedRow
    <2>3. audit'[n] = q
        <3>1. audit[n] = <<>>
            BY <2>2 DEF Fresh
        <3>2. Append(<<>>, "run.initiated") = q
            OBVIOUS
        <3> QED
            BY <2>2, <3>1, <3>2
    <2>4. /\ q # <<>> /\ Last(q) = "run.initiated" /\ DOMAIN q = {1} /\ q[1] = "run.initiated"
        BY DEF Last
    <2>5. /\ Positions(q, "run.completed") = {} /\ Positions(q, "run.failed") = {}
          /\ HoldPositions(q) = {}
        BY <2>4 DEF Positions, HoldPositions
    <2>6. /\ runs'[n].status = "initiated" /\ ~runs'[n].hold /\ ~runs'[n].deleted
        BY <2>2 DEF NewRow
    <2> HIDE DEF n, q
    <2>7. TellsRow(q, runs'[n])
        BY <2>4, <2>5, <2>6 DEF TellsRow
    <2> QED
        BY <2>2, <2>3, <2>7 DEF Trail
<1>2. ASSUME NEW r \in DOMAIN runs, NEW row \in ReconciliationRun, NEW e \in AuditEvent,
             Edited(r, row, e), TellsRow(Append(audit[r], e), row)
      PROVE  Trail'
    <2>1. /\ DOMAIN runs' = DOMAIN runs
          /\ runs'[r] = row
          /\ \A s \in DOMAIN runs : s # r => runs'[s] = runs[s]
          /\ audit'[r] = Append(audit[r], e)
          /\ \A s \in RunIds : s # r => audit'[s] = audit[s]
        BY <1>2, EditedRow
    <2> QED
        BY <1>2, <2>1 DEF Trail
<1>3. ASSUME NEW r \in DOMAIN runs, NEW h \in Hashes, NEW c \in Calls, Completed(r, h, c)
      PROVE  Trail'
    <2> DEFINE row == [runs[r] EXCEPT !.status = "completed", !.hash = h]
    <2>1. runs[r] \in ReconciliationRun /\ audit[r] \in Seq(AuditEvent)
        OBVIOUS
    <2>2. /\ row \in ReconciliationRun /\ row.deleted = runs[r].deleted
          /\ row.status = "completed" /\ row.hold = runs[r].hold
        BY <2>1 DEF ReconciliationRun
    <2>3. Edited(r, row, "run.completed") /\ runs[r].status = "initiated" /\ ~runs[r].deleted
        BY <1>3 DEF Completed, Edited
    <2>4. "run.completed" \in AuditEvent
        BY DEF AuditEvent
    <2>5. TellsRow(audit[r], runs[r])
        BY DEF Trail
    <2> HIDE DEF row
    <2>6. TellsRow(Append(audit[r], "run.completed"), row)
        BY <2>1, <2>2, <2>3, <2>4, <2>5, TrailFollows
    <2> QED
        BY <1>2, <2>2, <2>3, <2>4, <2>6
<1>4. ASSUME NEW r \in DOMAIN runs, Failed(r)
      PROVE  Trail'
    <2> DEFINE row == [runs[r] EXCEPT !.status = "failed"]
    <2>1. runs[r] \in ReconciliationRun /\ audit[r] \in Seq(AuditEvent)
        OBVIOUS
    <2>2. /\ row \in ReconciliationRun /\ row.deleted = runs[r].deleted
          /\ row.status = "failed" /\ row.hold = runs[r].hold
        BY <2>1 DEF ReconciliationRun
    <2>3. Edited(r, row, "run.failed") /\ runs[r].status # "completed" /\ ~runs[r].deleted
        BY <1>4 DEF Failed, Edited
    <2>4. "run.failed" \in AuditEvent
        BY DEF AuditEvent
    <2>5. TellsRow(audit[r], runs[r])
        BY DEF Trail
    <2> HIDE DEF row
    <2>6. TellsRow(Append(audit[r], "run.failed"), row)
        BY <2>1, <2>2, <2>3, <2>4, <2>5, TrailFollows
    <2> QED
        BY <1>2, <2>2, <2>3, <2>4, <2>6
<1>5. ASSUME NEW r \in DOMAIN runs, NEW v \in BOOLEAN, Held(r, v)
      PROVE  Trail'
    <2> DEFINE row == [runs[r] EXCEPT !.hold = v]
               e == IF v THEN "run.legal_hold_placed" ELSE "run.legal_hold_released"
    <2>1. runs[r] \in ReconciliationRun /\ audit[r] \in Seq(AuditEvent)
        OBVIOUS
    <2>2. /\ row \in ReconciliationRun /\ row.deleted = runs[r].deleted
          /\ row.status = runs[r].status /\ row.hold = v
        BY <2>1 DEF ReconciliationRun
    <2>3. Edited(r, row, e) /\ ~runs[r].deleted
        BY <1>5 DEF Held, Edited
    <2>4. /\ e \in AuditEvent /\ e \in {"run.legal_hold_placed", "run.legal_hold_released"}
          /\ e = "run.legal_hold_placed" => v
          /\ e = "run.legal_hold_released" => ~v
        BY DEF AuditEvent
    <2>5. TellsRow(audit[r], runs[r])
        BY DEF Trail
    <2> HIDE DEF row, e
    <2>6. TellsRow(Append(audit[r], e), row)
        BY <2>1, <2>2, <2>3, <2>4, <2>5, TrailFollows
    <2> QED
        BY <1>2, <2>2, <2>3, <2>4, <2>6
<1>6. ASSUME NEW r \in DOMAIN runs, Deleted(r)
      PROVE  Trail'
    <2> DEFINE row == [runs[r] EXCEPT !.deleted = TRUE]
    <2>1. runs[r] \in ReconciliationRun /\ audit[r] \in Seq(AuditEvent)
        OBVIOUS
    <2>2. /\ row \in ReconciliationRun /\ row.deleted
          /\ row.status = runs[r].status /\ row.hold = runs[r].hold
        BY <2>1 DEF ReconciliationRun
    <2>3. Edited(r, row, "run.deleted") /\ ~runs[r].deleted /\ ~runs[r].hold
        BY <1>6 DEF Deleted, Edited
    <2>4. "run.deleted" \in AuditEvent
        BY DEF AuditEvent
    <2>5. TellsRow(audit[r], runs[r])
        BY DEF Trail
    <2> HIDE DEF row
    <2>6. TellsRow(Append(audit[r], "run.deleted"), row)
        BY <2>1, <2>2, <2>3, <2>4, <2>5, TrailFollows
    <2> QED
        BY <1>2, <2>2, <2>3, <2>4, <2>6
<1> QED
    BY <1>1, <1>3, <1>4, <1>5, <1>6 DEF RowStep

-----------------------------------------------------------------------------
(* Executions, readers and comparisons.                                    *)

CallTyped ==
    call \in [Calls -> [pc : {"idle", "engine", "persist", "record", "done"},
                        run : {0} \cup RunIds, hash : Hashes \cup {NoHash}]]

ReaderTyped ==
    reader \in [pc : {"idle", "result", "certificate", "done"}, org : Orgs \cup {NoTenant},
                run : {0} \cup RunIds, status : {"", "initiated", "completed", "failed"},
                hash : Hashes \cup {NoHash}, result : Hashes \cup {NoHash},
                cert : Calls \cup {NoOutput}]

ComparedTyped ==
    compared \subseteq [base : RunIds, target : RunIds, delta : SUBSET (Hashes \X {1, -1}),
                        relationship : {"subsequent", "preceding"}]

(* An edit of one call.                                                    *)
LEMMA EditedCall ==
    ASSUME CallTyped, Executions, RowsAdvance, RowsTyped, NEW c \in Calls,
           NEW new \in [pc : {"idle", "engine", "persist", "record", "done"},
                        run : {0} \cup RunIds, hash : Hashes \cup {NoHash}],
           call' = [call EXCEPT ![c] = new],
           new.pc \in {"engine", "persist", "record"} => new.run \in DOMAIN runs',
           new.pc = "persist" => new.hash \in Hashes
    PROVE  CallTyped' /\ Executions'
<1>1. CallTyped' /\ call'[c] = new /\ \A d \in Calls : d # c => call'[d] = call[d]
    BY DEF CallTyped
<1>2. \A r \in DOMAIN runs : r \in DOMAIN runs'
    BY DEF RowsAdvance
<1> QED
    BY <1>1, <1>2 DEF Executions

LEMMA StepsKeepExecutions ==
    ASSUME CallTyped, Executions, RowsAdvance, RowsTyped, RowsTyped', Next
    PROVE  CallTyped' /\ Executions'
<1> DEFINE Call == [pc : {"idle", "engine", "persist", "record", "done"},
                    run : {0} \cup RunIds, hash : Hashes \cup {NoHash}]
<1>1. \A r \in DOMAIN runs : r \in DOMAIN runs'
    BY DEF RowsAdvance
<1>2. EndedCall \in Call /\ EndedCall.pc = "done"
    BY DEF EndedCall
<1>3. ASSUME NEW c \in Calls, call' = [call EXCEPT ![c] = EndedCall]
      PROVE  CallTyped' /\ Executions'
    BY <1>2, <1>3, EditedCall
<1>4. ASSUME NEW c \in Calls, NEW o \in Orgs, InitiateRun(c, o)
      PROVE  CallTyped' /\ Executions'
    <2> DEFINE n == Len(runs) + 1
               new == [call[c] EXCEPT !.pc = "engine", !.run = n]
    <2>1. n \in RunIds /\ n \in DOMAIN runs'
        BY <1>4, RowFacts, TenantRunsAssumption DEF InitiateRun, create_run, RowsTyped, RunIds
    <2>2. call[c] \in Call
        BY DEF CallTyped
    <2>3. new \in Call /\ new.pc = "engine" /\ new.run = n
        BY <2>1, <2>2
    <2>4. call' = [call EXCEPT ![c] = new]
        BY <1>4, <2>2 DEF InitiateRun, CallTyped
    <2> HIDE DEF new
    <2> QED
        BY <2>1, <2>3, <2>4, EditedCall
<1>5. ASSUME NEW c \in Calls, NEW r \in DOMAIN runs, ResumeRun(c, r)
      PROVE  CallTyped' /\ Executions'
    <2> DEFINE new == [call[c] EXCEPT !.pc = "engine", !.run = r]
    <2>1. r \in RunIds
        BY RowFacts
    <2>2. call[c] \in Call
        BY DEF CallTyped
    <2>3. new \in Call /\ new.pc = "engine" /\ new.run = r
        BY <2>1, <2>2
    <2>4. call' = [call EXCEPT ![c] = new]
        BY <1>5, <2>2 DEF ResumeRun, CallTyped
    <2> HIDE DEF new
    <2> QED
        BY <1>1, <2>3, <2>4, EditedCall
<1>6. ASSUME NEW c \in Calls, NEW h \in Hashes, EngineReports(c, h)
      PROVE  CallTyped' /\ Executions'
    <2> DEFINE new == [call[c] EXCEPT !.pc = "persist", !.hash = h]
    <2>1. call[c] \in Call /\ call[c].run \in DOMAIN runs
        BY <1>6 DEF CallTyped, Executions, EngineReports
    <2>2. new \in Call /\ new.pc = "persist" /\ new.run = call[c].run /\ new.hash = h
        BY <2>1
    <2>3. call' = [call EXCEPT ![c] = new]
        BY <1>6, <2>1 DEF EngineReports, CallTyped
    <2> HIDE DEF new
    <2> QED
        BY <1>1, <2>1, <2>2, <2>3, EditedCall
<1>7. ASSUME NEW c \in Calls, EngineFails(c) \/ CommitUncertain(c) \/ PersistFails(c)
      PROVE  CallTyped' /\ Executions'
    <2> DEFINE new == [call[c] EXCEPT !.pc = "record"]
    <2>1. call[c] \in Call /\ call[c].run \in DOMAIN runs
        BY <1>7 DEF CallTyped, Executions, EngineFails, CommitUncertain, PersistCompletion, PersistFails
    <2>2. new \in Call /\ new.pc = "record" /\ new.run = call[c].run
        BY <2>1
    <2>3. call' = [call EXCEPT ![c] = new]
        BY <1>7, <2>1 DEF EngineFails, CommitUncertain, PersistFails, CallTyped
    <2> HIDE DEF new
    <2> QED
        BY <1>1, <2>1, <2>2, <2>3, EditedCall
<1>8. ASSUME NEW c \in Calls,
             \/ RefuseToPersist(c) \/ ReturnCompleted(c) \/ CompleteRun(c) \/ _record_failure(c)
             \/ FailureUnrecorded(c) \/ Crash(c)
      PROVE  CallTyped' /\ Executions'
    BY <1>3, <1>8 DEF RefuseToPersist, ReturnCompleted, CompleteRun, _record_failure,
                      FailureUnrecorded, Crash
<1>9. ASSUME call' = call
      PROVE  CallTyped' /\ Executions'
    BY <1>1, <1>9 DEF CallTyped, Executions
<1>10. ASSUME NEW o \in Orgs,
              \/ \E p \in Periods : SubmitRun(o, p)
              \/ \E r \in DOMAIN runs, v \in BOOLEAN : set_run_legal_hold(o, r, v)
              \/ \E r \in DOMAIN runs : soft_delete_run(o, r)
              \/ \E r \in DOMAIN runs : ReadRun(o, r)
              \/ \E b, t \in DOMAIN runs : compare_runs(o, b, t)
              \/ FirstPage(o)
       PROVE  call' = call
    BY <1>10 DEF SubmitRun, set_run_legal_hold, soft_delete_run, ReadRun, compare_runs, FirstPage
<1>11. ASSUME ReadResult \/ ReadCertificate \/ NextPage \/ Tick
       PROVE  call' = call
    BY <1>11 DEF ReadResult, ReadCertificate, NextPage, Tick
<1> QED
    BY <1>4, <1>5, <1>6, <1>7, <1>8, <1>9, <1>10, <1>11 DEF Next

(* A stored certificate stays the stored one.                              *)
LEMMA StepsKeepServed ==
    ASSUME RowsTyped, CallTyped, ReaderTyped, Executions, CompletionIsWhole, ServedIsStored,
           ReaderHolds, RowsAdvance, served \subseteq RunIds \X Calls, Next
    PROVE  ServedIsStored' /\ (served \subseteq RunIds \X Calls)'
<1>1. ASSUME NEW r \in DOMAIN runs, NEW c \in Calls,
             served' = served \cup {<<r, c>>}, outputs'[r] # NoOutput, outputs'[r].cert = c
      PROVE  ServedIsStored' /\ (served \subseteq RunIds \X Calls)'
    BY <1>1, RowFacts DEF ServedIsStored, RowsAdvance
<1>2. ASSUME served' = served
      PROVE  ServedIsStored' /\ (served \subseteq RunIds \X Calls)'
    BY <1>2 DEF ServedIsStored, RowsAdvance
<1>3. ASSUME NEW c \in Calls, ReturnCompleted(c)
      PROVE  ServedIsStored' /\ (served \subseteq RunIds \X Calls)'
    <2> DEFINE r == call[c].run
               d == outputs[r].cert
    <2>1. r \in DOMAIN runs /\ runs[r].status = "completed" /\ outputs' = outputs
          /\ served' = served \cup {<<r, d>>}
        BY <1>3 DEF ReturnCompleted, Executions, _authoritative_completed_result
    <2>2. outputs[r] # NoOutput /\ outputs[r] \in Output
        BY <2>1, RowFacts DEF CompletionIsWhole
    <2>3. d \in Calls
        BY <2>2 DEF Output
    <2> QED
        BY <1>1, <2>1, <2>2, <2>3
<1>4. ASSUME NEW c \in Calls, CompleteRun(c)
      PROVE  ServedIsStored' /\ (served \subseteq RunIds \X Calls)'
    <2> DEFINE r == call[c].run
               out == [hash |-> call[c].hash, cert |-> c]
    <2>1. /\ r \in DOMAIN runs /\ served' = served \cup {<<r, c>>} /\ call[c].hash \in Hashes
          /\ outputs' = [outputs EXCEPT ![r] = out]
        BY <1>4 DEF CompleteRun, PersistCompletion, Executions
    <2>2. out \in Output /\ out # NoOutput /\ out.cert = c
        BY <2>1, TenantRunsAssumption DEF Output
    <2> HIDE DEF out
    <2>3. outputs'[r] = out
        BY <2>1, RowFacts DEF RowsTyped
    <2> QED
        BY <1>1, <2>1, <2>2, <2>3
<1>5. ASSUME ReadCertificate
      PROVE  ServedIsStored' /\ (served \subseteq RunIds \X Calls)'
    <2> DEFINE r == reader.run
    <2>1. r \in DOMAIN runs /\ outputs' = outputs
        BY <1>5 DEF ReadCertificate, ReaderHolds
    <2>2. CASE outputs[r] = NoOutput
        BY <1>2, <1>5, <2>2 DEF ReadCertificate
    <2>3. CASE outputs[r] # NoOutput
        <3>1. outputs[r] \in Output
            BY <2>1, <2>3, RowFacts
        <3>2. outputs[r].cert \in Calls
            BY <3>1 DEF Output
        <3>3. served' = served \cup {<<r, outputs[r].cert>>}
            BY <1>5, <2>3 DEF ReadCertificate
        <3> QED
            BY <1>1, <2>1, <2>3, <3>2, <3>3
    <2> QED
        BY <2>2, <2>3
<1>6. ASSUME NEW c \in Calls,
             \/ \E o \in Orgs : InitiateRun(c, o)
             \/ \E r \in DOMAIN runs : ResumeRun(c, r)
             \/ \E h \in Hashes : EngineReports(c, h)
             \/ EngineFails(c) \/ RefuseToPersist(c) \/ CommitUncertain(c) \/ PersistFails(c)
             \/ _record_failure(c) \/ FailureUnrecorded(c) \/ Crash(c)
      PROVE  served' = served
    BY <1>6 DEF InitiateRun, ResumeRun, EngineReports, EngineFails, RefuseToPersist,
                CommitUncertain, PersistFails, _record_failure, FailureUnrecorded, Crash
<1>7. ASSUME NEW o \in Orgs,
              \/ \E p \in Periods : SubmitRun(o, p)
              \/ \E r \in DOMAIN runs, v \in BOOLEAN : set_run_legal_hold(o, r, v)
              \/ \E r \in DOMAIN runs : soft_delete_run(o, r)
              \/ \E r \in DOMAIN runs : ReadRun(o, r)
              \/ \E b, t \in DOMAIN runs : compare_runs(o, b, t)
              \/ FirstPage(o)
      PROVE  served' = served
    BY <1>7 DEF SubmitRun, set_run_legal_hold, soft_delete_run, ReadRun, compare_runs, FirstPage
<1>8. ASSUME ReadResult \/ NextPage \/ Tick
      PROVE  served' = served
    BY <1>8 DEF ReadResult, NextPage, Tick
<1> QED
    BY <1>2, <1>3, <1>4, <1>5, <1>6, <1>7, <1>8 DEF Next

(* The actions by which the reader moves are its own.                      *)
LEMMA OthersLeaveReader ==
    ASSUME Next,
           ~(\E o \in Orgs, r \in DOMAIN runs : ReadRun(o, r)), ~ReadResult, ~ReadCertificate
    PROVE  reader' = reader
<1>1. ASSUME NEW c \in Calls,
             \/ \E o \in Orgs : InitiateRun(c, o)
             \/ \E r \in DOMAIN runs : ResumeRun(c, r)
             \/ \E h \in Hashes : EngineReports(c, h)
             \/ EngineFails(c) \/ RefuseToPersist(c) \/ ReturnCompleted(c) \/ CompleteRun(c)
             \/ CommitUncertain(c) \/ PersistFails(c) \/ _record_failure(c)
             \/ FailureUnrecorded(c) \/ Crash(c)
      PROVE  reader' = reader
    BY <1>1 DEF InitiateRun, ResumeRun, EngineReports, EngineFails, RefuseToPersist,
                ReturnCompleted, CompleteRun, CommitUncertain, PersistFails, _record_failure,
                FailureUnrecorded, Crash
<1>2. ASSUME NEW o \in Orgs,
              \/ \E p \in Periods : SubmitRun(o, p)
              \/ \E r \in DOMAIN runs, v \in BOOLEAN : set_run_legal_hold(o, r, v)
              \/ \E r \in DOMAIN runs : soft_delete_run(o, r)
              \/ \E b, t \in DOMAIN runs : compare_runs(o, b, t)
              \/ FirstPage(o)
      PROVE  reader' = reader
    BY <1>2 DEF SubmitRun, set_run_legal_hold, soft_delete_run, compare_runs, FirstPage
<1>3. ASSUME NextPage \/ Tick
      PROVE  reader' = reader
    BY <1>3 DEF NextPage, Tick
<1> QED
    BY <1>1, <1>2, <1>3 DEF Next

LEMMA StepsKeepReader ==
    ASSUME RowsTyped, ReaderTyped, CompletionIsWhole, ReaderHolds, RowsAdvance, Next
    PROVE  ReaderTyped' /\ ReaderHolds'
<1> DEFINE Reader == [pc : {"idle", "result", "certificate", "done"}, org : Orgs \cup {NoTenant},
                      run : {0} \cup RunIds, status : {"", "initiated", "completed", "failed"},
                      hash : Hashes \cup {NoHash}, result : Hashes \cup {NoHash},
                      cert : Calls \cup {NoOutput}]
<1>1. reader \in Reader
    BY DEF ReaderTyped
<1>2. ASSUME NEW o \in Orgs, NEW r \in DOMAIN runs, ReadRun(o, r)
      PROVE  ReaderTyped' /\ ReaderHolds'
    <2>1. runs' = runs /\ outputs' = outputs /\ r \in RunIds /\ runs[r] \in ReconciliationRun
        BY <1>2, RowFacts DEF ReadRun
    <2>2. CASE r \in PlainSession(o)
        <3>1. runs[r].org = o
            BY <2>2 DEF PlainSession, scoped_select
        <3>2. reader' = [pc |-> "result", org |-> o, run |-> r, status |-> runs[r].status,
                         hash |-> runs[r].hash, result |-> NoHash, cert |-> NoOutput]
            BY <1>2, <2>2 DEF ReadRun, IdleReader
        <3>3. runs[r].status \in {"initiated", "completed", "failed"}
              /\ runs[r].hash \in Hashes \cup {NoHash}
            BY <2>1 DEF ReconciliationRun
        <3>4. /\ reader'.pc = "result" /\ reader'.org = o /\ reader'.run = r
              /\ reader'.status = runs[r].status /\ reader'.hash = runs[r].hash
              /\ reader' \in Reader
            BY <2>1, <3>2, <3>3
        <3> QED
            BY <2>1, <3>1, <3>3, <3>4 DEF ReaderTyped, ReaderHolds
    <2>3. CASE r \notin PlainSession(o)
        <3>1. reader' = [pc |-> "done", org |-> o, run |-> r, status |-> "",
                         hash |-> NoHash, result |-> NoHash, cert |-> NoOutput]
            BY <1>2, <2>3 DEF ReadRun, IdleReader
        <3>2. reader'.pc = "done" /\ reader'.status = "" /\ reader' \in Reader
            BY <2>1, <3>1
        <3> QED
            BY <3>2 DEF ReaderTyped, ReaderHolds
    <2> QED
        BY <2>2, <2>3
<1>3. ASSUME ReadResult
      PROVE  ReaderTyped' /\ ReaderHolds'
    <2> DEFINE r == reader.run
               h == IF outputs[r] = NoOutput THEN NoHash ELSE outputs[r].hash
    <2>1. /\ reader.pc = "result" /\ runs' = runs /\ outputs' = outputs
          /\ reader' = [reader EXCEPT !.pc = "certificate", !.result = h]
        BY <1>3 DEF ReadResult
    <2>2. r \in DOMAIN runs
        BY <2>1 DEF ReaderHolds
    <2>3. h \in Hashes \cup {NoHash}
        BY <2>2, RowFacts DEF Output
    <2>4. reader.status = "completed" => h = reader.hash
        BY <2>2 DEF ReaderHolds, CompletionIsWhole
    <2> HIDE DEF h
    <2>5. /\ reader' \in Reader /\ reader'.pc = "certificate" /\ reader'.result = h
          /\ reader'.org = reader.org /\ reader'.run = r
          /\ reader'.status = reader.status /\ reader'.hash = reader.hash
        BY <1>1, <2>1, <2>3
    <2> QED
        BY <2>1, <2>2, <2>4, <2>5 DEF ReaderTyped, ReaderHolds
<1>4. ASSUME ReadCertificate
      PROVE  ReaderTyped' /\ ReaderHolds'
    <2> DEFINE r == reader.run
               d == IF outputs[r] = NoOutput THEN NoOutput ELSE outputs[r].cert
    <2>1. /\ reader.pc = "certificate" /\ runs' = runs /\ outputs' = outputs
          /\ reader' = [reader EXCEPT !.pc = "done", !.cert = d]
        BY <1>4 DEF ReadCertificate
    <2>2. r \in DOMAIN runs
        BY <2>1 DEF ReaderHolds
    <2>3. d \in Calls \cup {NoOutput}
        BY <2>2, RowFacts DEF Output
    <2>4. reader.status = "completed" => d # NoOutput
        <3>1. ASSUME reader.status = "completed" PROVE d \in Calls
            <4>1. outputs[r] # NoOutput
                BY <2>2, <3>1 DEF ReaderHolds, CompletionIsWhole
            <4>2. outputs[r] \in Output
                BY <2>2, <4>1, RowFacts
            <4> QED
                BY <4>1, <4>2 DEF Output
        <3> QED
            BY <3>1, TenantRunsAssumption
    <2> HIDE DEF d
    <2>5. /\ reader' \in Reader /\ reader'.pc = "done" /\ reader'.cert = d
          /\ reader'.org = reader.org /\ reader'.run = r /\ reader'.result = reader.result
          /\ reader'.status = reader.status /\ reader'.hash = reader.hash
        BY <1>1, <2>1, <2>3
    <2> QED
        BY <2>1, <2>2, <2>4, <2>5 DEF ReaderTyped, ReaderHolds
<1>5. ASSUME reader' = reader
      PROVE  ReaderTyped' /\ ReaderHolds'
    <2>1. reader.status # "" => reader.run \in DOMAIN runs
        BY DEF ReaderHolds
    <2>2. reader.status = "completed" => reader.status # ""
        OBVIOUS
    <2> QED
        BY <1>5, <2>1, <2>2 DEF ReaderTyped, ReaderHolds, RowsAdvance
<1> QED
    BY <1>2, <1>3, <1>4, <1>5, OthersLeaveReader

LEMMA StepsKeepCompared ==
    ASSUME RowsTyped, CompletionIsWhole, ComparedTyped, ComparedExist, RowsAdvance, Next
    PROVE  ComparedTyped' /\ ComparedExist'
<1>1. ASSUME NEW o \in Orgs, NEW b \in DOMAIN runs, NEW t \in DOMAIN runs, compare_runs(o, b, t)
      PROVE  ComparedTyped' /\ ComparedExist'
    <2> DEFINE rel == IF runs[b].period < runs[t].period THEN "subsequent" ELSE "preceding"
               delta == {<<outputs[t].hash, 1>>, <<outputs[b].hash, -1>>}
               a == [base |-> b, target |-> t, delta |-> delta, relationship |-> rel]
    <2>1. compared' = compared \cup {a} /\ runs' = runs
        BY <1>1 DEF compare_runs
    <2>2. /\ runs[b].org = o /\ runs[t].org = o
          /\ runs[b].status = "completed" /\ runs[t].status = "completed"
        BY <1>1 DEF compare_runs, UnitOfWork, scoped_select
    <2>3. outputs[b] \in Output /\ outputs[t] \in Output
        BY <2>2, RowFacts DEF CompletionIsWhole
    <2>4. delta \in SUBSET (Hashes \X {1, -1})
        BY <2>3 DEF Output
    <2>5. rel \in {"subsequent", "preceding"}
        OBVIOUS
    <2> HIDE DEF delta, rel
    <2>6. a \in [base : RunIds, target : RunIds, delta : SUBSET (Hashes \X {1, -1}),
                 relationship : {"subsequent", "preceding"}]
          /\ a.base = b /\ a.target = t
        BY <2>4, <2>5, RowFacts
    <2> HIDE DEF a
    <2> QED
        BY <2>1, <2>2, <2>6 DEF ComparedTyped, ComparedExist
<1>2. ASSUME compared' = compared
      PROVE  ComparedTyped' /\ ComparedExist'
    BY <1>2 DEF ComparedTyped, ComparedExist, RowsAdvance
<1>3. ASSUME NEW c \in Calls,
             \/ \E o \in Orgs : InitiateRun(c, o)
             \/ \E r \in DOMAIN runs : ResumeRun(c, r)
             \/ \E h \in Hashes : EngineReports(c, h)
             \/ EngineFails(c) \/ RefuseToPersist(c) \/ ReturnCompleted(c) \/ CompleteRun(c)
             \/ CommitUncertain(c) \/ PersistFails(c) \/ _record_failure(c)
             \/ FailureUnrecorded(c) \/ Crash(c)
      PROVE  compared' = compared
    BY <1>3 DEF InitiateRun, ResumeRun, EngineReports, EngineFails, RefuseToPersist,
                ReturnCompleted, CompleteRun, CommitUncertain, PersistFails, _record_failure,
                FailureUnrecorded, Crash
<1>4. ASSUME NEW o \in Orgs,
              \/ \E p \in Periods : SubmitRun(o, p)
              \/ \E r \in DOMAIN runs, v \in BOOLEAN : set_run_legal_hold(o, r, v)
              \/ \E r \in DOMAIN runs : soft_delete_run(o, r)
              \/ \E r \in DOMAIN runs : ReadRun(o, r)
              \/ FirstPage(o)
      PROVE  compared' = compared
    BY <1>4 DEF SubmitRun, set_run_legal_hold, soft_delete_run, ReadRun, FirstPage
<1>5. ASSUME ReadResult \/ ReadCertificate \/ NextPage \/ Tick
      PROVE  compared' = compared
    BY <1>5 DEF ReadResult, ReadCertificate, NextPage, Tick
<1> QED
    BY <1>1, <1>2, <1>3, <1>4, <1>5 DEF Next

-----------------------------------------------------------------------------
(* Listing.                                                                *)

(* ORDER BY created_at DESC, id DESC is a strict total order of the rows.  *)
LEMMA BeforeIsTotalOrder ==
    ASSUME RowsTyped
    PROVE  /\ \A r \in DOMAIN runs : ~Before(r, r)
           /\ \A r, s, t \in DOMAIN runs : Before(r, s) /\ Before(s, t) => Before(r, t)
           /\ \A r, s \in DOMAIN runs : r # s => Before(r, s) \/ Before(s, r)
<1>1. \A r \in DOMAIN runs : r \in Int /\ runs[r].created \in Int
    BY RowFacts, TenantRunsAssumption DEF ReconciliationRun, RunIds
<1> QED
    BY <1>1 DEF Before

(* A finite set that is not empty has an element no other one precedes, in *)
(* any strict order: one with the fewest predecessors.                     *)
LEMMA LeastExists ==
    ASSUME NEW S, IsFiniteSet(S), S # {}, NEW R,
           \A x \in S : <<x, x>> \notin R,
           \A x, y, z \in S : <<x, y>> \in R /\ <<y, z>> \in R => <<x, z>> \in R
    PROVE  \E x \in S : \A y \in S : <<y, x>> \notin R
<1> DEFINE Pred(x) == {y \in S : <<y, x>> \in R}
           count == [x \in S |-> Cardinality(Pred(x))]
           Counts == {count[x] : x \in S}
           Less == OpToRel(<, Nat)
<1>1. ASSUME NEW x \in S
      PROVE  IsFiniteSet(Pred(x)) /\ count[x] = Cardinality(Pred(x)) /\ count[x] \in Nat
    <2>1. Pred(x) \in SUBSET S
        OBVIOUS
    <2> HIDE DEF Pred
    <2>2. IsFiniteSet(Pred(x))
        BY <2>1, FS_Subset
    <2>3. count[x] = Cardinality(Pred(x))
        OBVIOUS
    <2> QED
        BY <2>2, <2>3, FS_CardinalityType
<1>2. ASSUME NEW x \in S, NEW y \in S, <<y, x>> \in R
      PROVE  count[y] < count[x]
    <2>1. Pred(y) \in SUBSET Pred(x) /\ x \in S /\ Pred(x) # Pred(y)
        <3>1. y \in Pred(x) /\ y \notin Pred(y)
            BY <1>2
        <3>2. Pred(y) \in SUBSET Pred(x)
            BY <1>2
        <3> QED
            BY <3>1, <3>2
    <2> HIDE DEF Pred, count
    <2>2. /\ Cardinality(Pred(y)) <= Cardinality(Pred(x))
          /\ Cardinality(Pred(x)) # Cardinality(Pred(y))
        BY <1>1, <2>1, FS_Subset
    <2> QED
        BY <1>1, <2>2
<1> HIDE DEF count
<1>3. Counts \subseteq Nat /\ Counts # {}
    <2> HIDE DEF Pred
    <2> QED
        BY <1>1
<1>4. \E n \in Counts : \A m \in Counts : <<m, n>> \notin Less
    <2> HIDE DEF Counts
    <2> QED
        BY <1>3, NatLessThanWellFounded, WFMin
<1>5. PICK x \in S : \A m \in Counts : <<m, count[x]>> \notin Less
    BY <1>4
<1>6. \A y \in S : ~(count[y] < count[x])
    <2> SUFFICES ASSUME NEW y \in S, count[y] < count[x]
                 PROVE  FALSE
        OBVIOUS
    <2>1. count[y] \in Nat /\ count[x] \in Nat /\ count[y] \in Counts
        BY <1>1
    <2>2. <<count[y], count[x]>> \in Less
        BY <2>1 DEF OpToRel
    <2> QED
        BY <1>5, <2>1, <2>2
<1> QED
    BY <1>2, <1>6

(* What ORDER BY, LIMIT and the cursor's row give: a page that is not the  *)
(* last one ends at a row every listed row comes before and every row that *)
(* is left comes after; a last page has all the rows there are.            *)
LEMMA PageFacts ==
    ASSUME RowsTyped, NEW rows \in SUBSET DOMAIN runs
    PROVE  LET page == FirstRows(rows, PageLimit)
               last == LastRow(page)
           IN  /\ page \subseteq rows
               /\ ~(Cardinality(rows) > PageLimit) => page = rows
               /\ Cardinality(rows) > PageLimit =>
                    /\ last \in page
                    /\ \A s \in page : s = last \/ Before(s, last)
                    /\ \A s \in rows \ page : Before(last, s)
<1> DEFINE page == FirstRows(rows, PageLimit)
           last == LastRow(page)
           Pred(r) == {s \in rows : Before(s, r)}
           count == [r \in rows |-> Cardinality(Pred(r))]
<1>1. IsFiniteSet(rows) /\ Cardinality(rows) \in Nat
    <2>1. IsFiniteSet(DOMAIN runs)
        BY RowFacts, FS_Interval
    <2>2. IsFiniteSet(rows)
        BY <2>1, FS_Subset
    <2> QED
        BY <2>2, FS_CardinalityType
<1>2. ASSUME NEW r \in rows
      PROVE  /\ IsFiniteSet(Pred(r)) /\ count[r] = Cardinality(Pred(r))
             /\ count[r] \in Nat /\ count[r] < Cardinality(rows)
    <2>1. Pred(r) \in SUBSET rows
        OBVIOUS
    <2>2. r \notin Pred(r)
        BY BeforeIsTotalOrder
    <2>3. count[r] = Cardinality(Pred(r))
        OBVIOUS
    <2> HIDE DEF Pred, count
    <2>4. /\ IsFiniteSet(Pred(r)) /\ Cardinality(Pred(r)) <= Cardinality(rows)
          /\ Cardinality(rows) # Cardinality(Pred(r))
        BY <1>1, <2>1, <2>2, FS_Subset
    <2>5. Cardinality(Pred(r)) \in Nat
        BY <2>4, FS_CardinalityType
    <2> QED
        BY <1>1, <2>3, <2>4, <2>5
<1>3. page = {r \in rows : count[r] < PageLimit}
    BY DEF FirstRows
<1>4. PageLimit \in Nat \ {0}
    BY TenantRunsAssumption
<1> HIDE DEF page, count
<1>5. ~(Cardinality(rows) > PageLimit) => page = rows
    <2> HIDE DEF Pred
    <2>1. ASSUME ~(Cardinality(rows) > PageLimit), NEW r \in rows PROVE count[r] < PageLimit
        BY <1>1, <1>2, <1>4, <2>1
    <2> QED
        BY <1>3, <2>1
<1>6. ASSUME Cardinality(rows) > PageLimit
      PROVE  /\ last \in page
             /\ \A s \in page : s = last \/ Before(s, last)
             /\ \A s \in rows \ page : Before(last, s)
    <2>1. rows # {}
        BY <1>1, <1>4, <1>6, FS_EmptySet
    <2>2. \E r \in rows : \A s \in rows : ~Before(s, r)
        <3> DEFINE R == {x \in rows \X rows : Before(x[1], x[2])}
        <3>1. \A x, y \in rows : <<x, y>> \in R <=> Before(x, y)
            OBVIOUS
        <3> HIDE DEF R
        <3>2. \A x \in rows : <<x, x>> \notin R
            BY <3>1, BeforeIsTotalOrder
        <3>3. \A x, y, z \in rows : <<x, y>> \in R /\ <<y, z>> \in R => <<x, z>> \in R
            BY <3>1, BeforeIsTotalOrder
        <3>4. \E x \in rows : \A y \in rows : <<y, x>> \notin R
            BY <1>1, <2>1, <3>2, <3>3, LeastExists
        <3> QED
            BY <3>1, <3>4
    <2>3. page # {}
        <3>1. PICK r \in rows : \A s \in rows : ~Before(s, r)
            BY <2>2
        <3>2. Pred(r) = {}
            BY <3>1
        <3>3. count[r] = 0
            BY <1>2, <3>2, FS_EmptySet
        <3> QED
            BY <1>3, <1>4, <3>3
    <2>4. page \subseteq rows /\ IsFiniteSet(page)
        BY <1>1, <1>3, FS_Subset
    <2>5. \E r \in page : \A s \in page : ~Before(r, s)
        <3> DEFINE R == {x \in page \X page : Before(x[2], x[1])}
        <3>1. \A x, y \in page : <<x, y>> \in R <=> Before(y, x)
            OBVIOUS
        <3> HIDE DEF R
        <3>2. \A x \in page : <<x, x>> \notin R
            BY <2>4, <3>1, BeforeIsTotalOrder
        <3>3. \A x, y, z \in page : <<x, y>> \in R /\ <<y, z>> \in R => <<x, z>> \in R
            BY <2>4, <3>1, BeforeIsTotalOrder
        <3>4. \E x \in page : \A y \in page : <<y, x>> \notin R
            BY <2>3, <2>4, <3>2, <3>3, LeastExists
        <3> QED
            BY <3>1, <3>4
    <2>6. last \in page /\ \A s \in page : ~Before(last, s)
        BY <2>5 DEF LastRow
    <2> HIDE DEF last
    <2>7. \A s \in page : s = last \/ Before(s, last)
        BY <2>4, <2>6, BeforeIsTotalOrder
    <2>8. ASSUME NEW s \in rows \ page PROVE Before(last, s)
        <3>1. s # last /\ last \in rows
            BY <2>4, <2>6, <2>8
        <3>2. ASSUME Before(s, last) PROVE FALSE
            <4>1. Pred(s) \in SUBSET Pred(last)
                BY <3>1, <3>2, BeforeIsTotalOrder
            <4>2. Cardinality(Pred(s)) <= Cardinality(Pred(last))
                BY <1>2, <3>1, <4>1, FS_Subset
            <4> HIDE DEF Pred
            <4>3. count[last] < PageLimit
                BY <1>3, <2>6
            <4>4. count[s] < PageLimit
                BY <1>2, <1>4, <3>1, <4>2, <4>3
            <4> QED
                BY <1>3, <2>8, <4>4
        <3> QED
            BY <3>1, <3>2, BeforeIsTotalOrder
    <2> QED
        BY <2>6, <2>7, <2>8
<1>7. page \subseteq rows
    BY <1>3
<1> QED
    BY <1>5, <1>6, <1>7 DEF page

Pager ==
    [pc : {"idle", "more", "done"}, org : Orgs \cup {NoTenant},
     cursor : {<<>>} \cup ((0..MaxClock) \X RunIds),
     seen : Seq(SUBSET RunIds), start : SUBSET RunIds]

(* The cursor stands at a row every row of the pages seen is up to.        *)
CursorAt(cursor, seen) ==
    /\ cursor[2] \in DOMAIN runs
    /\ cursor[1] = runs[cursor[2]].created
    /\ \A i \in DOMAIN seen : \A r \in seen[i] : r = cursor[2] \/ Before(r, cursor[2])

(* A page is fetched by the pager p, whose walk is sound so far: the walk  *)
(* stays sound, and complete when that page was the last.                  *)
LEMMA FetchedPage ==
    ASSUME RowsTyped, NEW o \in Orgs \cup {NoTenant}, NEW p \in Pager,
           \A i \in DOMAIN p.seen : \A r \in p.seen[i] : r \in DOMAIN runs /\ runs[r].org = o,
           \A i, j \in DOMAIN p.seen : i < j =>
              \A r \in p.seen[i], s \in p.seen[j] : Before(r, s),
           p.cursor = <<>> => p.seen = <<>>,
           p.cursor # <<>> => CursorAt(p.cursor, p.seen),
           \A r \in p.start : /\ r \in DOMAIN runs
                              /\ runs[r].deleted \/ r \in PlainSession(o)
                              /\ \/ runs[r].deleted \/ r \in AfterCursor(p.cursor)
                                 \/ \E i \in DOMAIN p.seen : r \in p.seen[i],
           pager' = FetchPage(o, p), runs' = runs, rls' = rls
    PROVE  /\ pager' \in Pager
           /\ Walk'
           /\ PagesOrdered'
           /\ PagesCover'
<1> DEFINE rows == PlainSession(o) \cap AfterCursor(p.cursor)
           page == FirstRows(rows, PageLimit)
           last == LastRow(page)
           full == Cardinality(rows) > PageLimit
           next == IF full THEN <<runs[last].created, last>> ELSE <<>>
           pc == IF next = <<>> THEN "done" ELSE "more"
           n == Len(p.seen) + 1
           seen == Append(p.seen, page)
<1> USE RowFacts
<1>1. pager' = [p EXCEPT !.org = o, !.seen = Append(@, page), !.cursor = next, !.pc = pc]
    BY DEF FetchPage, list_runs_cursor
<1>2. rows \in SUBSET DOMAIN runs /\ \A r \in rows : runs[r].org = o
    BY DEF PlainSession, scoped_select
<1>3. /\ page \subseteq rows
      /\ ~full => page = rows
      /\ full => /\ last \in page
                 /\ \A s \in page : s = last \/ Before(s, last)
                 /\ \A s \in rows \ page : Before(last, s)
    BY <1>2, PageFacts
<1>4. \A r \in rows : r \in PlainSession(o) /\ r \in AfterCursor(p.cursor)
    OBVIOUS
<1>5. \A r \in PlainSession(o) : r \in AfterCursor(p.cursor) => r \in rows
    OBVIOUS
<1> HIDE DEF rows, page, last, full
<1>6. /\ full => next # <<>> /\ next = <<runs[last].created, last>> /\ pc = "more"
      /\ ~full => next = <<>> /\ pc = "done"
    OBVIOUS
<1>7. next \in {<<>>} \cup ((0..MaxClock) \X RunIds)
    <2>1. CASE full
        <3>1. last \in DOMAIN runs
            BY <1>2, <1>3, <2>1
        <3>2. runs[last].created \in 0..MaxClock /\ last \in RunIds
            BY <3>1 DEF ReconciliationRun
        <3> QED
            BY <1>6, <2>1, <3>2
    <2>2. CASE ~full
        BY <1>6, <2>2
    <2> QED
        BY <2>1, <2>2
<1>8. pc \in {"more", "done"}
    BY <1>6
<1> HIDE DEF next, pc
<1>9. page \in SUBSET RunIds
    BY <1>2, <1>3
<1>10. /\ seen \in Seq(SUBSET RunIds) /\ DOMAIN seen = DOMAIN p.seen \cup {n}
       /\ seen[n] = page /\ n \notin DOMAIN p.seen /\ n \in Nat
       /\ \A i \in DOMAIN p.seen : seen[i] = p.seen[i] /\ i < n /\ i \in Nat
    <2>1. p.seen \in Seq(SUBSET RunIds)
        BY DEF Pager
    <2> QED
        BY <1>9, <2>1
<1> HIDE DEF seen, n
<1>11. /\ pager' \in Pager
       /\ pager'.pc = pc /\ pager'.org = o /\ pager'.cursor = next /\ pager'.seen = seen
       /\ pager'.start = p.start
    <2>1. pager' = [p EXCEPT !.org = o, !.seen = seen, !.cursor = next, !.pc = pc]
        BY <1>1 DEF seen, Pager
    <2> QED
        BY <1>7, <1>8, <1>10, <2>1 DEF Pager
<1>12. \A r \in DOMAIN runs, s \in DOMAIN runs : Before(r, s)' <=> Before(r, s)
    BY DEF Before
<1>13. \A x : PlainSession(x)' = PlainSession(x) /\ AfterCursor(x)' = AfterCursor(x)
    BY DEF PlainSession, scoped_select, tenant_isolation_policy, AfterCursor
<1>14. \A i \in DOMAIN seen : \A r \in seen[i] : r \in DOMAIN runs /\ runs[r].org = o
    BY <1>2, <1>3, <1>10
<1>15. ASSUME NEW i \in DOMAIN p.seen, NEW r \in p.seen[i], NEW s \in rows
       PROVE  Before(r, s)
    <2>1. r \in DOMAIN runs /\ s \in DOMAIN runs /\ s \in AfterCursor(p.cursor)
        BY <1>2, <1>4
    <2>2. p.cursor # <<>>
        BY DEF Pager
    <2>3. CursorAt(p.cursor, p.seen)
        BY <2>2
    <2>4. Before(p.cursor[2], s)
        <3>1. \/ runs[s].created < p.cursor[1]
              \/ runs[s].created = p.cursor[1] /\ s < p.cursor[2]
            BY <2>1, <2>2 DEF AfterCursor
        <3>2. p.cursor[2] \in DOMAIN runs /\ p.cursor[1] = runs[p.cursor[2]].created
            BY <2>3 DEF CursorAt
        <3>3. /\ runs[s].created \in Int /\ runs[p.cursor[2]].created \in Int
              /\ s \in Int /\ p.cursor[2] \in Int
            BY <2>1, <3>2, TenantRunsAssumption DEF ReconciliationRun, RunIds
        <3> QED
            BY <3>1, <3>2, <3>3 DEF Before
    <2> QED
        BY <2>1, <2>3, <2>4, BeforeIsTotalOrder DEF CursorAt
<1>16. \A i, j \in DOMAIN seen : i < j => \A r \in seen[i], s \in seen[j] : Before(r, s)
    <2> SUFFICES ASSUME NEW i \in DOMAIN seen, NEW j \in DOMAIN seen, i < j,
                        NEW r \in seen[i], NEW s \in seen[j]
                 PROVE  Before(r, s)
        OBVIOUS
    <2>1. i \in DOMAIN p.seen
        BY <1>10
    <2>2. CASE j \in DOMAIN p.seen
        BY <1>10, <2>1, <2>2
    <2>3. CASE j = n
        BY <1>3, <1>10, <1>15, <2>1, <2>3
    <2> QED
        BY <1>10, <2>2, <2>3
<1>17. PagesOrdered'
    BY <1>11, <1>12, <1>14, <1>16 DEF PagesOrdered
<1>18. ASSUME NEW r \in p.start
       PROVE  \/ runs[r].deleted
              \/ \E i \in DOMAIN seen : r \in seen[i]
              \/ full /\ Before(last, r)
    <2>1. CASE \E i \in DOMAIN p.seen : r \in p.seen[i]
        BY <1>10, <2>1
    <2>2. CASE ~runs[r].deleted /\ r \in AfterCursor(p.cursor)
        <3>1. r \in rows
            BY <1>5, <2>2
        <3>2. CASE r \in page
            BY <1>10, <3>2
        <3>3. CASE r \notin page
            BY <1>3, <3>1, <3>3
        <3> QED
            BY <3>2, <3>3
    <2> QED
        BY <2>1, <2>2
<1>19. PagesCover'
    <2> SUFFICES ASSUME pc = "done", NEW r \in p.start
                 PROVE  runs[r].deleted \/ \E i \in DOMAIN seen : r \in seen[i]
        BY <1>11 DEF PagesCover, Listed
    <2>1. ~full
        BY <1>6
    <2> QED
        BY <1>18, <2>1
<1>20. full => CursorAt(next, seen)
    <2> SUFFICES ASSUME full PROVE CursorAt(next, seen)
        OBVIOUS
    <2>1. last \in DOMAIN runs /\ next[2] = last /\ next[1] = runs[last].created
        BY <1>2, <1>3, <1>6
    <2>2. ASSUME NEW i \in DOMAIN seen, NEW r \in seen[i] PROVE r = last \/ Before(r, last)
        <3>1. CASE i = n
            BY <1>3, <1>10, <3>1
        <3>2. CASE i \in DOMAIN p.seen
            BY <1>3, <1>10, <1>15, <3>2
        <3> QED
            BY <1>10, <3>1, <3>2
    <2> QED
        BY <2>1, <2>2 DEF CursorAt
<1>21. ASSUME full, NEW r \in DOMAIN runs, Before(last, r)
       PROVE  r \in AfterCursor(next)
    <2>1. next # <<>> /\ next[1] = runs[last].created /\ next[2] = last /\ last \in DOMAIN runs
        BY <1>2, <1>3, <1>6, <1>21
    <2>2. /\ runs[last].created \in Int /\ runs[r].created \in Int
          /\ last \in Int /\ r \in Int
        BY <2>1, TenantRunsAssumption DEF ReconciliationRun, RunIds
    <2> QED
        BY <1>21, <2>1, <2>2 DEF AfterCursor, Before
<1>22. Walk'
    <2>1. (pager.pc = "idle" => pager = IdlePager)'
        BY <1>8, <1>11
    <2>2. (pager.pc = "more" => pager.cursor # <<>>)'
        BY <1>6, <1>11
    <2>3. (\A i \in DOMAIN pager.seen : \A r \in pager.seen[i] :
              r \in DOMAIN runs /\ runs[r].org = pager.org)'
        BY <1>11, <1>14
    <2>4. (\A r \in pager.start :
              r \in DOMAIN runs /\ (runs[r].deleted \/ r \in PlainSession(pager.org)))'
        BY <1>11, <1>13
    <2>5. (pager.cursor # <<>> =>
              /\ pager.cursor[2] \in DOMAIN runs
              /\ pager.cursor[1] = runs[pager.cursor[2]].created
              /\ \A i \in DOMAIN pager.seen : \A r \in pager.seen[i] :
                    r = pager.cursor[2] \/ Before(r, pager.cursor[2]))'
        BY <1>6, <1>11, <1>12, <1>14, <1>20 DEF CursorAt
    <2>6. (pager.pc = "more" =>
              \A r \in pager.start :
                 runs[r].deleted \/ Listed(r) \/ r \in AfterCursor(pager.cursor))'
        <3> SUFFICES ASSUME pc = "more", NEW r \in p.start
                     PROVE  \/ runs[r].deleted \/ r \in AfterCursor(next)
                            \/ \E i \in DOMAIN seen : r \in seen[i]
            BY <1>11, <1>13 DEF Listed
        <3> QED
            BY <1>18, <1>21
    <2> QED
        BY <2>1, <2>2, <2>3, <2>4, <2>5, <2>6 DEF Walk
<1> QED
    BY <1>11, <1>17, <1>19, <1>22

(* The actions by which the pager moves are its own.                       *)
LEMMA OthersLeavePager ==
    ASSUME Next, ~(\E o \in Orgs : FirstPage(o)), ~NextPage
    PROVE  pager' = pager
<1>1. ASSUME NEW c \in Calls,
             \/ \E o \in Orgs : InitiateRun(c, o)
             \/ \E r \in DOMAIN runs : ResumeRun(c, r)
             \/ \E h \in Hashes : EngineReports(c, h)
             \/ EngineFails(c) \/ RefuseToPersist(c) \/ ReturnCompleted(c) \/ CompleteRun(c)
             \/ CommitUncertain(c) \/ PersistFails(c) \/ _record_failure(c)
             \/ FailureUnrecorded(c) \/ Crash(c)
      PROVE  pager' = pager
    BY <1>1 DEF InitiateRun, ResumeRun, EngineReports, EngineFails, RefuseToPersist,
                ReturnCompleted, CompleteRun, CommitUncertain, PersistFails, _record_failure,
                FailureUnrecorded, Crash
<1>2. ASSUME NEW o \in Orgs,
              \/ \E p \in Periods : SubmitRun(o, p)
              \/ \E r \in DOMAIN runs, v \in BOOLEAN : set_run_legal_hold(o, r, v)
              \/ \E r \in DOMAIN runs : soft_delete_run(o, r)
              \/ \E r \in DOMAIN runs : ReadRun(o, r)
              \/ \E b, t \in DOMAIN runs : compare_runs(o, b, t)
      PROVE  pager' = pager
    BY <1>2 DEF SubmitRun, set_run_legal_hold, soft_delete_run, ReadRun, compare_runs
<1>3. ASSUME ReadResult \/ ReadCertificate \/ Tick
      PROVE  pager' = pager
    BY <1>3 DEF ReadResult, ReadCertificate, Tick
<1> QED
    BY <1>1, <1>2, <1>3 DEF Next

LEMMA StepsKeepWalk ==
    ASSUME RowsTyped, pager \in Pager, Walk, PagesOrdered, PagesCover, RowsAdvance, Next
    PROVE  /\ pager' \in Pager
           /\ Walk'
           /\ PagesOrdered'
           /\ PagesCover'
<1>1. ASSUME NEW o \in Orgs, FirstPage(o)
      PROVE  /\ pager' \in Pager
             /\ Walk'
             /\ PagesOrdered'
             /\ PagesCover'
    <2> DEFINE p == [IdlePager EXCEPT !.start = PlainSession(o)]
    <2>1. pager' = FetchPage(o, p) /\ runs' = runs /\ rls' = rls
        BY <1>1 DEF FirstPage
    <2>2. PlainSession(o) \subseteq DOMAIN runs /\ DOMAIN runs \subseteq RunIds
        BY RowFacts DEF PlainSession, scoped_select
    <2>3. p = [pc |-> "idle", org |-> NoTenant, cursor |-> <<>>, seen |-> <<>>,
               start |-> PlainSession(o)]
        BY DEF IdlePager
    <2>4. /\ p \in Pager /\ p.seen = <<>> /\ p.cursor = <<>> /\ p.start = PlainSession(o)
        <3>1. /\ p.seen = <<>> /\ p.cursor = <<>> /\ p.start = PlainSession(o)
              /\ p.pc = "idle" /\ p.org = NoTenant
            BY <2>3
        <3>2. <<>> \in Seq(SUBSET RunIds) /\ PlainSession(o) \in SUBSET RunIds
            BY <2>2
        <3>3. p \in Pager
            BY <2>3, <3>2 DEF Pager
        <3> QED
            BY <3>1, <3>3
    <2> HIDE DEF p
    <2>5. AfterCursor(p.cursor) = DOMAIN runs /\ DOMAIN p.seen = {}
        BY <2>4 DEF AfterCursor
    <2>6. \A r \in p.start : r \in DOMAIN runs /\ r \in PlainSession(o) /\ r \in AfterCursor(p.cursor)
        BY <2>2, <2>4, <2>5
    <2> QED
        BY <2>1, <2>4, <2>5, <2>6, FetchedPage
<1>2. ASSUME NextPage
      PROVE  /\ pager' \in Pager
             /\ Walk'
             /\ PagesOrdered'
             /\ PagesCover'
    <2>1. /\ pager' = FetchPage(pager.org, pager) /\ runs' = runs /\ rls' = rls
          /\ pager.pc = "more" /\ pager.cursor # <<>> /\ pager.org \in Orgs \cup {NoTenant}
        BY <1>2 DEF NextPage, Walk, Pager
    <2>2. CursorAt(pager.cursor, pager.seen)
        BY <2>1 DEF Walk, CursorAt
    <2>3. \A r \in pager.start :
             /\ r \in DOMAIN runs
             /\ runs[r].deleted \/ r \in PlainSession(pager.org)
             /\ \/ runs[r].deleted \/ r \in AfterCursor(pager.cursor)
                \/ \E i \in DOMAIN pager.seen : r \in pager.seen[i]
        BY <2>1 DEF Walk, Listed
    <2>4. /\ \A i \in DOMAIN pager.seen : \A r \in pager.seen[i] :
                r \in DOMAIN runs /\ runs[r].org = pager.org
          /\ \A i, j \in DOMAIN pager.seen : i < j =>
                \A r \in pager.seen[i], s \in pager.seen[j] : Before(r, s)
        BY DEF Walk, PagesOrdered
    <2> QED
        BY <2>1, <2>2, <2>3, <2>4, FetchedPage
<1>3. ASSUME pager' = pager
      PROVE  /\ pager' \in Pager
             /\ Walk'
             /\ PagesOrdered'
             /\ PagesCover'
    <2>1. \A r \in DOMAIN runs :
             /\ r \in DOMAIN runs' /\ runs'[r].org = runs[r].org
             /\ runs'[r].created = runs[r].created
             /\ runs[r].deleted => runs'[r].deleted
        BY DEF RowsAdvance
    <2>2. rls' = rls
        BY DEF RowsAdvance
    <2>3. \A r, s \in DOMAIN runs : Before(r, s)' <=> Before(r, s)
        BY <2>1 DEF Before
    <2>4. \A i \in DOMAIN pager.seen : \A r \in pager.seen[i] : r \in DOMAIN runs
        BY DEF Walk
    <2>5. PagesOrdered'
        BY <1>3, <2>3, <2>4 DEF PagesOrdered
    <2>6. \A r \in pager.start : r \in DOMAIN runs
        BY DEF Walk
    <2>7. PagesCover'
        BY <1>3, <2>1, <2>6 DEF PagesCover, Listed
    <2>8. \A r \in pager.start : runs'[r].deleted \/ r \in PlainSession(pager.org)'
        <3> SUFFICES ASSUME NEW r \in pager.start, ~runs'[r].deleted
                     PROVE  r \in PlainSession(pager.org)'
            OBVIOUS
        <3>1. r \in DOMAIN runs /\ r \in PlainSession(pager.org)
            BY <2>1, <2>6 DEF Walk
        <3>2. runs[r].org = pager.org /\ (rls => runs[r].org = NoTenant)
            BY <3>1 DEF PlainSession, scoped_select, tenant_isolation_policy
        <3>3. r \in DOMAIN runs' /\ runs'[r].org = pager'.org /\ (rls' => runs'[r].org = NoTenant)
            BY <1>3, <2>1, <2>2, <3>1, <3>2
        <3> QED
            BY <3>3 DEF PlainSession, scoped_select, tenant_isolation_policy
    <2>9. ASSUME pager.cursor # <<>>, NEW r \in DOMAIN runs, r \in AfterCursor(pager.cursor)
          PROVE  r \in AfterCursor(pager.cursor)'
        BY <1>3, <2>1, <2>9 DEF AfterCursor
    <2>10. Walk'
        <3>1. (pager.cursor # <<>> =>
                 /\ pager.cursor[2] \in DOMAIN runs
                 /\ pager.cursor[1] = runs[pager.cursor[2]].created
                 /\ \A i \in DOMAIN pager.seen : \A r \in pager.seen[i] :
                       r = pager.cursor[2] \/ Before(r, pager.cursor[2]))'
            BY <1>3, <2>1, <2>3, <2>4 DEF Walk
        <3>2. (pager.pc = "more" =>
                 \A r \in pager.start :
                    runs[r].deleted \/ Listed(r) \/ r \in AfterCursor(pager.cursor))'
            BY <1>3, <2>1, <2>6, <2>9 DEF Walk, Listed
        <3>3. /\ (pager.pc = "idle" => pager = IdlePager)'
              /\ (pager.pc = "more" => pager.cursor # <<>>)'
            BY <1>3 DEF Walk, IdlePager
        <3>4. (\A i \in DOMAIN pager.seen : \A r \in pager.seen[i] :
                  r \in DOMAIN runs /\ runs[r].org = pager.org)'
            BY <1>3, <2>1 DEF Walk
        <3>5. (\A r \in pager.start :
                  r \in DOMAIN runs /\ (runs[r].deleted \/ r \in PlainSession(pager.org)))'
            BY <1>3, <2>1, <2>6, <2>8
        <3> QED
            BY <3>1, <3>2, <3>3, <3>4, <3>5 DEF Walk
    <2> QED
        BY <1>3, <2>5, <2>7, <2>10
<1> QED
    BY <1>1, <1>2, <1>3, OthersLeavePager

-----------------------------------------------------------------------------
(* The inductive invariant and what follows from it.                       *)

LEMMA TypeParts ==
    TypeOK <=> /\ client \in Clients /\ rls \in Deployments
               /\ RowsTyped /\ CallTyped /\ ReaderTyped /\ pager \in Pager
               /\ served \subseteq RunIds \X Calls /\ ComparedTyped /\ clock \in 0..MaxClock
BY DEF TypeOK, RowsTyped, CallTyped, ReaderTyped, Pager, ComparedTyped

LEMMA InitInv == Init => Inv
<1> SUFFICES ASSUME Init PROVE Inv
    OBVIOUS
<1> USE TenantRunsAssumption
<1>1. RowsTyped /\ DOMAIN runs = {}
    BY DEF Init, RowsTyped
<1>2. CallTyped /\ Executions
    BY DEF Init, CallTyped, Executions, IdleCall
<1>3. ReaderTyped /\ ReaderHolds
    BY DEF Init, ReaderTyped, ReaderHolds, IdleReader
<1>4. /\ pager = IdlePager /\ pager.pc = "idle" /\ pager.cursor = <<>> /\ pager.start = {}
      /\ DOMAIN pager.seen = {} /\ pager \in Pager
    BY DEF Init, Pager, IdlePager
<1>5. Walk /\ PagesOrdered /\ PagesCover
    BY <1>4 DEF Walk, PagesOrdered, PagesCover
<1>6. CompletionIsWhole /\ Fresh /\ Trail
    BY <1>1 DEF Init, CompletionIsWhole, Fresh, Trail
<1>7. ServedIsStored /\ ComparedExist /\ ComparedTyped /\ served \subseteq RunIds \X Calls
    BY DEF Init, ServedIsStored, ComparedExist, ComparedTyped
<1>8. client \in Clients /\ rls \in Deployments /\ clock \in 0..MaxClock
    BY DEF Init
<1> QED
    BY <1>1, <1>2, <1>3, <1>4, <1>5, <1>6, <1>7, <1>8, TypeParts DEF Inv

(* The client is chosen once; the clock only ticks up to its bound.        *)
LEMMA StepsKeepClock ==
    ASSUME client \in Clients, clock \in 0..MaxClock, Next
    PROVE  client' \in Clients /\ clock' \in 0..MaxClock
<1>1. ASSUME NEW c \in Calls,
             \/ \E o \in Orgs : InitiateRun(c, o)
             \/ \E r \in DOMAIN runs : ResumeRun(c, r)
             \/ \E h \in Hashes : EngineReports(c, h)
             \/ EngineFails(c) \/ RefuseToPersist(c) \/ ReturnCompleted(c) \/ CompleteRun(c)
             \/ CommitUncertain(c) \/ PersistFails(c) \/ _record_failure(c)
             \/ FailureUnrecorded(c) \/ Crash(c)
      PROVE  client' = client /\ clock' = clock
    BY <1>1 DEF InitiateRun, ResumeRun, EngineReports, EngineFails, RefuseToPersist,
                ReturnCompleted, CompleteRun, CommitUncertain, PersistFails, _record_failure,
                FailureUnrecorded, Crash
<1>2. ASSUME NEW o \in Orgs,
              \/ \E p \in Periods : SubmitRun(o, p)
              \/ \E r \in DOMAIN runs, v \in BOOLEAN : set_run_legal_hold(o, r, v)
              \/ \E r \in DOMAIN runs : soft_delete_run(o, r)
              \/ \E r \in DOMAIN runs : ReadRun(o, r)
              \/ \E b, t \in DOMAIN runs : compare_runs(o, b, t)
              \/ FirstPage(o)
      PROVE  client' = client /\ clock' = clock
    BY <1>2 DEF SubmitRun, set_run_legal_hold, soft_delete_run, ReadRun, compare_runs, FirstPage
<1>3. ASSUME ReadResult \/ ReadCertificate \/ NextPage
      PROVE  client' = client /\ clock' = clock
    BY <1>3 DEF ReadResult, ReadCertificate, NextPage
<1>4. ASSUME Tick
      PROVE  client' = client /\ clock' \in 0..MaxClock
    BY <1>4, TenantRunsAssumption DEF Tick
<1> QED
    BY <1>1, <1>2, <1>3, <1>4 DEF Next

LEMMA NextInv == Inv /\ [Next]_vars => Inv'
<1> SUFFICES ASSUME Inv, [Next]_vars PROVE Inv'
    OBVIOUS
<1>1. CASE Next
    <2>1. /\ client \in Clients /\ rls \in Deployments
          /\ RowsTyped /\ CallTyped /\ ReaderTyped /\ pager \in Pager
          /\ served \subseteq RunIds \X Calls /\ ComparedTyped /\ clock \in 0..MaxClock
        BY TypeParts DEF Inv
    <2>2. RowsTyped' /\ CompletionIsWhole' /\ Fresh' /\ RowsAdvance
        BY <1>1, <2>1, RowsOnlyAdvance DEF Inv
    <2>3. rls' \in Deployments
        BY <2>1, <2>2 DEF RowsAdvance
    <2>4. Trail'
        <3>1. RowStep \/ UNCHANGED <<runs, outputs, audit>>
            BY <1>1, <2>1, StepsEditRows DEF Inv
        <3>2. CASE RowStep
            BY <2>1, <3>2, RowStepsKeepTrail DEF Inv
        <3>3. CASE UNCHANGED <<runs, outputs, audit>>
            BY <3>3 DEF Inv, Trail
        <3> QED
            BY <3>1, <3>2, <3>3
    <2>5. CallTyped' /\ Executions'
        BY <1>1, <2>1, <2>2, StepsKeepExecutions DEF Inv
    <2>6. ServedIsStored' /\ (served \subseteq RunIds \X Calls)'
        BY <1>1, <2>1, <2>2, StepsKeepServed DEF Inv
    <2>7. ReaderTyped' /\ ReaderHolds'
        BY <1>1, <2>1, <2>2, StepsKeepReader DEF Inv
    <2>8. ComparedTyped' /\ ComparedExist'
        BY <1>1, <2>1, <2>2, StepsKeepCompared DEF Inv
    <2>9. (pager \in Pager)' /\ Walk' /\ PagesOrdered' /\ PagesCover'
        <3>1. Walk /\ PagesOrdered /\ PagesCover
            BY DEF Inv
        <3>2. Pager' = Pager
            BY DEF Pager, RunIds
        <3> QED
            BY <1>1, <2>1, <2>2, <3>1, <3>2, StepsKeepWalk
    <2>10. (client \in Clients)' /\ (clock \in 0..MaxClock)'
        BY <1>1, <2>1, StepsKeepClock DEF Clients
    <2>11. TypeOK'
        BY <2>2, <2>3, <2>5, <2>6, <2>7, <2>8, <2>9, <2>10
           DEF TypeOK, RowsTyped, CallTyped, ReaderTyped, Pager, ComparedTyped
    <2> QED
        BY <2>2, <2>4, <2>5, <2>6, <2>7, <2>8, <2>9, <2>11 DEF Inv
<1>2. CASE UNCHANGED vars
    <2>1. TypeOK'
        <3>1. /\ client \in Clients /\ rls \in Deployments
              /\ RowsTyped /\ CallTyped /\ ReaderTyped /\ pager \in Pager
              /\ served \subseteq RunIds \X Calls /\ ComparedTyped /\ clock \in 0..MaxClock
            BY TypeParts DEF Inv
        <3>2. RowsTyped'
            BY <1>2, <3>1 DEF RowsTyped, vars
        <3>3. CallTyped' /\ ReaderTyped' /\ ComparedTyped'
            BY <1>2, <3>1 DEF CallTyped, ReaderTyped, ComparedTyped, vars
        <3>4. /\ (client \in Clients)' /\ (rls \in Deployments)' /\ (pager \in Pager)'
              /\ (served \subseteq RunIds \X Calls)' /\ (clock \in 0..MaxClock)'
            BY <1>2, <3>1 DEF vars, Pager
        <3> QED
            BY <3>2, <3>3, <3>4
               DEF TypeOK, RowsTyped, CallTyped, ReaderTyped, Pager, ComparedTyped
    <2>2. Executions' /\ Fresh' /\ CompletionIsWhole' /\ ServedIsStored' /\ ReaderHolds'
          /\ ComparedExist'
        BY <1>2 DEF Inv, Executions, Fresh, CompletionIsWhole, ServedIsStored, ReaderHolds,
                    ComparedExist, vars
    <2>3. Trail'
        BY <1>2 DEF Inv, Trail, vars
    <2>4. Walk' /\ PagesOrdered' /\ PagesCover'
        BY <1>2 DEF Inv, Walk, PagesOrdered, PagesCover, Listed, Before, AfterCursor, PlainSession,
                    scoped_select, tenant_isolation_policy, vars
    <2> QED
        BY <2>1, <2>2, <2>3, <2>4 DEF Inv
<1> QED
    BY <1>1, <1>2

LEMMA InvHolds == Spec => []Inv
BY InitInv, NextInv, PTL DEF Spec

(* A run is completed exactly when its outputs are stored, for the report  *)
(* it names, through lost commits, retries and crashes (_persist_success   *)
(* and _record_failure).                                                   *)
THEOREM CompletionsAreWhole == Spec => []CompletionIsWhole
<1>1. Inv => CompletionIsWhole
    BY DEF Inv
<1> QED
    BY <1>1, InvHolds, PTL

(* However many executions and readers a run has, they are all given the   *)
(* same certificate (_authoritative_completed_result).                     *)
THEOREM CertificatesAreUnique == Spec => []OneCertificatePerRun
<1>1. Inv => OneCertificatePerRun
    <2> SUFFICES ASSUME Inv, NEW s \in served, NEW t \in served, s[1] = t[1] PROVE s = t
        BY DEF OneCertificatePerRun
    <2>1. s \in RunIds \X Calls /\ t \in RunIds \X Calls
        BY DEF Inv, TypeOK
    <2>2. s[2] = t[2]
        BY DEF Inv, ServedIsStored
    <2> QED
        BY <2>1, <2>2
<1> QED
    BY <1>1, InvHolds, PTL

(* A reader that found the run completed holds its result and certificate  *)
(* although it read the three at different times                           *)
(* (AgentEvidenceSnapshot.load).                                           *)
THEOREM SnapshotsAreCoherent == Spec => []SnapshotCoherent
<1>1. Inv => SnapshotCoherent
    BY DEF Inv, ReaderHolds, SnapshotCoherent
<1> QED
    BY <1>1, InvHolds, PTL

(* What is read, listed or compared is of the caller's own organisation,   *)
(* with and without the database's policy (scoped_select).                 *)
THEOREM TenantsAreIsolated == Spec => []TenantIsolation
<1>1. Inv => TenantIsolation
    BY DEF Inv, ReaderHolds, Walk, ComparedExist, TenantIsolation
<1> QED
    BY <1>1, InvHolds, PTL

(* A walk over pages of any size lists every row that stays, once, in      *)
(* order, whatever is created and deleted meanwhile (list_runs_cursor).    *)
THEOREM PagesAreComplete == Spec => []PagesCoverRuns
<1>1. Inv => PagesCoverRuns
    BY DEF Inv, PagesOrdered, PagesCover, Listed, PagesCoverRuns
<1> QED
    BY <1>1, InvHolds, PTL

(* The audit trail of every run tells the state of its row                 *)
(* (append_audit_event in the transactions of run.py and service.py).      *)
THEOREM AuditTrailsTellState == Spec => []AuditTellsState
<1>1. Inv => AuditTellsState
    <2> SUFFICES ASSUME Inv, NEW r \in DOMAIN runs
                 PROVE  /\ runs[r].status = "completed" <=> Recorded(r, "run.completed") = 1
                        /\ runs[r].status = "failed" <=> Recorded(r, "run.failed") > 0
                        /\ runs[r].deleted <=> Last(audit[r]) = "run.deleted"
                        /\ runs[r].hold <=> \E i \in HoldEvents(r) :
                                               /\ audit[r][i] = "run.legal_hold_placed"
                                               /\ \A j \in HoldEvents(r) : j <= i
                        /\ ~(runs[r].hold /\ runs[r].deleted)
        BY DEF AuditTellsState
    <2>1. RowsTyped /\ TellsRow(audit[r], runs[r])
        BY TypeParts DEF Inv, Trail
    <2>2. audit[r] \in Seq(AuditEvent)
        BY <2>1, RowFacts
    <2> DEFINE done == Positions(audit[r], "run.completed")
               failed == Positions(audit[r], "run.failed")
    <2>3. Recorded(r, "run.completed") = Cardinality(done)
          /\ Recorded(r, "run.failed") = Cardinality(failed)
        BY DEF Recorded, Positions
    <2>4. IsFiniteSet(done) /\ IsFiniteSet(failed)
        <3>1. DOMAIN audit[r] = 1..Len(audit[r]) /\ Len(audit[r]) \in Int
            BY <2>2
        <3>2. IsFiniteSet(DOMAIN audit[r])
            BY <3>1, FS_Interval
        <3>3. done \in SUBSET DOMAIN audit[r] /\ failed \in SUBSET DOMAIN audit[r]
            BY DEF Positions
        <3> QED
            BY <3>2, <3>3, FS_Subset
    <2> HIDE DEF done, failed
    <2>5. runs[r].status = "completed" <=> Cardinality(done) = 1
        <3>1. runs[r].status = "completed" => \E i : done = {i}
            BY <2>1 DEF TellsRow, done
        <3>2. runs[r].status # "completed" => done = {}
            BY <2>1 DEF TellsRow, done
        <3>3. Cardinality(done) = 1 <=> \E i : done = {i}
            BY <2>4, FS_Singleton
        <3> QED
            BY <3>1, <3>2, <3>3
    <2>6. runs[r].status = "failed" <=> Cardinality(failed) > 0
        <3>1. runs[r].status = "failed" <=> failed # {}
            BY <2>1 DEF TellsRow, failed
        <3>2. Cardinality(failed) \in Nat /\ (Cardinality(failed) = 0 <=> failed = {})
            BY <2>4, FS_EmptySet, FS_CardinalityType
        <3> QED
            BY <3>1, <3>2
    <2>7. HoldEvents(r) = HoldPositions(audit[r])
        BY DEF HoldEvents, HoldPositions
    <2> QED
        BY <2>1, <2>3, <2>5, <2>6, <2>7 DEF TellsRow
<1> QED
    BY <1>1, InvHolds, PTL
=============================================================================
