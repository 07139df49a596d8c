---------------------------- MODULE WebApiProofs ----------------------------
(***************************************************************************)
(* Theorems about what the web layer does with a request: Submission, for  *)
(* any number of requests, keys, hashes and expiries, and AdmissionSlots,  *)
(* for any number of requests and permits.                                 *)
(***************************************************************************)
EXTENDS Submission, AdmissionSlots, FiniteSetTheorems, TLAPS

(***************************************************************************)
(* AdmissionSlots.  The bound on executing workers follows from two facts  *)
(* that are inductive together: permits balance, and a worker executes     *)
(* exactly while its slot is running.                                      *)
(***************************************************************************)

\* A thread exists only once the request has been admitted.
ThreadAdmitted ==
    \A r \in Calls : /\ handler[r] = "new" => slot[r] = "none" /\ thread[r] = "none"
                     /\ handler[r] = "reading" => thread[r] = "none"

\* Type of the variables, the semaphore being any number: its bound is a consequence.
SlotsShape ==
    /\ semaphore \in Nat
    /\ slot \in [Calls -> {"none", "held", "running", "freed"}]
    /\ handler \in [Calls -> {"new", "reading", "waiting", "raised", "unwinding",
                              "done"}]
    /\ thread \in [Calls -> {"none", "queued", "started", "executing", "ended"}]

SlotsInv == SlotsShape /\ ThreadAdmitted /\ WorkerOwnsSlot /\ PermitsBalance

\* The owned slots are a finite set.
LEMMA OwnedFinite == IsFiniteSet(Owned) /\ Cardinality(Owned) \in Nat
  <1>1. Owned \subseteq Calls
    BY DEF Owned
  <1>2. IsFiniteSet(Owned)
    BY <1>1, SlotsAssumption, FS_Subset
  <1> QED
    BY <1>2, FS_CardinalityType

\* Giving a slot back takes one request out of Owned and puts one permit back.
LEMMA ReleaseBalances ==
    ASSUME SlotsInv, NEW r \in Calls, slot[r] \in {"held", "running"},
           slot' = [slot EXCEPT ![r] = "freed"], semaphore' = semaphore + 1
    PROVE  semaphore' \in Nat /\ PermitsBalance'
  <1>1. r \in Owned /\ Owned' = Owned \ {r}
    BY DEF SlotsInv, SlotsShape, Owned
  <1>2. Cardinality(Owned') = Cardinality(Owned) - 1
    BY <1>1, OwnedFinite, FS_RemoveElement
  <1>3. semaphore \in Nat /\ Slots \in Nat
    BY SlotsAssumption DEF SlotsInv, SlotsShape
  <1> QED
    BY <1>2, <1>3, OwnedFinite DEF SlotsInv, PermitsBalance

\* release_if_held keeps the balance, and touches no slot that is running.
LEMMA ReleaseIfHeld ==
    ASSUME SlotsInv, NEW r \in Calls, release_if_held(r)
    PROVE  /\ semaphore' \in Nat
           /\ slot' \in [Calls -> {"none", "held", "running", "freed"}]
           /\ PermitsBalance'
           /\ \A q \in Calls : slot'[q] = "running" <=> slot[q] = "running"
           /\ \A q \in Calls : slot'[q] = "none" <=> slot[q] = "none"
  <1>1. CASE slot[r] = "held"
    BY <1>1, ReleaseBalances DEF release_if_held, SlotsInv, SlotsShape
  <1>2. CASE slot[r] # "held"
    BY <1>2 DEF release_if_held, SlotsInv, SlotsShape, PermitsBalance, Owned
  <1> QED
    BY <1>1, <1>2

\* Initially every permit is in the semaphore.
LEMMA SlotsInitInv == SlotsInit => SlotsInv
  <1> SUFFICES ASSUME SlotsInit
               PROVE  SlotsInv
    OBVIOUS
  <1>1. Owned = {}
    BY DEF SlotsInit, Owned
  <1>2. Cardinality(Owned) = 0
    BY <1>1, FS_EmptySet
  <1> QED
    BY <1>2, SlotsAssumption
    DEF SlotsInit, SlotsInv, SlotsShape, ThreadAdmitted, WorkerOwnsSlot, PermitsBalance

\* Every step of the event loop and of the worker threads keeps SlotsInv.
LEMMA SlotsNextInv == SlotsInv /\ [SlotsNext]_slotVars => SlotsInv'
  <1> SUFFICES ASSUME SlotsInv, [SlotsNext]_slotVars
               PROVE  SlotsInv'
    OBVIOUS
  <1> USE DEF SlotsInv, SlotsShape, ThreadAdmitted, WorkerOwnsSlot, Move
  <1>same. ASSUME UNCHANGED <<semaphore, slot>> PROVE PermitsBalance'
    BY <1>same DEF PermitsBalance, Owned
  <1>1. ASSUME NEW r \in Calls, Admit(r) PROVE SlotsInv'
    <2>1. r \notin Owned /\ Owned' = Owned \cup {r}
      BY <1>1 DEF Admit, Owned
    <2>2. Cardinality(Owned') = Cardinality(Owned) + 1
      BY <2>1, OwnedFinite, FS_AddElement
    <2>3. semaphore' = semaphore - 1 /\ semaphore' \in Nat
      BY <1>1 DEF Admit
    <2>4. PermitsBalance'
      BY <2>2, <2>3, OwnedFinite, SlotsAssumption DEF PermitsBalance
    <2> QED
      BY <1>1, <2>3, <2>4 DEF Admit
  <1>2. ASSUME NEW r \in Calls, Refuse(r) \/ ReadRaises(r) \/ WorkerReturns(r) \/ GiveUp(r)
        PROVE  SlotsInv'
    BY <1>2, <1>same DEF Refuse, ReadRaises, WorkerReturns, GiveUp
  <1>3. ASSUME NEW r \in Calls, Offload(r) \/ StartThread(r) \/ DropThread(r)
        PROVE  SlotsInv'
    BY <1>3, <1>same DEF Offload, StartThread, DropThread
  <1>4. ASSUME NEW r \in Calls,
               HandlerReleases(r) \/ MiddlewareCancelled(r) \/ MiddlewareReleases(r)
        PROVE  SlotsInv'
    <2>1. release_if_held(r) /\ thread' = thread
      BY <1>4 DEF HandlerReleases, MiddlewareCancelled, MiddlewareReleases
    <2>2. PICK l \in {"raised", "unwinding", "done"} : handler' = [handler EXCEPT ![r] = l]
      BY <1>4 DEF HandlerReleases, MiddlewareCancelled, MiddlewareReleases
    <2>3. /\ semaphore' \in Nat
          /\ slot' \in [Calls -> {"none", "held", "running", "freed"}]
          /\ PermitsBalance'
          /\ \A q \in Calls : slot'[q] = "running" <=> slot[q] = "running"
          /\ \A q \in Calls : slot'[q] = "none" <=> slot[q] = "none"
      BY <2>1, ReleaseIfHeld
    <2>4. SlotsShape' /\ WorkerOwnsSlot'
      BY <2>1, <2>2, <2>3
    <2>5. ThreadAdmitted'
      <3> SUFFICES ASSUME NEW q \in Calls, handler'[q] \in {"new", "reading"}
                   PROVE  handler[q] = handler'[q] /\ thread'[q] = thread[q]
                          /\ (slot'[q] = "none" <=> slot[q] = "none")
        OBVIOUS
      <3> QED
        BY <2>1, <2>2, <2>3
    <2> QED
      BY <2>3, <2>4, <2>5
  <1>5. ASSUME NEW r \in Calls, TakeOver(r) PROVE SlotsInv'
    <2>1. Owned' = Owned /\ semaphore' = semaphore
      BY <1>5 DEF TakeOver, mark_running, Owned
    <2>2. PermitsBalance'
      BY <2>1 DEF PermitsBalance
    <2> QED
      BY <1>5, <2>1, <2>2 DEF TakeOver, mark_running
  <1>6. ASSUME NEW r \in Calls, FinishEngine(r) PROVE SlotsInv'
    <2>1. semaphore' \in Nat /\ PermitsBalance'
      BY <1>6, ReleaseBalances DEF FinishEngine, release_from_worker
    <2> QED
      BY <1>6, <2>1 DEF FinishEngine, release_from_worker
  <1>7. CASE UNCHANGED slotVars
    BY <1>7, <1>same DEF slotVars
  <1> HIDE DEF SlotsInv
  <1> QED
    BY <1>1, <1>2, <1>3, <1>4, <1>5, <1>6, <1>7 DEF SlotsNext, HandlerStep, ThreadStep

\* No permit is ever lost, or returned twice, for any number of requests.
THEOREM PermitsAlwaysBalance == SlotsSpec => []PermitsBalance
  <1>1. SlotsInv => PermitsBalance
    BY DEF SlotsInv
  <1> QED
    BY <1>1, SlotsInitInv, SlotsNextInv, PTL DEF SlotsSpec

\* At most Slots workers execute at the same time, however many requests time out or are
\* cancelled while their threads go on.
THEOREM ConcurrencyBound == SlotsSpec => []ExecutingBounded
  <1>1. SlotsInv => ExecutingBounded
    <2> SUFFICES ASSUME SlotsInv
                 PROVE  ExecutingBounded
      OBVIOUS
    <2>1. Executing \subseteq Owned
      BY DEF SlotsInv, WorkerOwnsSlot, Executing, Owned
    <2>2. Cardinality(Executing) <= Cardinality(Owned) /\ IsFiniteSet(Executing)
      BY <2>1, OwnedFinite, FS_Subset
    <2>3. Cardinality(Executing) \in Nat
      BY <2>2, FS_CardinalityType
    <2> QED
      BY <2>2, <2>3, OwnedFinite, SlotsAssumption
      DEF SlotsInv, SlotsShape, PermitsBalance, ExecutingBounded
  <1> QED
    BY <1>1, SlotsInitInv, SlotsNextInv, PTL DEF SlotsSpec

(***************************************************************************)
(* Submission.                                                             *)
(***************************************************************************)

\* A request is past its transaction, however it ended.
Over == {"compensate", "done", "dead"}

\* What the place of a request says of it: it works on a key only if it has one, its
\* inputs are uploaded once it rechecks, an answer and a job come at the end only.
Places ==
    \A r \in Requests :
        /\ pc[r] \in {"check", "read_old", "delete", "insert"} => Keyed(r)
        /\ pc[r] \in {"recheck", "read_old", "delete", "insert", "commit"} => r \in inputs
        /\ answer[r].kind # "none" => pc[r] \in Over
        /\ r \in jobs => pc[r] \in Over
        /\ r \in jobs /\ pc[r] = "compensate" => answer[r].kind = "error"

\* An uncommitted write of a key belongs to a transaction that has got that far, and no
\* two transactions have one on the same key.
KeyLocks ==
    \A r \in Requests :
        /\ holds[r] # None => Keyed(r)
        /\ holds[r] = "deleted" => pc[r] = "insert"
        /\ holds[r] = "inserted" => pc[r] = "commit"
        /\ pc[r] = "commit" /\ Keyed(r) => holds[r] = "inserted"
        /\ \A q \in Requests \ {r} : key[q] = key[r] /\ holds[q] # None => holds[r] = None

\* A committed record names a committed job of its key.
RecordsNameJobs ==
    \A k \in Keys : record[k] # None => record[k] \in jobs /\ key[record[k]] = k

\* Whoever has deleted or replaced the row of a key, or is about to delete the row it
\* has read, leaves no live record behind.
NoLiveRecord ==
    \A r \in Requests :
        /\ holds[r] = "deleted" => expired[key[r]]
        /\ holds[r] = "inserted" => record[key[r]] = None \/ expired[key[r]]
        /\ pc[r] = "delete" =>
              /\ old[r] \in jobs
              /\ record[key[r]] = old[r] => expired[key[r]]

\* The job of the current lifetime of a key is the one its live record names.
CurrentJob ==
    \A r \in jobs : Keyed(r) =>
        /\ born[r] <= epoch[key[r]]
        /\ born[r] = epoch[key[r]] => record[key[r]] = r /\ ~expired[key[r]]

Inv == /\ TypeOK /\ Places /\ KeyLocks /\ RecordsNameJobs /\ NoLiveRecord /\ CurrentJob
       /\ OneJobPerLifetime /\ AnswersMatch /\ CompensationSparesWinners

\* Initially there is nothing but the keys and payloads of the requests.
LEMMA InitInv == Init => Inv
  <1> SUFFICES ASSUME Init
               PROVE  Inv
    OBVIOUS
  <1>1. TypeOK
    BY BoundAssumption DEF Init, TypeOK, PC, Answers, NoAnswer
  <1>2. Places /\ KeyLocks /\ RecordsNameJobs
    BY DEF Init, NoAnswer, Places, KeyLocks, RecordsNameJobs, None
  <1>3. NoLiveRecord /\ CurrentJob /\ OneJobPerLifetime
    BY DEF Init, NoLiveRecord, CurrentJob, OneJobPerLifetime, None
  <1>4. AnswersMatch /\ CompensationSparesWinners
    BY DEF Init, NoAnswer, AnswersMatch, CompensationSparesWinners
  <1> QED
    BY <1>1, <1>2, <1>3, <1>4 DEF Inv

\* A live record is a committed job of the request's key.
LEMMA LiveRecordIsJob ==
    ASSUME TypeOK, NEW r \in Requests, LiveRecord(r) # None
    PROVE  /\ LiveRecord(r) \in Requests /\ Keyed(r) /\ key[r] \in Keys
           /\ LiveRecord(r) = record[key[r]]
  BY DEF TypeOK, LiveRecord, Keyed

\* What AnswerFrom stores: an answer of r alone, and a replay only for the same payload.
LEMMA AnswerFromStores ==
    ASSUME TypeOK, NEW r \in Requests, NEW j \in Requests, AnswerFrom(r, j)
    PROVE  /\ answer' \in [Requests -> Answers]
           /\ \A q \in Requests \ {r} : answer'[q] = answer[q]
           /\ answer'[r].kind \in {"replay", "conflict"}
           /\ answer'[r].kind = "replay" => answer'[r].job = j /\ hash[j] = hash[r]
  BY DEF TypeOK, AnswerFrom, Tell, Answers

\* What the transaction of r commits has the types of the tables.
LEMMA SubmissionTyped ==
    ASSUME TypeOK, NEW r \in Requests, WriteSubmission(r)
    PROVE  /\ jobs' \subseteq Requests
           /\ holds' \in [Requests -> {None, "deleted", "inserted"}]
           /\ record' \in [Keys -> Requests \cup {None}]
           /\ expired' \in [Keys -> BOOLEAN]
           /\ epoch' \in [Keys -> 0 .. MaxExpiries]
           /\ born' \in [Requests -> 0 .. MaxExpiries]
  <1>1. jobs' \subseteq Requests /\ holds' \in [Requests -> {None, "deleted", "inserted"}]
    BY DEF TypeOK, WriteSubmission
  <1>2. epoch' \in [Keys -> 0 .. MaxExpiries]
    BY DEF TypeOK, WriteSubmission
  <1>3. CASE Keyed(r)
    <2>1. key[r] \in Keys /\ epoch[key[r]] \in 0 .. MaxExpiries
      BY <1>3 DEF TypeOK, Keyed
    <2>2. record' \in [Keys -> Requests \cup {None}]
      BY <1>3 DEF TypeOK, WriteSubmission
    <2>3. expired' \in [Keys -> BOOLEAN]
      BY <1>3 DEF TypeOK, WriteSubmission
    <2>4. born' \in [Requests -> 0 .. MaxExpiries]
      BY <1>3, <2>1 DEF TypeOK, WriteSubmission
    <2> QED
      BY <1>1, <1>2, <2>2, <2>3, <2>4
  <1>4. CASE ~Keyed(r)
    BY <1>1, <1>2, <1>4 DEF TypeOK, WriteSubmission
  <1> QED
    BY <1>3, <1>4

\* Every step keeps the types.
LEMMA TypeStep == TypeOK /\ Places /\ [Next]_vars => TypeOK'
  <1> SUFFICES ASSUME TypeOK, Places, [Next]_vars
               PROVE  TypeOK'
    OBVIOUS
  <1> USE DEF TypeOK, PC, Answers, dbVars, Goto, Tell, Keyed
  <1>1. ASSUME NEW r \in Requests, Receive(r) PROVE TypeOK'
    BY <1>1 DEF Receive
  <1>2. ASSUME NEW r \in Requests, CheckRecord(r) PROVE TypeOK'
    <2>1. CASE LiveRecord(r) = None
      BY <1>2, <2>1 DEF CheckRecord
    <2>2. CASE LiveRecord(r) # None
      BY <1>2, <2>2, LiveRecordIsJob, AnswerFromStores DEF CheckRecord
    <2> QED
      BY <2>1, <2>2
  <1>3. ASSUME NEW r \in Requests, UploadInputs(r) PROVE TypeOK'
    BY <1>3 DEF UploadInputs
  <1>4. ASSUME NEW r \in Requests, RecheckRecord(r) PROVE TypeOK'
    BY SMTT(60), <1>4, LiveRecordIsJob, AnswerFromStores DEF RecheckRecord
  <1>5. ASSUME NEW r \in Requests, ReadOldRecord(r) PROVE TypeOK'
    BY <1>5 DEF ReadOldRecord, Places
  <1>6. ASSUME NEW r \in Requests, DeleteExpired(r) PROVE TypeOK'
    BY <1>6 DEF DeleteExpired
  <1>7. ASSUME NEW r \in Requests, InsertRecord(r) PROVE TypeOK'
    BY <1>7, AnswerFromStores DEF InsertRecord, Places
  <1>8. ASSUME NEW r \in Requests, StepRaises(r) PROVE TypeOK'
    BY <1>8 DEF StepRaises
  <1>9. ASSUME NEW r \in Requests, RequestDies(r) PROVE TypeOK'
    BY <1>9 DEF RequestDies
  <1>10. ASSUME NEW r \in Requests, Commit(r) PROVE TypeOK'
    BY <1>10, SubmissionTyped DEF Commit
  <1>11. ASSUME NEW r \in Requests, CommitUnacknowledged(r) PROVE TypeOK'
    BY <1>11, SubmissionTyped DEF CommitUnacknowledged
  <1>12. ASSUME NEW r \in Requests, Compensate(r, TRUE) \/ Compensate(r, FALSE) PROVE TypeOK'
    BY <1>12 DEF Compensate
  <1>13. ASSUME NEW k \in Keys, RecordExpires(k) PROVE TypeOK'
    BY <1>13, BoundAssumption DEF RecordExpires
  <1>14. CASE UNCHANGED vars
    BY <1>14 DEF vars
  <1> QED
    BY <1>1, <1>2, <1>3, <1>4, <1>5, <1>6, <1>7, <1>8, <1>9, <1>10, <1>11, <1>12, <1>13, <1>14 DEF Next, RequestStep

\* What the database holds stays true of it while no transaction commits.
LEMMA DatabaseKept ==
    ASSUME Inv, UNCHANGED <<key, dbVars>>
    PROVE  RecordsNameJobs' /\ CurrentJob' /\ OneJobPerLifetime'
  BY DEF Inv, dbVars, RecordsNameJobs, CurrentJob, OneJobPerLifetime, Keyed

\* The last job of a key outlives no commit of the same key: its record is gone or has
\* expired when another transaction holds the key.
LEMMA KeyIsFree ==
    ASSUME Inv, NEW r \in Requests, pc[r] = "commit", Keyed(r)
    PROVE  /\ key[r] \in Keys /\ r \notin jobs
           /\ record[key[r]] = None \/ expired[key[r]]
           /\ \A q \in jobs : key[q] = key[r] => born[q] < epoch[key[r]]
  <1>1. key[r] \in Keys /\ r \notin jobs
    BY DEF Inv, TypeOK, Keyed, Places, Over
  <1>2. record[key[r]] = None \/ expired[key[r]]
    BY DEF Inv, KeyLocks, NoLiveRecord
  <1>3. ASSUME NEW q \in jobs, key[q] = key[r] PROVE born[q] < epoch[key[r]]
    <2>1. q \in Requests /\ Keyed(q)
      BY <1>3 DEF Inv, TypeOK, Keyed
    <2>2. born[q] <= epoch[key[r]] /\ born[q] # epoch[key[r]]
      BY <1>2, <1>3, <2>1, NoneAssumption DEF Inv, CurrentJob
    <2>3. born[q] \in Nat /\ epoch[key[r]] \in Nat
      BY <1>1, <2>1, BoundAssumption DEF Inv, TypeOK
    <2> QED
      BY <2>2, <2>3
  <1> QED
    BY <1>1, <1>2, <1>3

\* A commit of run, job and record, acknowledged or not, keeps the database and the locks.
LEMMA CommitKeepsDatabase ==
    ASSUME Inv, NEW r \in Requests, pc[r] = "commit", WriteSubmission(r),
           NEW l \in Over, Goto(r, l), UNCHANGED <<key, hash, old>>
    PROVE  /\ KeyLocks' /\ RecordsNameJobs' /\ NoLiveRecord'
           /\ CurrentJob' /\ OneJobPerLifetime'
  <1> USE DEF Goto, Keyed
  <1>1. KeyLocks'
    BY DEF Inv, TypeOK, KeyLocks, WriteSubmission, Over, None
  <1>2. RecordsNameJobs'
    BY DEF Inv, TypeOK, RecordsNameJobs, WriteSubmission
  <1>3. NoLiveRecord'
    <2> SUFFICES ASSUME NEW q \in Requests
                 PROVE  /\ holds'[q] = "deleted" => expired'[key[q]]
                        /\ holds'[q] = "inserted" => record'[key[q]] = None \/ expired'[key[q]]
                        /\ pc'[q] = "delete" =>
                              /\ old[q] \in jobs'
                              /\ record'[key[q]] = old[q] => expired'[key[q]]
      BY DEF NoLiveRecord
    <2>1. CASE q = r
      BY <2>1 DEF Inv, TypeOK, WriteSubmission, Over, None
    <2>2. CASE q # r /\ (key[q] # key[r] \/ ~Keyed(r))
      BY <2>2 DEF Inv, TypeOK, NoLiveRecord, Places, KeyLocks, WriteSubmission, None
    <2>3. CASE q # r /\ key[q] = key[r] /\ Keyed(r)
      <3>1. holds[r] = "inserted"
        BY <2>3 DEF Inv, KeyLocks
      <3>2. holds[q] = None /\ holds'[q] = None
        BY <2>3, <3>1 DEF Inv, KeyLocks, WriteSubmission, TypeOK, None
      <3>3. r \notin jobs
        BY DEF Inv, Places, Over
      <3>4. pc'[q] = pc[q] /\ jobs' = jobs \cup {r} /\ record'[key[q]] = r
        BY <2>3 DEF WriteSubmission, Inv, TypeOK
      <3> QED
        BY <3>2, <3>3, <3>4 DEF Inv, NoLiveRecord, None
    <2> QED
      BY <2>1, <2>2, <2>3
  <1>4. CASE ~Keyed(r)
    <2>1. CurrentJob' /\ OneJobPerLifetime'
      BY <1>4 DEF Inv, TypeOK, CurrentJob, OneJobPerLifetime, WriteSubmission
    <2> QED
      BY <2>1, <1>1, <1>2, <1>3
  <1>5. CASE Keyed(r)
    <2>1. /\ key[r] \in Keys /\ r \notin jobs
          /\ \A q \in jobs : key[q] = key[r] => born[q] < epoch[key[r]]
      BY <1>5, KeyIsFree
    <2>2. /\ jobs' = jobs \cup {r} /\ epoch' = epoch
          /\ record' = [record EXCEPT ![key[r]] = r]
          /\ expired' = [expired EXCEPT ![key[r]] = FALSE]
          /\ born' = [born EXCEPT ![r] = epoch[key[r]]]
      BY <1>5 DEF WriteSubmission
    <2>3. /\ born'[r] = epoch[key[r]] /\ record'[key[r]] = r /\ ~expired'[key[r]]
          /\ \A q \in jobs : q # r /\ born'[q] = born[q]
      BY <2>1, <2>2 DEF Inv, TypeOK
    <2>4. epoch[key[r]] \in Nat /\ \A q \in jobs : born[q] \in Nat
      BY <2>1, BoundAssumption DEF Inv, TypeOK
    <2>5. CurrentJob'
      <3> SUFFICES ASSUME NEW q \in jobs', key[q] # NoKey
                   PROVE  /\ born'[q] <= epoch[key[q]]
                          /\ born'[q] = epoch[key[q]] => record'[key[q]] = q /\ ~expired'[key[q]]
        BY <2>2 DEF CurrentJob
      <3>1. CASE q = r
        BY <3>1, <2>3, <2>4
      <3>2. CASE q \in jobs /\ key[q] = key[r]
        BY <3>2, <2>1, <2>3, <2>4
      <3>3. CASE q \in jobs /\ key[q] # key[r]
        BY <3>3, <2>1, <2>2, <2>3 DEF Inv, TypeOK, CurrentJob
      <3> QED
        BY <3>1, <3>2, <3>3, <2>2
    <2>6. OneJobPerLifetime'
      <3> SUFFICES ASSUME NEW p \in jobs', NEW q \in jobs', key[p] # NoKey,
                          key[p] = key[q], born'[p] = born'[q]
                   PROVE  p = q
        BY DEF OneJobPerLifetime
      <3>1. CASE p \in jobs /\ q \in jobs
        BY <3>1, <2>3 DEF Inv, OneJobPerLifetime
      <3>2. CASE p = r /\ q \in jobs
        BY <3>2, <2>1, <2>3, <2>4
      <3>3. CASE q = r /\ p \in jobs
        BY <3>3, <2>1, <2>3, <2>4
      <3> QED
        BY <3>1, <3>2, <3>3, <2>2
    <2> QED
      BY <1>1, <1>2, <1>3, <2>5, <2>6
  <1> QED
    BY <1>4, <1>5

\* Answering a request that has no job from a committed job of its key.
LEMMA AnsweredFromRecord ==
    ASSUME Inv, NEW r \in Requests, r \notin jobs, NEW j \in jobs, key[j] = key[r],
           AnswerFrom(r, j), UNCHANGED <<key, hash, jobs, inputs>>
    PROVE  AnswersMatch' /\ CompensationSparesWinners'
  <1>1. j \in Requests /\ TypeOK
    BY DEF Inv, TypeOK
  <1>2. /\ \A q \in Requests \ {r} : answer'[q] = answer[q]
        /\ answer'[r].kind \in {"replay", "conflict"}
        /\ answer'[r].kind = "replay" => answer'[r].job = j /\ hash[j] = hash[r]
    BY <1>1, AnswerFromStores
  <1> QED
    BY <1>1, <1>2 DEF Inv, TypeOK, AnswersMatch, CompensationSparesWinners

\* Every step of a request, and every expiry, keeps Inv.
LEMMA NextInv == Inv /\ [Next]_vars => Inv'
  <1> SUFFICES ASSUME Inv, [Next]_vars
               PROVE  Inv'
    OBVIOUS
  <1>inv. /\ TypeOK /\ Places /\ KeyLocks /\ RecordsNameJobs /\ NoLiveRecord /\ CurrentJob
          /\ OneJobPerLifetime /\ AnswersMatch /\ CompensationSparesWinners
    BY DEF Inv
  <1>type. TypeOK'
    BY TypeStep, <1>inv
  <1> USE <1>inv DEF TypeOK, dbVars, Goto, Keyed, None
  <1>1. ASSUME NEW r \in Requests, Receive(r) PROVE Inv'
    <2> USE DEF Receive
    <2>1. RecordsNameJobs' /\ CurrentJob' /\ OneJobPerLifetime'
      BY <1>1, DatabaseKept
    <2>2. Places'
      BY <1>1 DEF Places, Over
    <2>3. KeyLocks'
      BY <1>1 DEF KeyLocks, Places
    <2>4. NoLiveRecord'
      BY <1>1 DEF NoLiveRecord, KeyLocks, Places
    <2>5. AnswersMatch' /\ CompensationSparesWinners'
      BY <1>1 DEF AnswersMatch, CompensationSparesWinners, Places, Over
    <2> QED
      BY <1>type, <2>1, <2>2, <2>3, <2>4, <2>5 DEF Inv
  <1>2. ASSUME NEW r \in Requests, CheckRecord(r) PROVE Inv'
    <2> USE DEF CheckRecord
    <2>1. RecordsNameJobs' /\ CurrentJob' /\ OneJobPerLifetime'
      BY <1>2, DatabaseKept
    <2>2. Places'
      BY <1>2, LiveRecordIsJob, AnswerFromStores DEF Places, Over
    <2>3. KeyLocks'
      BY <1>2 DEF KeyLocks, Places
    <2>4. NoLiveRecord'
      BY <1>2 DEF NoLiveRecord, KeyLocks, Places
    <2>5. AnswersMatch' /\ CompensationSparesWinners'
      <3>1. CASE LiveRecord(r) = None
        BY <1>2, <3>1 DEF AnswersMatch, CompensationSparesWinners
      <3>2. CASE LiveRecord(r) # None
        <4>1. /\ r \notin jobs /\ LiveRecord(r) \in jobs /\ key[LiveRecord(r)] = key[r]
              /\ AnswerFrom(r, LiveRecord(r))
          BY <1>2, <3>2, LiveRecordIsJob DEF RecordsNameJobs, Places, Over
        <4> QED
          BY <1>2, <4>1, AnsweredFromRecord
      <3> QED
        BY <3>1, <3>2
    <2> QED
      BY <1>type, <2>1, <2>2, <2>3, <2>4, <2>5 DEF Inv
  <1>3. ASSUME NEW r \in Requests, UploadInputs(r) PROVE Inv'
    <2> USE DEF UploadInputs
    <2>1. RecordsNameJobs' /\ CurrentJob' /\ OneJobPerLifetime'
      BY <1>3, DatabaseKept
    <2>2. Places'
      BY <1>3 DEF Places, Over
    <2>3. KeyLocks'
      BY <1>3 DEF KeyLocks, Places
    <2>4. NoLiveRecord'
      BY <1>3 DEF NoLiveRecord, KeyLocks, Places
    <2>5. AnswersMatch' /\ CompensationSparesWinners'
      BY <1>3 DEF AnswersMatch, CompensationSparesWinners, Places, Over
    <2> QED
      BY <1>type, <2>1, <2>2, <2>3, <2>4, <2>5 DEF Inv
  <1>4. ASSUME NEW r \in Requests, RecheckRecord(r) PROVE Inv'
    <2> USE DEF RecheckRecord
    <2>1. RecordsNameJobs' /\ CurrentJob' /\ OneJobPerLifetime'
      BY <1>4, DatabaseKept
    <2>2. Places'
      BY <1>4, LiveRecordIsJob, AnswerFromStores DEF Places, Over
    <2>3. KeyLocks'
      BY <1>4 DEF KeyLocks, Places
    <2>4. NoLiveRecord'
      BY <1>4 DEF NoLiveRecord, KeyLocks, Places
    <2>5. AnswersMatch' /\ CompensationSparesWinners'
      <3>1. CASE LiveRecord(r) = None
        BY <1>4, <3>1 DEF AnswersMatch, CompensationSparesWinners
      <3>2. CASE LiveRecord(r) # None
        <4>1. /\ r \notin jobs /\ LiveRecord(r) \in jobs /\ key[LiveRecord(r)] = key[r]
              /\ AnswerFrom(r, LiveRecord(r))
          BY <1>4, <3>2, LiveRecordIsJob DEF RecordsNameJobs, Places, Over
        <4> QED
          BY <1>4, <4>1, AnsweredFromRecord
      <3> QED
        BY <3>1, <3>2
    <2> QED
      BY <1>type, <2>1, <2>2, <2>3, <2>4, <2>5 DEF Inv
  <1>5. ASSUME NEW r \in Requests, ReadOldRecord(r) PROVE Inv'
    <2> USE DEF ReadOldRecord
    <2>1. RecordsNameJobs' /\ CurrentJob' /\ OneJobPerLifetime'
      BY <1>5, DatabaseKept
    <2>2. Places'
      BY <1>5 DEF Places, Over
    <2>3. KeyLocks'
      BY <1>5 DEF KeyLocks, Places
    <2>4. NoLiveRecord'
      BY <1>5 DEF NoLiveRecord, KeyLocks, Places, RecordsNameJobs
    <2>5. AnswersMatch' /\ CompensationSparesWinners'
      BY <1>5 DEF AnswersMatch, CompensationSparesWinners, Places, Over
    <2> QED
      BY <1>type, <2>1, <2>2, <2>3, <2>4, <2>5 DEF Inv
  <1>6. ASSUME NEW r \in Requests, DeleteExpired(r) PROVE Inv'
    <2> USE DEF DeleteExpired, Blocked
    <2>1. RecordsNameJobs' /\ CurrentJob' /\ OneJobPerLifetime'
      BY <1>6, DatabaseKept
    <2>2. Places'
      BY <1>6 DEF Places, Over
    <2>3. KeyLocks'
      BY <1>6 DEF KeyLocks, Places
    <2>4. NoLiveRecord'
      BY <1>6 DEF NoLiveRecord, KeyLocks, Places
    <2>5. AnswersMatch' /\ CompensationSparesWinners'
      BY <1>6 DEF AnswersMatch, CompensationSparesWinners, Places, Over
    <2> QED
      BY <1>type, <2>1, <2>2, <2>3, <2>4, <2>5 DEF Inv
  <1>7. ASSUME NEW r \in Requests, InsertRecord(r) PROVE Inv'
    <2> USE DEF InsertRecord, Blocked
    <2>1. RecordsNameJobs' /\ CurrentJob' /\ OneJobPerLifetime'
      BY <1>7, DatabaseKept
    <2>2. Places'
      BY <1>7, AnswerFromStores DEF Places, Over
    <2>3. KeyLocks'
      BY <1>7 DEF KeyLocks, Places
    <2>4. NoLiveRecord'
      BY <1>7 DEF NoLiveRecord, KeyLocks, Places
    <2>5. AnswersMatch' /\ CompensationSparesWinners'
      <3>1. CASE record[key[r]] = None \/ holds[r] = "deleted"
        BY <1>7, <3>1 DEF AnswersMatch, CompensationSparesWinners
      <3>2. CASE ~(record[key[r]] = None \/ holds[r] = "deleted")
        <4>1. /\ r \notin jobs /\ record[key[r]] \in jobs /\ key[record[key[r]]] = key[r]
              /\ AnswerFrom(r, record[key[r]])
          BY <1>7, <3>2 DEF RecordsNameJobs, Places, Over
        <4> QED
          BY <1>7, <4>1, AnsweredFromRecord
      <3> QED
        BY <3>1, <3>2
    <2> QED
      BY <1>type, <2>1, <2>2, <2>3, <2>4, <2>5 DEF Inv
  <1>8. ASSUME NEW r \in Requests, StepRaises(r) PROVE Inv'
    <2> USE DEF StepRaises, Tell
    <2>1. RecordsNameJobs' /\ CurrentJob' /\ OneJobPerLifetime'
      BY <1>8, DatabaseKept
    <2>2. Places'
      BY <1>8 DEF Places, Over
    <2>3. KeyLocks'
      BY <1>8 DEF KeyLocks, Places
    <2>4. NoLiveRecord'
      BY <1>8 DEF NoLiveRecord, KeyLocks, Places
    <2>5. AnswersMatch' /\ CompensationSparesWinners'
      BY <1>8 DEF AnswersMatch, CompensationSparesWinners, Places, Over
    <2> QED
      BY <1>type, <2>1, <2>2, <2>3, <2>4, <2>5 DEF Inv
  <1>9. ASSUME NEW r \in Requests, RequestDies(r) PROVE Inv'
    <2> USE DEF RequestDies
    <2>1. RecordsNameJobs' /\ CurrentJob' /\ OneJobPerLifetime'
      BY <1>9, DatabaseKept
    <2>2. Places'
      BY <1>9 DEF Places, Over
    <2>3. KeyLocks'
      BY <1>9 DEF KeyLocks, Places
    <2>4. NoLiveRecord'
      BY <1>9 DEF NoLiveRecord, KeyLocks, Places
    <2>5. AnswersMatch' /\ CompensationSparesWinners'
      BY <1>9 DEF AnswersMatch, CompensationSparesWinners, Places, Over
    <2> QED
      BY <1>type, <2>1, <2>2, <2>3, <2>4, <2>5 DEF Inv
  <1>10. ASSUME NEW r \in Requests, Compensate(r, TRUE) \/ Compensate(r, FALSE) PROVE Inv'
    <2> USE DEF Compensate
    <2>1. RecordsNameJobs' /\ CurrentJob' /\ OneJobPerLifetime'
      BY <1>10, DatabaseKept
    <2>2. Places'
      BY <1>10 DEF Places, Over
    <2>3. KeyLocks'
      BY <1>10 DEF KeyLocks, Places
    <2>4. NoLiveRecord'
      BY <1>10 DEF NoLiveRecord, KeyLocks, Places
    <2>5. AnswersMatch' /\ CompensationSparesWinners'
      BY <1>10 DEF AnswersMatch, CompensationSparesWinners, Places, Over
    <2> QED
      BY <1>type, <2>1, <2>2, <2>3, <2>4, <2>5 DEF Inv
  <1>11. ASSUME NEW r \in Requests, Commit(r) PROVE Inv'
    <2>1. KeyLocks' /\ RecordsNameJobs' /\ NoLiveRecord' /\ CurrentJob' /\ OneJobPerLifetime'
      BY <1>11, CommitKeepsDatabase DEF Commit, Over
    <2>2. Places'
      BY <1>11 DEF Commit, WriteSubmission, Tell, Places, Over
    <2>3. AnswersMatch' /\ CompensationSparesWinners'
      BY <1>11 DEF Commit, WriteSubmission, Tell, AnswersMatch, CompensationSparesWinners, Places, Over
    <2> QED
      BY <1>type, <2>1, <2>2, <2>3 DEF Inv
  <1>12. ASSUME NEW r \in Requests, CommitUnacknowledged(r) PROVE Inv'
    <2>1. KeyLocks' /\ RecordsNameJobs' /\ NoLiveRecord' /\ CurrentJob' /\ OneJobPerLifetime'
      BY <1>12, CommitKeepsDatabase DEF CommitUnacknowledged, Over
    <2>2. Places'
      BY <1>12 DEF CommitUnacknowledged, WriteSubmission, Tell, Places, Over
    <2>3. AnswersMatch' /\ CompensationSparesWinners'
      BY <1>12 DEF CommitUnacknowledged, WriteSubmission, Tell, AnswersMatch,
                   CompensationSparesWinners, Places, Over
    <2> QED
      BY <1>type, <2>1, <2>2, <2>3 DEF Inv
  <1>13. ASSUME NEW k \in Keys, RecordExpires(k) PROVE Inv'
    <2> USE DEF RecordExpires
    <2>1. Places' /\ KeyLocks' /\ RecordsNameJobs' /\ AnswersMatch' /\ CompensationSparesWinners'
      BY <1>13 DEF Places, KeyLocks, RecordsNameJobs, AnswersMatch, CompensationSparesWinners
    <2>2. NoLiveRecord'
      BY <1>13 DEF NoLiveRecord
    <2>3. \A r \in jobs : born[r] \in Nat /\ epoch[k] \in Nat
      BY BoundAssumption
    <2>4. CurrentJob'
      BY <1>13, <2>3 DEF CurrentJob
    <2>5. OneJobPerLifetime'
      BY <1>13 DEF OneJobPerLifetime
    <2> QED
      BY <1>type, <2>1, <2>2, <2>4, <2>5 DEF Inv
  <1>14. CASE UNCHANGED vars
    <2>1. Places' /\ KeyLocks' /\ NoLiveRecord'
      BY <1>14 DEF vars, Places, KeyLocks, NoLiveRecord
    <2>2. RecordsNameJobs' /\ CurrentJob' /\ OneJobPerLifetime'
      BY <1>14, DatabaseKept DEF vars
    <2>3. AnswersMatch' /\ CompensationSparesWinners'
      BY <1>14 DEF vars, AnswersMatch, CompensationSparesWinners
    <2> QED
      BY <1>type, <2>1, <2>2, <2>3 DEF Inv
  <1> HIDE <1>inv
  <1> QED
    BY <1>1, <1>2, <1>3, <1>4, <1>5, <1>6, <1>7, <1>8, <1>9, <1>10, <1>11, <1>12, <1>13,
       <1>14 DEF Next, RequestStep

\* At most one job per key and lifetime of its record, for any number of requests that
\* pass both lookups together.
THEOREM IdempotentSubmission == Spec => []OneJobPerLifetime
  <1>1. Inv => OneJobPerLifetime
    BY DEF Inv
  <1> QED
    BY <1>1, InitInv, NextInv, PTL DEF Spec

\* Every 202 names a committed job of the same payload and key, and the loser of a race
\* has no job, whatever commits, fails, dies or expires meanwhile.
THEOREM AnswersNameJobs == Spec => []AnswersMatch
  <1>1. Inv => AnswersMatch
    BY DEF Inv
  <1> QED
    BY <1>1, InitInv, NextInv, PTL DEF Spec

\* Compensation deletes the inputs of no job whose submission was not answered with an
\* error.
THEOREM WinnersKeepInputs == Spec => []CompensationSparesWinners
  <1>1. Inv => CompensationSparesWinners
    BY DEF Inv
  <1> QED
    BY <1>1, InitInv, NextInv, PTL DEF Spec

\* The uncommitted writes of one key exclude each other, and nobody who holds the key
\* leaves a live record behind: the reason the three theorems above hold.
THEOREM KeysAreExclusive == Spec => [](KeyLocks /\ NoLiveRecord)
  <1>1. Inv => KeyLocks /\ NoLiveRecord
    BY DEF Inv
  <1> QED
    BY <1>1, InitInv, NextInv, PTL DEF Spec
=============================================================================
