----------------------------- MODULE Submission -----------------------------
(***************************************************************************)
(* submit_reconciliation_job (persistence/service.py) and the idempotency  *)
(* records it relies on (persistence/repositories/idempotency.py): many    *)
(* API requests that may carry the same Idempotency-Key upload their input *)
(* files, then create run, job and record in one transaction, and delete   *)
(* their uploads when they lose or fail.                                   *)
(*                                                                         *)
(* A request creates at most one job, so the request names the job, its    *)
(* run and its uploaded objects (their keys hold a random upload token).   *)
(* Transactions run at READ COMMITTED: a statement sees what is committed  *)
(* when it runs, and one that meets another transaction's uncommitted      *)
(* write of the same unique key waits for that transaction to end.         *)
(***************************************************************************)
EXTENDS Naturals, FiniteSets

CONSTANTS Requests,      \* API requests
          Keys,          \* Idempotency-Key values
          NoKey,         \* the header is absent
          Hashes,        \* request hashes: what compute_request_hash tells apart
          MaxExpiries    \* bound: how often the record of a key may expire

ASSUME NoKeyAssumption == NoKey \notin Keys

ASSUME BoundAssumption == MaxExpiries \in Nat

None == "none"

ASSUME NoneAssumption == None \notin Requests

VARIABLES
    pc,        \* pc[r]: where submit_reconciliation_job is
    key,       \* key[r]: its Idempotency-Key, or NoKey
    hash,      \* hash[r]: its request hash
    answer,    \* answer[r]: what the client is or will be told
    holds,     \* holds[r]: the uncommitted write r's transaction has on its key:
               \*   None, "deleted" (the expired row) or "inserted"
    old,       \* old[r]: the expired row (its job) r's transaction means to delete
    jobs,      \* requests whose run, files and job are committed
    record,    \* record[k]: the committed idempotency row of k: job or None
    expired,   \* expired[k]: that row's expires_at has passed
    inputs,    \* requests whose three input objects are in the store
    epoch,     \* history: epoch[k] counts the expiries of k's record
    born       \* history: born[r] is the epoch of its key in which r's job committed

dbVars == <<jobs, record, expired, epoch, born>>
vars == <<pc, key, hash, answer, holds, old, jobs, record, expired, inputs, epoch, born>>

PC == {"new", "check", "upload", "recheck", "read_old", "delete", "insert",
       "commit", "compensate", "done", "dead"}

NoAnswer == [kind |-> "none", job |-> None]

\* 202 for a new job, the stored 202 with Idempotent-Replay, 409, or 500.
Answers == [kind : {"none", "accepted", "replay", "conflict", "error"},
            job  : Requests \cup {None}]

TypeOK ==
    /\ pc \in [Requests -> PC]
    /\ key \in [Requests -> Keys \cup {NoKey}]
    /\ hash \in [Requests -> Hashes]
    /\ answer \in [Requests -> Answers]
    /\ holds \in [Requests -> {None, "deleted", "inserted"}]
    /\ old \in [Requests -> Requests \cup {None}]
    /\ jobs \subseteq Requests
    /\ record \in [Keys -> Requests \cup {None}]
    /\ expired \in [Keys -> BOOLEAN]
    /\ inputs \subseteq Requests
    /\ epoch \in [Keys -> 0 .. MaxExpiries]
    /\ born \in [Requests -> 0 .. MaxExpiries]

Init ==
    /\ pc = [r \in Requests |-> "new"]
    /\ key \in [Requests -> Keys \cup {NoKey}]
    /\ hash \in [Requests -> Hashes]
    /\ answer = [r \in Requests |-> NoAnswer]
    /\ holds = [r \in Requests |-> None]
    /\ old = [r \in Requests |-> None]
    /\ jobs = {}
    /\ record = [k \in Keys |-> None]
    /\ expired = [k \in Keys |-> FALSE]
    /\ inputs = {}
    /\ epoch = [k \in Keys |-> 0]
    /\ born = [r \in Requests |-> 0]

Goto(r, l) == pc' = [pc EXCEPT ![r] = l]

Tell(r, kind, j) == answer' = [answer EXCEPT ![r] = [kind |-> kind, job |-> j]]

Keyed(r) == key[r] # NoKey

\* get_idempotency_record: the committed record of r's key, unless it has expired.
LiveRecord(r) == IF Keyed(r) /\ ~expired[key[r]] THEN record[key[r]] ELSE None

\* Fault for sensitivity: the stored request hash is not compared.
FaultReplayAnyHash(r, j) == Tell(r, "replay", j)

\* What a stored record means for r: the same request is replayed, another one refused.
AnswerFrom(r, j) == Tell(r, IF hash[j] = hash[r] THEN "replay" ELSE "conflict",
                            IF hash[j] = hash[r] THEN j ELSE None)

\* Faults for sensitivity: no unique constraint makes r wait, or a waiting r also waits
\* for transactions that wait themselves.
FaultNeverBlocked(r) == FALSE

FaultBlockedByWaiters(r) ==
    \E q \in Requests \ {r} :
        key[q] = key[r] /\ pc[q] \in {"read_old", "delete", "insert", "commit"}

\* Another transaction has written r's key and has not ended: r's statement waits.
Blocked(r) == \E q \in Requests \ {r} : key[q] = key[r] /\ holds[q] # None

(***************************************************************************)
(* The request.                                                            *)
(***************************************************************************)
Receive(r) ==
    /\ pc[r] = "new"
    /\ Goto(r, IF Keyed(r) THEN "check" ELSE "upload")
    /\ UNCHANGED <<key, hash, old, answer, holds, dbVars, inputs>>

\* 1. Before any action: answer from the record if there is one.
CheckRecord(r) ==
    /\ pc[r] = "check"
    /\ IF LiveRecord(r) = None
       THEN Goto(r, "upload") /\ UNCHANGED answer
       ELSE Goto(r, "done") /\ AnswerFrom(r, LiveRecord(r))
    /\ UNCHANGED <<key, hash, old, holds, dbVars, inputs>>

\* 2. store_bytes of the three input files.
UploadInputs(r) ==
    /\ pc[r] = "upload"
    /\ inputs' = inputs \cup {r}
    /\ Goto(r, "recheck")
    /\ UNCHANGED <<key, hash, old, answer, holds, dbVars>>

\* 3. Transaction: the record is looked up again, then run, files, audit event and
\* job are inserted (invisible to others until the commit).
RecheckRecord(r) ==
    /\ pc[r] = "recheck"
    /\ IF LiveRecord(r) = None
       THEN Goto(r, IF Keyed(r) THEN "read_old" ELSE "commit") /\ UNCHANGED answer
       ELSE Goto(r, "compensate") /\ AnswerFrom(r, LiveRecord(r))
    /\ UNCHANGED <<key, hash, old, holds, dbVars, inputs>>

\* save_idempotency_record reads the row of the key, expired or not.
ReadOldRecord(r) ==
    /\ pc[r] = "read_old"
    /\ IF record[key[r]] # None /\ expired[key[r]]
       THEN Goto(r, "delete") /\ old' = [old EXCEPT ![r] = record[key[r]]]
       ELSE Goto(r, "insert") /\ UNCHANGED old
    /\ UNCHANGED <<key, hash, answer, holds, dbVars, inputs>>

\* DELETE of the row read as expired, by primary key: no row matches when another
\* request has replaced it in the meantime.
DeleteExpired(r) ==
    /\ pc[r] = "delete"
    /\ ~Blocked(r)
    /\ holds' = [holds EXCEPT ![r] = IF record[key[r]] = old[r]
                                          THEN "deleted" ELSE None]
    /\ Goto(r, "insert")
    /\ UNCHANGED <<key, hash, old, answer, dbVars, inputs>>

\* INSERT in a savepoint.  On a unique violation the committed winner is authoritative:
\* r replays it or is refused, and its transaction is rolled back.
InsertRecord(r) ==
    /\ pc[r] = "insert"
    /\ ~Blocked(r)
    /\ IF record[key[r]] = None \/ holds[r] = "deleted"
       THEN /\ holds' = [holds EXCEPT ![r] = "inserted"]
            /\ Goto(r, "commit")
            /\ UNCHANGED answer
       ELSE /\ AnswerFrom(r, record[key[r]])
            /\ Goto(r, "compensate")
            /\ UNCHANGED holds
    /\ UNCHANGED <<key, hash, old, dbVars, inputs>>

\* The transaction's effects become visible at once.
WriteSubmission(r) ==
    /\ jobs' = jobs \cup {r}
    /\ IF Keyed(r)
       THEN /\ record' = [record EXCEPT ![key[r]] = r]
            /\ expired' = [expired EXCEPT ![key[r]] = FALSE]
            /\ born' = [born EXCEPT ![r] = epoch[key[r]]]
       ELSE UNCHANGED <<record, expired, born>>
    /\ holds' = [holds EXCEPT ![r] = None]
    /\ UNCHANGED epoch

\* Fault for sensitivity: the uploads are deleted in a finally clause, success or not.
FaultCommitCompensates(r) ==
    /\ pc[r] = "commit"
    /\ WriteSubmission(r)
    /\ Tell(r, "accepted", r)
    /\ Goto(r, "compensate")
    /\ UNCHANGED <<key, hash, old, inputs>>

Commit(r) ==
    /\ pc[r] = "commit"
    /\ WriteSubmission(r)
    /\ Tell(r, "accepted", r)
    /\ Goto(r, "done")
    /\ UNCHANGED <<key, hash, old, inputs>>

\* The COMMIT takes effect but raises: the except clause compensates all the same.
CommitUnacknowledged(r) ==
    /\ pc[r] = "commit"
    /\ WriteSubmission(r)
    /\ Tell(r, "error", None)
    /\ Goto(r, "compensate")
    /\ UNCHANGED <<key, hash, old, inputs>>

\* An upload or a statement of the transaction raises: rollback, then compensation.
StepRaises(r) ==
    /\ pc[r] \in {"upload", "recheck", "read_old", "delete", "insert", "commit"}
    /\ holds' = [holds EXCEPT ![r] = None]
    /\ Tell(r, "error", None)
    /\ Goto(r, "compensate")
    /\ UNCHANGED <<key, hash, old, dbVars, inputs>>

\* delete_object of the staged keys, best effort; then the answer is sent.
Compensate(r, deleted) ==
    /\ pc[r] = "compensate"
    /\ inputs' = IF deleted THEN inputs \ {r} ELSE inputs
    /\ Goto(r, "done")
    /\ UNCHANGED <<key, hash, old, answer, holds, dbVars>>

\* The serving process dies: the database rolls its transaction back, uploads stay.
RequestDies(r) ==
    /\ pc[r] \notin {"new", "done", "dead"}
    /\ holds' = [holds EXCEPT ![r] = None]
    /\ Goto(r, "dead")
    /\ UNCHANGED <<key, hash, old, answer, dbVars, inputs>>

\* 24 hours pass.
RecordExpires(k) ==
    /\ record[k] # None
    /\ ~expired[k]
    /\ epoch[k] < MaxExpiries
    /\ expired' = [expired EXCEPT ![k] = TRUE]
    /\ epoch' = [epoch EXCEPT ![k] = @ + 1]
    /\ UNCHANGED <<pc, key, hash, old, answer, holds, jobs, record, inputs, born>>

RequestStep(r) ==
    \/ CheckRecord(r)
    \/ UploadInputs(r)
    \/ RecheckRecord(r)
    \/ ReadOldRecord(r)
    \/ DeleteExpired(r)
    \/ InsertRecord(r)
    \/ Commit(r)
    \/ Compensate(r, TRUE)

Next ==
    \/ \E r \in Requests :
          \/ Receive(r)
          \/ RequestStep(r)
          \/ CommitUnacknowledged(r)
          \/ StepRaises(r)
          \/ Compensate(r, FALSE)
          \/ RequestDies(r)
    \/ \E k \in Keys : RecordExpires(k)

Spec == Init /\ [][Next]_vars

\* A request that has been received is executed to its end unless its process dies.
Fairness == \A r \in Requests : WF_vars(RequestStep(r))

(***************************************************************************)
(* Properties.                                                             *)
(***************************************************************************)

\* At most one job per key and lifetime of its record, however many requests raced
\* past both lookups: two jobs of one key are separated by an expiry.
OneJobPerLifetime ==
    \A r, q \in jobs : Keyed(r) /\ key[r] = key[q] /\ born[r] = born[q] => r = q

\* A 202, new or replayed, names a committed job that was created from the very
\* payload the client sent, under its key; a request told it was accepted has its own
\* job, and the loser of a race has none.
AnswersMatch ==
    \A r \in Requests :
        /\ answer[r].kind = "accepted" => answer[r].job = r
        /\ answer[r].kind \in {"accepted", "replay"} =>
              /\ answer[r].job \in jobs
              /\ hash[answer[r].job] = hash[r]
              /\ key[answer[r].job] = key[r]
        /\ answer[r].kind \in {"replay", "conflict"} => r \notin jobs

\* Compensation is confined to losers and failures: a job whose submission was not
\* answered with an error keeps its input files, whatever other requests of the same
\* key upload, lose and delete.
CompensationSparesWinners == \A r \in jobs : r \in inputs \/ answer[r].kind = "error"

\* Requests waiting for each other's uncommitted key always get through.
RequestsEnd == \A r \in Requests : pc[r] = "check" ~> pc[r] \in {"done", "dead"}
=============================================================================
