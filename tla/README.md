# TLA+ models of untangle

untangle reconciles bank credits with payment-gateway settlements and an order
ledger. Around a deterministic engine it has a durable asynchronous job queue on
PostgreSQL and an object store, an idempotent submission API, a web layer with
bounded concurrency, OIDC login with server-side sessions, and a multi-tenant control
plane. This directory holds the TLA+ models of its concurrent parts and of its engine,
from the evidence on a bank line to the certificate of a close, the TLC configurations
that check them, and TLAPS proofs. `PROJECT.json` maps every definition to the lines it
models.

Run a model with `tlc -config <name>.cfg <MC module>` and check proofs with
`tlapm <name>Proofs.tla`; the section Proofs says which module holds which.

## Inventory

| Component | State | Operations | What is hard | What makes it correct |
|---|---|---|---|---|
| Job rows (`migrations/0001`, `0003`, `repositories/job.py`, `run.py`) | `reconciliation_jobs`, `reconciliation_runs`, CHECK constraints | `fn_job_claim_next`, `heartbeat`, `check_cancellation`, `transition_stage`, `fail`, `cancel_ack`; completion and cancellation statements | every writer addresses the same row; constraints are the last guard | no update is ever refused for its row; terminal rows are final |
| Worker (`persistence/worker.py`) | attempt token, lease generation, heartbeat flag, promoted keys | claim, revalidate, ingest, reconcile, stage, promote, check, complete, fail, clean up | leases expire under a running attempt; commits without acknowledgement; crashes anywhere; cleanup after losing | results published once, by the leaseholder; cleanup deletes nothing committed; every job ends |
| Cancellation (`repositories/job.py`, `tenant_routes.py`) | `is_cancelled`, two unlocked reads | request, acknowledge | reads and the flush are far apart | a cancellation in time is not lost; a completed job is not cancelled |
| Submission (`persistence/service.py`, `idempotency.py`, `uow.py`) | idempotency records, uploaded objects | look up, upload, insert, commit, compensate | racing equal keys, expiry, uncertain commits | one job per key and record lifetime; compensation only for losers |
| Admission (`webapp/app.py`) | semaphore, `_ReconciliationSlot` | admit, offload, take over, release | thread outlives its request; two finally clauses | at most 2 engines run; no permit lost or doubled |
| Control plane (`migrations/0002`, `auth/service.py`, `auth/sessions.py`) | memberships with `auth_version`, sessions, invitations | create, switch, logout, mutate, invite, accept, revoke | READ COMMITTED functions that check, then write | always an active owner; no session outlives its authority |
| Second dialect (`auth/service.py`, `auth/sessions.py`) | the same rows on SQLite | the same calls in Python | two copies of every rule, of which the tests run one | both answer alike |
| OIDC login (`auth/oidc.py`, `webapp/auth_routes.py`) | one-shot flows, state cookie, accounts | start, callback, purge | replay, crossed callbacks, concurrent first sign-ins, slow provider | a flow signs in once, in its own browser; one account per subject |
| Web sessions (`auth/sessions.py`, `webapp/middleware.py`) | session rows with two timers, cookies | look up, touch, switch, logout | rotation against logout; late writes around a timeout | a logged-out token is dead; an ended session stays ended |
| Synchronous runs (`persistence/service.py`, `repositories/run.py`) | run rows, outputs, audit trail | execute, fail, hold, delete, list, compare | failure recording races completion; retries; reads of several statements; paging; row-level security | one authoritative outcome and certificate; complete pages; tenants apart |
| Reconciliation (`engine/reconcile.py`, `bounded_subsets.py`, `exceptions.py`) | `used_sids`, results, sets of flagged lines | UTR pass, amount pass with two subset-sum searches, classification, reason codes | limits that switch searches; two orders at once; flags of one pass read by the next | no settlement covered twice; UTR ties win; a match by amount is unique; every credit accounted for once |
| Attribution (`engine/evidence.py`, `attribute.py`, `challenger.py`, `solver.py`, `abstain.py`, `rules.py`) | none (pure) | evidence, set sums, splits, challenge, global assignment, rules | step budgets, near ties, several explanations of one sum | Razorpay only on proof; optimal; abstains unless unique |
| Close (`engine/covered.py`, `feegst.py`, `journal.py`, `proof.py`, `ledger.py`, `investigate.py`, `recovery.py`, `cli.py`, `certificate.py`, `verifier.py`, `audit.py`) | the report, the audit chain | vouchers, proofs, ledger comparison, corrections, recovery plan, certificate | repeated keys, two tax conventions, signs, merging, changed reports | the books agree; corrections close the variance; nothing counted twice; a certificate stands for its report only |
| Storage backends, ingestion, MCP server, pages, generator, evaluation | files | I/O, parsing, formatting | - | - |

How they interact: the API submits (uploads to the store, then one transaction creates
run, job and idempotency record); workers poll the job table, execute, write artifacts
to the store and publish in one transaction; the API cancels by writing the job row;
before an attempt starts the worker asks the control plane's tables whether the
creator is still entitled. The public demo endpoints bypass the queue and run the
engine in threads under admission slots. Inside the engine, attribution hands the Razorpay
slice to `reconcile`, whose results and flagged lines become the exception list.

## Modules

| Module | Models |
|---|---|
| `JobTable` | job and run rows, CHECK constraints, each SQL function as the row it leaves |
| `JobQueue` | workers, heartbeats, leases, object store, cancelling clients over `JobTable` |
| `JobLifecycle` | abstract specification: what a caller polling a job is promised |
| `Submission` | `submit_reconciliation_job` and idempotency records |
| `AdmissionSlots` | the semaphore and the slot hand-over of the web layer |
| `Access` | memberships, sessions, invitations of one organisation |
| `Dialects` | every control-plane call as PostgreSQL and as the SQLite fallback run it, over `Access` |
| `OidcLogin` | login flows, callbacks, accounts |
| `WebSession` | session rows with timers, cookies, requests in flight |
| `TenantRuns` | synchronous runs, audit trail, readers, paging, row-level security |
| `BoundedSubsets` | the two subset-sum searches, as operators |
| `Reconcile` | `reconcile` and `build_exceptions` over `BoundedSubsets` |
| `Evidence`, `Solver`, `Attribution` | evidence and scoring; the global solver; the attribution pipeline |
| `Books`, `Recovery`, `CloseReport` | over `Reconcile`: vouchers, GST and proofs; corrections and recovery plan; report, certificate, verification |
| `MC*` | the instances TLC checks (symmetry sets, canonical initial states, batches) |
| `*Proofs` | theorems and TLAPS proofs |

Definitions that start with `Fault` are deliberate bugs: each replaces the definition
it precedes to show that a property notices. They are in no specification.

### JobTable and JobQueue

A row is a record; a timestamp is "NOT NULL or not", except `lease_expires_at`, which
is null, live or expired. One action is one database transaction or one store call.

* `ClaimNextJob` claims any eligible row: `FOR UPDATE SKIP LOCKED` passes over rows
  other transactions hold. The random attempt token is a fresh number.
* The completion transaction is one step with three outcomes: `Complete`,
  `CompleteUnacknowledged` (the COMMIT took effect, the worker sees an exception) and
  `CompleteRollsBack`. It takes the run row's lock before the statements that decide.
* Cancellation is two unlocked reads and one flush (`autoflush=False`, so nothing is
  written earlier); the flush updates by primary key and PostgreSQL's CHECK
  constraints decide whether it goes through.
* Final artifact keys depend on the run and the content only, and the engine is
  deterministic, so all attempts of a job share them. Staging of the three artifacts is
  one step, promotion is one step per artifact.
* `StepRaises`, `HeartbeatRaises`, `FailJobRaises`, `LookupRaises`, `WorkerCrash` and
  the `deleted = FALSE` variants are the error paths.
* `RoleIdExists` says whether `organisation_memberships` has the column that
  `fn_job_revalidate_creator` joins on. The migrations do not create it (Known gaps, 3).
  The runs set it TRUE, so that what follows revalidation can be studied (the SQLite
  branch of `revalidate_job_creator` behaves so); with FALSE the queue only has
  behaviours it has with TRUE as well, because `StepRaises` already allows revalidation
  to raise. The proofs hold for both.
* Not modelled: `hb_thread.join(timeout=5)` giving up on a heartbeat in flight, the
  SQLite emulation of the SQL functions, clock skew between application and database.

`JobLifecycle` knows only the phase, the attempts and the results of a job. The
refinement mapping reads them off the job row; the results are named by the lease
generation that published them.

### Submission

A request creates at most one job, so it names it. `holds[r]` is the uncommitted write
a transaction has on its key; a statement on the same unique key waits (`Blocked`).
`epoch` and `born` are history variables for the property about record lifetimes.
The insert and the lookup of the winner after a unique violation are one step: the
record cannot expire and be replaced between the two statements.

### AdmissionSlots

The methods of `_ReconciliationSlot` run under its lock and are one step each. Leaving
`asyncio.wait_for` does not stop a thread: it may be dropped from the executor's queue,
or start, or go on. `MiddlewareCancelled` lets the middleware's finally clause run
first. The definitions carry a prefix (`SlotsInit`, `SlotsNext`, ...), so that one proof
module covers this module and `Submission`.

### Access

The SECURITY DEFINER functions run at READ COMMITTED. A function whose decision can be
overtaken is split between read and write (switch, membership change, acceptance);
creating and revoking invitations commute with everything in between and are single
steps. Membership changes and acceptances hold the organisation row from their checks
on. `MutateWrite` fixes the sessions the UPDATE sees and locks; a session that switches
to the organisation afterwards is not among them and is caught by `auth_version`.
One organisation; principals stay active; timeouts of sessions are revocations that
nobody has to perform, and are left out. A call with a superseded token matches no row
and has no effect, so it has no action. `operator` stands for all roles below admin.
The count of active owners never refuses anything the other checks let through: only
another active owner may change an owner. What keeps the last owner is the mutex, and
`AlwaysAnOwner` fails without it.

### Dialects

`DialectsAgree` is evaluated in every state of `Access` in which no call is in progress,
including those only a race on PostgreSQL reaches. There a session can be stale without
being revoked; the SQLite copies of the rules do not notice (they compare no
`auth_version`), and it is the middleware's lookup that makes up for it: without
`is_stale` in the middleware the property fails. Concurrent calls on SQLite are not
modelled, nor the audit events, which differ.

### OidcLogin

A callback is one transaction, from the UPDATE that consumes the state to the commit;
what it writes is visible to nobody before. Waiting for another transaction's row is
`RowFree` and its like. The provider's answer is any of: refused, lost, a token that does
not verify, a token for whoever authenticated. `ExchangeRefused` commits (the consumed
state stays consumed), every other failure rolls back, so that a replay may succeed
after it, but never after a sign-in. Keys and signatures are abstracted to the verdict.

### WebSession

One principal, whose membership does not change (that is `Access`). `NOW()` is the time a
transaction began, so a touch admitted before the idle timeout may write after it:
`EndedStaysEnded` says exactly how far this goes. Answers reach the browsers in any order,
or not at all. A token is a natural number and `issued` the last one handed out, so every
token is new; only the run bounds how many there are.

### TenantRuns

Execution has the three phases of `execute_reconciliation`; the commit of the last may
take effect without being acknowledged. `outputs` is the result, certificate and artifact
rows, which one transaction writes. `rls` says whether the database role is bound by the
forced policies (PostgreSQL) or not (SQLite, or a role with BYPASSRLS). The properties
hold for both, and `OwnRunFound` fails with it (Findings, 2). One client beside the
executions reads, lists or compares: none of the three writes what another one reads.
`Before` is the order of the listing (newest first, then by id) and `FirstRows` its
`ORDER BY ... LIMIT`; a page is the set of its rows, which the order arranges in one way
only.

### Evidence, Solver and Attribution

A narration is what the signals find in it; weights are exact thousandths, where the code
has floats rounded to four digits. The pipeline runs for each margin on one statement,
one step for a line and one for a component the solver takes up.
The solver's search is the recursion of the code over its ordering of candidates, with
the step counter. `Visit` is the body of `search`, `Try` one turn of its loop and `TryAll`
the loop, a recursive function over the candidates tried so far. `search` itself is a
recursive function of the depth: level k answers the calls with fewer than k credits
unassigned, and a call of the code only ever calls one with fewer. What the search should
find is defined independently (`ValidAssignments`, `TotalCost`). A component is a smallest
set of credits that no shared settlement leaves (`Closed`, `Components`), where the code
merges sets until nothing changes; `todo` holds the components not solved yet.

### Books, Recovery and CloseReport

Amounts are paise and small but real (a payment of 10000, a fee of 236, 36 of it tax). A
digest is modelled by what it is taken of. `CloseReport` closes the same batch on the web
path (with the challenger) and on the command line (without), issues the certificate and
presents it with reports that were changed, swapped or stripped. A settlement that
`find_legacy_subsets` covers twice (Known gaps, 5) does not reach the books: the covered
rows then contain an id twice and the close fails as a whole (`FailClosed`). Left out: the
evidence-pack and older-schema branches of the verifier, the comparison with a recon
export (`verify_report` supplies none), `resolve_delta` and `diagnose`.

Sums in the books are `Total` over a finite set of positions or lines, lists the code sorts
are `Sorted` sets, the audit chain is a recursive function of its length (`Chain`), and so
is the merging of the windows of an export request (`MergeWindows`).
`ClosesAssumption` says what a close is given: `CloseInput` (the net of a settlement is that
of its rows; a line attributed to Razorpay is a credit and no abstention). The second holds
of the deterministic tiers. The optional model tier (`engine/llm/narrate.py`) does not look
at the sign of a line it confirms, and is outside the model.

### BoundedSubsets and Reconcile

A batch is one input of `build_report`: nets, dates, order of the report, amounts, UTR
ties and attributions. Identities are numbers because the code compares ids as strings
and positions in the report independently. A covering tuple is a function from
settlements to multiplicities, since the code adds up a tuple with its repetitions.
`find_bounded_subsets` is given in closed form: the combinations it examines are ordered
by size and then by the first place in which they differ, and the budget is compared
with the place of the combination at which the loop stops. Pass 1 is one step (its
claims are independent of each other), pass 2 one step per credit.
`PositionsAssumption`: the report lists no two settlements at one place.

With the limits of the code the budget is never spent: 16 candidates have 6,884
combinations of up to five, and 100,000 are allowed. `un_enumerable_lines` is therefore
always empty in practice; the run keeps that proportion, the proofs allow any limits.
Narration parsing, row identities and the order of the results are left out.

## Runs

| Run | Instance | Shows |
|---|---|---|
| `queue` | 1 job, 2 workers, 1 client, 2 attempts, 1 artifact, fair; 243,158 states | `PublishedByHolder`, `OwnCommitSurvives`, `TerminalIsFinal`, `CancellationHolds`, refinement of `JobLifecycle`, `Settles` |
| `queue_artifacts` | the same | counterexample to `CommittedArtifactsStored` |
| `submission` | 3 requests, 1 key or none, 2 payloads, 1 expiry, fair; 149,319 states | `OneJobPerLifetime`, `AnswersMatch`, `CompensationSparesWinners`, `RequestsEnd` |
| `admission` | 3 requests, 2 slots, fair; 16,022 states | `ExecutingBounded`, `PermitReturned` |
| `access` | 2 users, 2 sessions, 1 invitation, 2 calls; 580,013 states | `AlwaysAnOwner`, `UsableMeansCurrent`, `InvitationOutcomeFinal`, `DialectsAgree` |
| `reconcile` | 27,894 batches, 5 settlements, 3 credits; 195,258 states | `OneCreditPerSettlement`, `UniqueWhenClaimed`, `AccountedOnce` |
| `login` | 2 browsers, 2 flows, 2 subjects, 2 callbacks, fair; 256,000 states | `FlowSignsInOnce`, `SessionForItsBrowser`, `OneAccountPerSubject`, `CallbackEnds` |
| `web_session` | 2 browsers, 2 sessions, 2 requests, 4 ticks; 1,142,201 states | `LoggedOutTokenDead`, `EndedStaysEnded` |
| `tenant_runs` | 2 organisations, 2 executions, 2 runs, both deployments; 483,213 states | `AuditTellsState`, `CompletionIsWhole`, `OneCertificatePerRun`, `SnapshotCoherent`, `TenantIsolation`, `PagesCoverRuns` |
| `tenant_runs_found` | row-level security enforced | counterexample to `OwnRunFound` |
| `attribution` | statements of 3 lines out of 14 kinds, 3 settlements; 109,760 states | `ProofGate`, `SolverOptimal`, `NearTiesAbstain`, `CutAbstains`, `SplitsUnambiguous` |
| `close_report` | 4 settlement reports, 3 bank lines, 2 settlements; 194,322 states | `BooksAgree`, `CorrectionsCloseVariance`, `PlanCountsOnce`, `CertificateStands` |

Bounds. Jobs share no state except workers and tokens, so one job suffices for the
properties per job; the proofs cover any number. Two workers and two attempts give a
stale attempt beside its successor; artifacts are promoted one by one in the same way, so
one suffices for a promotion that is overtaken. Three
requests give a winner, a loser and one that arrives after an expiry. Three requests on
two slots reach exhaustion with a thread left behind. In the batches, pools of up to 3
candidates are searched exhaustively, 4 by amount and 5 not at all (16, 200 and more in
the code); nets 1, 2, 4 and amounts to 6 make pairs, triples, ties of both and double
uses. `MaxVersion = 3` admits two changes of one membership, `MaxToken = 3` two switches
of one session. Two callbacks with two flows and subjects replay, cross and race for one
account; a flow lives one tick of two, so callbacks meet it before and after its expiry
and its purge. Idle and absolute timeouts of 2 and 3 ticks put the idle limit on both
sides of the absolute one. Two runs and pages of one put a page boundary between any two
runs. The step budget of 3 cuts the solver's search, 10,000 does not. `MAX_ACTIONS = 2`
caps recovery plans; the limit of the exhaustive set-sum search is 1 in `close_report`, so
that the search by amount runs as well. Deadlock checking is off: a system with all jobs ended, all requests
answered or its counters at their bounds rightly stops.

Fairness. `JobQueue`: a live worker keeps executing (`WorkerStep`, weak fairness per
worker), somebody keeps polling for each eligible job, and a lease nobody renews
expires. None for heartbeats, faults, crashes or clients. `Submission`: a received
request is executed until it ends or its process dies. `AdmissionSlots`: the event loop
and the executor run, reading and waiting are limited by timeouts, the engine
terminates. `OidcLogin`: a callback takes its next step (its statements run, and the HTTP
client's timeout ends a silent provider). The other modules need none.

## Findings

1. `queue_artifacts`: cleanup reads the owners in one transaction and deletes after it
   (`worker.py:487-504`). A stale attempt can delete the artifact its successor has just
   committed.
2. `tenant_runs_found`: the reading routes of `tenant_routes.py` open a session without
   the unit of work, so `app.current_tenant_id` is not set; under the forced policies of
   migration 0001 they find nothing and answer 404.

### Known gaps

What the models show beside the runs; each is visible in a definition.

1. On PostgreSQL `fn_job_fail` and `fn_job_cancel_ack` leave the run `initiated`
   (`PublishedByHolder` lists the run states that occur); a test docstring and the SQLite
   branch say the run is closed too.
2. A worker that dies in the last permitted attempt leaves the job running on an expired
   lease, and a flagged job that is requeued is claimed by nobody: `Stranded`, the
   exception in `Settles`. `ARCHITECTURE.md` says expired leases are reclaimed.
3. `fn_job_revalidate_creator` joins on `m.role_id`, a column no migration creates: every
   attempt raises on PostgreSQL (`RoleIdExists`).
4. A submission whose commit took effect and then raised is compensated like a rollback:
   the queued job has no inputs (the `error` disjunct of `CompensationSparesWinners`).
5. `find_legacy_subsets` compares its third term with the second only
   (`bounded_subsets.py:70`), so the third can be the first again when the report does not
   list settlements by id. Requiring the third id to exceed both others finds the same
   subsets without it. The close then fails as a whole.
6. Two first sign-ins of different subjects with one email may pass the collision check
   of `fn_auth_resolve_federated_identity` together and leave two accounts with one email.
7. A logout that a switch overtakes matches no row: its token is dead
   (`LoggedOutTokenDead`), but the session lives on under the rotated token.
8. With a margin, the global solver may call a line Razorpay that it leaves open without
   one: a demoted competitor frees its settlement.
9. A payment row with a repeated key can be reported as an amount conflict with the order
   ledger; `mdr_fee_drift` can draft a voucher of zero; an exact UTR with a competing
   keyword has margin 0, and the certificate of the web path does not verify then.
10. The SQLite fallback of `switch_organisation` writes no audit event.

## Proofs

For all values of the constants that satisfy the named ASSUMEs:

* `JobQueueProofs`: `TypeCorrect`, `RowsAlwaysPassChecks`, `FencedPublication`,
  `OutcomesAreFinal`, `QueueImplementsLifecycle`. `LocalInv` (types, and that a worker or
  client in the middle of a call names a real job and a real token) is inductive by
  itself. `StepChangesOneJob` shows that every step leaves the rows of at most one job
  changed, by one of six row steps (claimed, renewed, failed, acknowledged, completed,
  cancelled), so everything else is proved on a single pair of rows. The published
  attempt agrees with the row only because an unfinished row has no `error_code` and its
  lease generation equals its attempt count (`RowsAgree`): neither `PublishedByHolder` nor
  the CHECK constraints is inductive without it. `OwnCommitsSurviveCleanup` and
  `CancellationsHold` are about workers and clients in the middle of a call.
  The first adds `AttemptTokens` (tokens of busy workers are issued and distinct, and what
  is published carries an issued token): a worker that reads its own token in the row can
  only have written it itself, however many attempts came between. The second needs no
  such invariant: only a claim issues a lease, and a claim passes over a row that is
  flagged, so the completion that could overtake a cancellation was checked before it.
* `WebApiProofs`, on `Submission`: `IdempotentSubmission`, `AnswersNameJobs`, `WinnersKeepInputs`,
  `KeysAreExclusive`. Two requests with one key go their ways until they write; what keeps
  them to one job is the unique key. `KeyLocks` says that at most one open transaction has
  a write on a key, `NoLiveRecord` that whoever has one leaves no live record under it, and
  `CurrentJob` ties the job of a lifetime to the record that names it. `OneJobPerLifetime`
  is inductive only together with all three; a recheck alone would not give it, because the
  record it saw may be gone or new by the time of the insert.
* `WebApiProofs`, on `AdmissionSlots`: `PermitsAlwaysBalance`, `ConcurrencyBound`. The invariant adds
  that a thread executes exactly while its slot is `running`; the bound follows because
  executing requests are among the owners of permits.
* `AccessProofs`: `OwnerForever`, `ChangesCommitOnChecks`, `SessionsAreCurrent`,
  `RevocationIsFinal`, `InvitationsSettleOnce`. The invariant adds `Locals` (a membership
  change past its checks holds the mutex, so there is at most one), `Invited` and `Grants`
  (a session, or a switch in progress, carries no version the membership has not
  reached, and the role of that version). `DialectsAgreeAlways` compares the two copies
  of each rule call by call. It needs the types and `Addressed` (an invitation has an
  address exactly when its row exists): the Python copies recognise a missing row by the
  one, the SQL functions by the other.
* `OidcLoginProofs`: `FlowsAreOneUse`, `SessionsStayHome`, `AccountsAreUnique`. `RowLocks`:
  an open callback transaction holds a flow that is pending, alone, so of two replays the
  second waits and finds it consumed. `Jars` and `Callers` follow a flow from the cookie to
  the sign-in. `Resolutions`: a callback about to commit found its identity or inserted
  one that neither a committed row nor another open transaction has.
* `WebSessionProofs`: `LogoutIsFinal`, `EndedSessionsStayEnded`. Rows are found by token
  at one time and written at another, when the token may have been rotated. Tokens are
  issued once (`TokensIssued`, `TokensUnique`), so a request can reach no row but the one
  its lookup found (`BoundToSession`). The second theorem shows that of all steps only a
  touch and a switch that began before the row's last limit bring an ended row back, and
  never a revoked one.
* `TenantRunsProofs`: `CompletionsAreWhole`, `CertificatesAreUnique`,
  `SnapshotsAreCoherent`, `TenantsAreIsolated`, `PagesAreComplete`, `AuditTrailsTellState`.
  `RowsOnlyAdvance` is the lemma under all of them: no step moves a run to another
  organisation or time, undoes a deletion, or touches a completed run's outputs. What a
  reader, a pager or a comparison has seen therefore stays true (`ReaderHolds`,
  `ComparedExist`, `Walk`) and only its own steps remain. `Walk` is the invariant of
  paging: rows of the start that were not listed lie after the cursor or were deleted.
  `Trail` restates the audit property over positions of events, which an append
  extends by one.
* `ReconcileProofs`, on `Reconcile`: `TypeCorrect`, `NoDoubleCover`, `UtrFirst`,
  `ResidualsAreReal`, `CreditsAccountedOnce`, `ClaimsAreUnique`, for any report, credits,
  drift tolerance and search limits. Each search returns tuples of its candidates, hence
  of unused settlements. The invariant `IInv` adds that `used_sids` has all that is covered,
  that credits sharing a tie stay set aside (`SharedTiesAside`), that only credits already
  looked at are ambiguous, and that resolved credits carry no flag. That a reported
  residual is real needs all of them: not set aside, so sole claimant; not resolved, so
  not proven; so out of tolerance. `ClaimsAreUnique` says of both searches that one
  answer means one subset.
* `ReconcileProofs`, on `CloseReport`: `BooksAgreeAlways`, `CorrectionsHold`,
  `PlansCountOnce`, `CertificatesStand`. `CloseInv` adds to `IInv` that the stage of the
  close follows the phase of the matching, that report and issued envelopes are what
  `build_report` and `issue` make of the results as they are now (`ReportIsCurrent`,
  `IssuedIsCurrent`), and that an envelope presented is put together from parts of issued
  ones and of changed reports, an audit file from entries of the chain. The four
  properties then follow from the definitions of the books. For the certificate: the
  content hash binds the report, the signature binds the hash, and the chain's root binds
  every entry before it, so no mixture of two issues is accepted. For the plan: grouping
  assigns each line to one action, and dropping actions can only lose lines.
* `AttributionProofs`, for any statement, settlements and budgets:
  `SolverFindsTheBest`, `NoRivalWithinMargin`, `OutOfBudgetAbstains`,
  `SplitsHaveOneReading`, `SettlementsAreTied`.
  The first part is about the search alone. A call that completes leaves a best cost that
  no valid completion of its choices undercuts (`SearchCompletes`), by induction on the
  depth, and inside a call by induction on the candidates tried (`AllTurns`). Pruning is
  safe because the first two parts of a cost are never negative (`PruningIsSafe`);
  a bound on all five would not do, for evidence makes the fourth negative.
  Then from one component to the whole: components have no credit and no settlement in
  common and cover every credit (`ComponentsApart`, `ComponentsCover`), so an assignment is
  valid when its parts are, and costs add. `SolveInv` keeps this for the components solved
  so far, including which settlements they consumed.
  `SplitInv` adds to its property that no line carries a split reconstruction before the
  splits are searched, so that every leg found afterwards comes from that search.
  `GateInv` says that a line with the Razorpay rail is tied to the report, and each step
  that can give the rail is shown to find such a tie: evidence, set sums, splits, the
  solver. Only the solver needs a strengthening: each of its candidates stays tied from the
  moment the graph is built until the solution is applied (`EdgesTied`).

What induction these proofs need (sums over finite sets, chains, depth of a search) is done
on sets: `NaturalsIn` and `SubsetsIn` take the set of values for which a fact holds and
derive, from the well-foundedness of `<`, that it is everything.

Model-checked only: liveness (`Settles`, `RequestsEnd`, `PermitReturned`, `CallbackEnds`),
which is outside the prover. Every other property of a passing run is a theorem. The
properties of the two findings do not hold.

## Not modelled

Parsing and formatting, storage clients, cryptography (signatures, JWKS rotation,
password-free tokens are what they are taken of), the rate and body limits, concurrent
calls on SQLite, purges of sessions and security events, the generator, the evaluation
harness, the MCP server's tool layer and the command line's argument handling. The object
store and the identity provider are external and appear as the calls made to them.

## Plan

1. Done: job queue, submission, admission, control plane in both dialects, login, web
   sessions, tenant runs, and the engine from evidence to certificate.
2. Done: theorems for every safety property of the passing runs, action properties and the
   refinement of `JobLifecycle` included.
3. Next: the evidence-pack and older-schema branches of the verifier, `resolve_delta` and
   `diagnose` in `CloseReport`; purges of sessions and security events beside `WebSession`;
   the tools of the MCP server as one more client of `TenantRuns`.
