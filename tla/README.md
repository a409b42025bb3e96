# Verification of the durable pipeline of AuditorDeFaturas

AuditorDeFaturas receives invoices by e-mail or upload, classifies the mail with
a language model, files it on the IMAP server, selects tariffs for each invoice
and computes what should have been charged. The work is done by worker processes
that take jobs from a PostgreSQL table; everything else is a handler of such a
job or an API route that enqueues one. This directory holds TLA+ models of that
code, TLC configurations that check them on small instances, and proofs that
TLAPS checks for every instance.

## 1. Inventory

| Component | State it keeps | Operations | Interacts with | What makes it correct |
|---|---|---|---|---|
| **Durable job queue** (`repositories/jobs.py`, `models/jobs.py`) | `processing_jobs` rows: status, attempts, `locked_by`, `heartbeat_at`, `available_at`; session advisory locks | enqueue, claim, heartbeat, succeed, fail, recover_stale, execution_guard | every handler and route enqueues; workers claim | one executor per job, attempts bounded, results credited to the right attempt, settled jobs final, every job settles |
| **Worker process** (`worker/main.py`) | the job in hand, the `now` it read, a heartbeat thread, a connection for the guard | run_once, `_renew_lease`, restart | the queue, the handlers | survives crashes, late heartbeats and lost leases |
| **E-mail classification** (`services/`, `repositories/email_classification.py`, `worker/jobs/`, `routes/emails.py`) | `mail_messages`: class, status, locator, `moved_at`, review | classify_and_move, save_classification, mark_moved, mark_movement_error, resolve_manual_review | AI, IMAP, queue, invoice intake, reviewer | a mail is filed where its row says, the answer of the model is used once persisted, an invoice is submitted before the job succeeds, reviews are obeyed |
| **IMAP provider** (`email/imap_provider.py`) | a reusable connection; the mailbox itself | list, get, thread context, ensure_folder, move | mail server | no message is lost by a failed or unknown MOVE |
| **E-mail ingestion** (`services/email_ingestion.py`, `repositories/email.py`) | messages, attachments, stored files | ingest under two sorted advisory locks, reconcile | IMAP, storage, queue | one row per message, no dangling files |
| **Invoice intake** (`services/`, `repositories/invoice_intake.py`, `routes/invoices.py`) | submissions, invoices, files | submit, create_or_get | storage, queue | one submission per key and content, selection job always enqueued |
| **Tariff catalog** (`services/`, `repositories/tariffs.py`) | versions of tariffs and their lineage | upload, new version, update_metadata, delete | storage | one tip per lineage |
| **Tariff selection** (`services/`, `repositories/tariff_selection.py`) | selection runs, pending items | select | AI, catalog, queue | one run per invoice, only tariffs of the catalog |
| **File storage** (`storage/local.py`) | staged and published files with metadata | stage, publish, delete, list | all of the above | published objects are complete or absent |
| **Authentication** (`services/auth.py`) | users, sessions | bootstrap, login, logout | API | one bootstrap administrator, a session stays out once its logout is committed |
| **AI execution and telemetry** (`services/ai.py`, `openai_provider.py`) | calls, price windows | execute, tool loop, add price | classification, selection | bounded tool loop, one effective price |
| **Calculation, thread resolution** (`calculation/`, `thread_resolver.py`) | none | pure functions | | agree with a reference definition |
| **Upload validation, document tools, MIME parsing** (`storage/validation.py`, `documents/`, `mime_parser.py`) | none between calls | checks and readings with limits | storage, AI | limits hold exactly, nothing is lost, what was accepted can be opened |
| Advisory locks, unit of work, configuration, wiring, front end, migrations | none of their own | | | |

What is hard here: several workers interleave on one row; leases expire under
slow handlers; a lock lives on a connection that can break; a crash may fall
between any two commits; an IMAP MOVE may happen and its reply be lost; a
reviewer edits the row a worker is working from; results arrive late; files are
stored before the row that needs them and deleted after the one that does not,
and the reply to a COMMIT may be lost in between; two uploads, submissions or
first visitors race for one name. The list
with the line where each one bites is `hazards` in `PROJECT.json`.

## 2. Modules

```
JobLifecycle   what the queue promises about a job  (abstract)
   ^ implemented by       ^ used as the queue by
JobQueue               EmailClassification
   ^        ^             ^
MCJobQueue  JobQueueProofs  MCEmailClassification

TransactionLocks          TariffCatalog   TariffSelection
   ^            ^              ^             ^
MailIngestion  InvoiceIntake    Tariffs
      ^         ^                 ^
        Intake                 MCTariffs
        ^    v implements
  MCIntake  Ledger  what a door of the system promises  (abstract)
                         ObjectStore  what the storage promises  (abstract)
                              ^ implemented by
   Access  AIExecution  ImapSession  LocalStorage
                      ^
                   Services
                      ^     Operators             Finance
                      ^      ^    ^                  ^
                   MCServices     Calculation  ThreadResolution
                                  DocumentTools  UploadValidation

JobQueueProofs  EmailClassificationProofs  IntakeProofs  TariffsProofs  ServicesProofs
FinanceProofs   LedgerProofs   UploadProofs (of UploadValidation and DocumentTools)
                each other one EXTENDS the module it is named after
```

**JobLifecycle** says what other components may rely on: a job is submitted
once, attempted at most `MaxAttempts` times, executed by one worker at a time,
settled only while it is executed, and taken back only while it is not. A worker
that claimed an attempt may begin late, when the attempt has already been taken
back (`execution_guard` is obtained after `claim`, and nothing re-reads the row).

**JobQueue** is `PostgreSQLJobQueue` with `WorkerRunner.run_once`. A transaction
is one action, because every one of them locks the rows it decides on.

| TLA+ | code |
|---|---|
| `row` | `processing_jobs`, keyed by the idempotency key |
| `guard` | the session advisory lock of `execution_guard`: its holder, `NoWorker`, or `DeadSession`, a connection whose process is gone and which the server has not closed |
| `proc[w].pc, job, ticket` | where `run_once` is, the claimed job, and `job.attempts` as the claim saw it |
| `age`, `wait`, `lag` | `now - heartbeat_at`, `available_at - now`, the age of the `now` that `run_once` read once |
| `StartRun`, `RecoverStale`, `EnqueueDue`, `Claim`/`ClaimNothing` | the first half of `run_once` |
| `AcquireGuard`, `HandlerEnds`, `Succeed`, `Fail`, `LoseLease`, `Release`, `Expel` | the second half |
| `Heartbeat` | `_renew_lease` |
| `Enqueue` | `JobService` and every other enqueue |
| `Crash`, `Restart`, `SessionEnds`, `LoseSession`, `Tick` | the environment |

Abstractions. A heartbeat is always possible and never certain, which covers a
late one and a heartbeat thread that died. Among claimable jobs of equal priority
any may come first (the code orders by `available_at` and `created_at`). The
window number of the scheduler is any member of `TickJobs`. `wait` has type `Int`
in `TypeOK`, not a range: its range follows from `RetryDelay`, whose power of two
the provers cannot bound; `Older` saturates it. A worker keeps its name over a
restart, as a container does (host name and pid). A backend that goes on waiting
for a lock after its client died is not modelled.

**EmailClassification** puts the handler of `email.classify` jobs on top of
JobLifecycle (`Queue == INSTANCE JobLifecycle`): claims, recoveries, the end of
attempts and crashes are its actions, so what the queue promises is all that the
handler gets. A message has two jobs, `email.classify:<id>` and
`email.review.move:<id>:<class>`, and the guard is per job: two workers may work
on one mail.

| TLA+ | code |
|---|---|
| `row` | `mail_messages`: `class`, `status`, `moved` (`moved_at`), `loc` (folder, uidvalidity, uid), `reviewed` |
| `place` | where the mail lies on the IMAP server; each MOVE gives it a new UID |
| `intake` | how far `InvoiceIntakeService.submit` got: nothing, created, selection job enqueued |
| `handler[w]` | where the handler is and the locator and class it works with, which may be outdated |
| `undecided` | messages resolved by `resolve_manual_review` whose job the route has not enqueued |
| `Load` ... `Mark` | `classify_and_move`, one action per transaction or external call |
| `Create`, `Dispatch` | the two commits of `submit` |
| `Raise` | any call of the step fails |
| `Resolve`, `EnqueueMove`, `ApiCrash` | `PATCH /emails/{id}/review` |

Abstractions. The model answers any class; a confidence below the threshold is
the answer `MANUAL_REVIEW`. `DUE_NOTICE` and `GENERAL` behave alike in all of the
code, so `OtherClasses` may have one member. Folders are distinct and named
after the class. Nobody but the application moves mail, UIDVALIDITY does not
change, and the message exists when its classification is enqueued.

**Intake** composes **MailIngestion** and **InvoiceIntake** over the files, the
rows and the advisory locks (**TransactionLocks**) they share: the files of a
mail become the files of the submission made from it, and each of the two
deletes what it believes nobody needs.

| TLA+ | code |
|---|---|
| `mails`, `submissions`, `partners` | committed rows of `mail_messages`, `invoice_submissions` with its invoice, `partners` |
| `files` | objects in the storage |
| `held` | `pg_advisory_xact_lock`: who holds which lock; released with the transaction |
| `classify`, `selection` | enqueued `email.classify` and `invoice.select-tariffs` jobs |
| `job[t]` | an `email.ingest` job: `Fetch`, `Store`, `Lock`, `Find`, `Insert`, `Drop`, `Enqueue`, `Break` |
| `request[c]` | a call of `submit`: `Arrive` or `Import`, `Store`, `Lock`, `Find`, `LockPartner`, `FindPartner`, `Insert`, `Enqueue`, `Drop` |
| `unsure` | contents whose COMMIT was never acknowledged |
| `Refuse`, `Reject`, `Clash`, `LoseTransaction`, `LoseCommit`, `Fail` | the error paths |

Locks are names; `AdvisoryKey` is the hash they are sorted by, any function that
gives the two locks of one transaction different numbers up to `MaxKey`. (The
code sorts a set of hashes, and PostgreSQL knows a lock by its number: of two
names with one hash a single lock is taken, which the model does not have.)
Contents stand for hashes and do not collide. A client makes one request, which
is any of the requests it could make.

**Ledger** is the promise of both: who brings something in is told "created" once
for each key and content, "duplicate" if it is there, "conflict" if the key was
used for something else; and what was created or recognised is handed on before
the answer. Search and insert are one step there, and files, locks and retries do
not exist. Intake has two of them (`ImplementsLedgers`):

| Ledger | `Inbox` | `Register` |
|---|---|---|
| `Askers` | `email.ingest` jobs | clients and imports |
| `Keys`, `Contents` | UIDs, hashes of the raw message | idempotency keys, hashes of the upload |
| `KeyIsName` | yes: `find_duplicate` takes a known UID for the mail | no: a known key with another content is a conflict |
| `entries` | `mails` | `submissions` |
| `handed` | `classify` | `selection` |
| `ask[a]` | from `job[t].pc` and what it found | from `request[c].pc` and what it found |

**Tariffs** composes **TariffCatalog** (the routes under `/api/tariffs`) and
**TariffSelection** (the handler of `invoice.select-tariffs`).

| TLA+ | code |
|---|---|
| `tariffs` | committed rows: group, version, previous, active, deleted |
| `rowLocks` | rows a transaction has locked with FOR UPDATE, or by its flush |
| `request[c]` | `LockTip`, `Store`, `Read`, `Write`, `Commit`, and `Refuse`, `Drop`, `Fail`, `LoseCommit` |
| `handler[w]`, `guard`, `rowLock` | where `select` is, its session lock, the row lock of the invoice |
| `runs`, `pending` | `tariff_selection_runs` and pending items |

READ COMMITTED is kept: a request reads a committed row, and at its flush
SQLAlchemy writes only the attributes that differ from what it read (`Assign`).
The model may choose any set of the tariffs it was offered, or none. The
selection's worker may lose the queue's guard (finding 1) and be joined by a
second one (`TakeOver`). A status in `Endings` is that of the transaction; when the
client is told of it, before or after the commit (see Access below), is left out, and
no property of Tariffs is about it. `update_metadata` never looks at successors, so a
PATCH may make an old version active beside its successor: the model takes that step.

**Services** gathers the parts that share no state with the pipeline or each
other. A behaviour is one of a single part, chosen by `part`: interleaving parts
that do not meet would multiply states and show nothing.

* **LocalStorage** has what the running system sees of a directory (`dir`) and
  what is on the disk for sure (`disk`). `_store` stages, describes, syncs,
  renames and syncs again; `delete` unlinks payload, metadata and directory. A
  process may die between any two; a power failure leaves what was synced and
  any part of what was not. **ObjectStore** is the promise: an object is
  published whole, is durable once `store` returned, and is gone for good once a
  deletion took it. The directory of an area is taken to be on disk, and uuid4
  never to repeat.
* **Access**: bootstrap, login, visits and logouts as transactions, each with its
  commit and its answer as steps of their own, in either order. `get_database`
  commits after its `yield`. The versions of FastAPI that `pyproject.toml` admits
  (`>=0.116,<1.0`) run that before the response up to 0.117 and after it from 0.118
  on, so an `Answer` may precede its commit and the commit may fail after it
  (`RollBack`). Logout revokes the session on the server, as the README of the
  repository says, when that commit succeeds: an answered logout still lets in
  before it, and for as long as the session lasts if it failed. `AccessStaysClosed`
  says exactly that.
* **AIExecution**: `add_price` under the lock of provider and model, the call
  with its tool loop, the price looked up after the answer for the time the call
  started. Prices may be added for past times.
* **ImapSession**: one reader with its connection; the folder may be made anew
  with another UIDVALIDITY, and mails be expunged, between any two commands.
* **Calculation** (which extends **Finance**, the arithmetic about money),
  **ThreadResolution**, **DocumentTools**, **UploadValidation**: operators, each
  with a definition `...Agrees` of what it should give, stated in another way (a
  nearest integer instead of a rounding, the first matches instead of a loop with
  an early return, a difference by the sum that undoes it). `CalculationAgrees` judges
  every operation of the calculator by a relation that shares nothing with `Apply`,
  compares the trace with those of the operands, and says which failure may be
  raised when: only a number of too many digits for `quantize` ends in
  `InvalidOperation`, which is not a `CalculationError`. Files are sequences of what the
  checks tell apart; what a format library says of the bytes is an input. A
  decimal is an integer number of thousandths. Two of them relate components: a
  CSV is read by the tools in the encoding the validator accepted it in, and an
  image it accepted opens.

**Operators** puts one example at a time, a calculation, a thread, a file or a
text, to the operators and asks whether `...Agrees` holds of it.

Services composes the four stateful parts, each with an `Init`, `Next`, an
`Assumption` and an inductive invariant `IInv` of its own, and its theorems are
about that composition. `MCServices` adds Operators as a fifth part for the run.
Calculation declares RECURSIVE operators, so it, Operators and MCServices are for
TLC only; every other module can be proved about.

## 3. Runs

| Run | Question | Result |
|---|---|---|
| `JobQueueSafety` | two workers, a tick and a pipeline job | type correctness, `MutualExclusion`, `ClaimableHasAttemptsLeft`, `ClaimsAreDistinct`, `ActiveHandlerKeepsItsJob`, and the refinement of JobLifecycle hold (about 124 000 states) |
| `JobQueueLossy` | the same, with guard connections that break under a live worker, and one worker without mail handlers | `ClaimsAreDistinct`, `ResultFromCurrentAttempt`, `SettledIsFinal` still hold |
| `JobQueueLiveness` | fairness | `EveryJobSettles`, `WaiterGetsThrough` |
| `JobQueueGuardLost` | broken guard connections | **violates** `MutualExclusion` (finding 1) |
| `EmailFiling` | two workers, a reviewer, one mail with its two jobs | `TypeOK`, `FiledWhereItSays`, `SucceededIsComplete`, `OnlyInvoicesAreSubmitted`, `NoSecondOpinion` hold (about 95 000 states) |
| `EmailLiveness` | fairness, one worker that may crash | `EveryMailIsFiledOrFails` |
| `EmailMoveReplyLost` | the reply of MOVE is lost | **violates** `RecordedErrorIsRetryable` (finding 2) |
| `EmailReviewRace` | a review during a move | **violates** `ReviewedIsFiled` (finding 3) |
| `Intake` | ingestions of mails that share a UID or a content, their import, manual submissions that share a key, a content or a partner, one fault | `TypeOK`, `NoWaitCycle`, `FreshUnderLocks`, `NothingStrays`, `LossNeedsAnUnsureCommit`, `AnswersMatch`, the refinement `ImplementsLedgers` of two Ledgers and, under fairness, `EverythingEnds` hold (about 164 000 states) |
| `IngestionCommitReplyLost` | the reply of COMMIT is lost | **violates** `OriginalsAreKept` (finding 4) |
| `Tariffs` | two catalog requests of any kind, two workers on one selection, two faults | `TypeOK`, `LineagesAreChains`, `BytesSurvive`, `NothingStrays`, `OneVerdict`, `SucceededHasVerdict`, `DeletedIsFinal`, `StaleChoiceNeedsTheWindow` and `EverythingEnds` hold (about 214 000 states) |
| `Services` | the four parts of Services, and Operators | `ServicesTypeOK` with the bound of the tool loop, `CostsStayTrue`, `RightMail`, `OperatorsAgree`, `AccessStaysClosed` and the refinement `ImplementsObjectStore` hold (about 242 000 states) |

What is true only with a qualification is stated with it. `NothingStrays` is for
behaviours without a fault: after a crash files stay behind and nothing collects
them. `LossNeedsAnUnsureCommit` is what is left of `OriginalsAreKept`.
`StaleChoiceNeedsTheWindow` leaves the moment between `save`'s check and its
insert, in which a withdrawal slips through.

### Bounds

* `Workers`: two. Every hazard is about one worker that lost something and one
  that took it over. The liveness run of EmailClassification has one, to be
  short; with `Workers = {w1, w2}` it passes too, in some minutes (about 187 000
  states).
* `Jobs`: a tick and a pipeline job, so that claims choose and a guard of one job
  meets a claim of another; the liveness run has one.
* `MaxAttempts = 2`: a first attempt, a retry, and the last attempt that fails.
* `Lease = 1`, `RetryBase = 1`, `RetryMax = 2`: leases expire and retries wait,
  and the second delay is capped.
* `MaxLag = 1`: `run_once` works with a `now` up to one tick old, so recovery can
  judge a lease with an outdated clock and `heartbeat_at` may be written late.
  With `MaxLag = 0` no time could pass inside a polling transaction.
* `age` saturates at `AgeCap`, `wait` at `-MaxLag`: beyond them every guard gives
  the same answer, so nothing is cut off.
* `Messages`: one. Messages share nothing but the workers and the queue.

* `Intake`: three mails, of which two share the content and two the UID, two
  manual clients and one import; the partners meet by name and by document. At
  most `MaxActive = 2` of the jobs and clients start in one behaviour (imports
  follow them): locks and duplicates are about pairs. `Parts = 2` files per mail
  and one upload, so that storing can fail half-way. One fault per behaviour, and
  two attempts, so that one follows the fault. The keys of the locks put the two
  locks of some process in either order; `MaxKey` is only the range of the keys.
* `Tariffs`: a catalog with one original, two requests, two files each; beside a
  selection that has started only `MaxBeside = 1` request, which is what a stale
  choice needs. Two faults, one of them at most in the catalog.
* `Services`: two objects and two faults (a death and a power failure); three
  requests, of which two can bootstrap while the third logs in; two prices over
  three moments, two rounds and three tool calls; two UIDs under two values of
  UIDVALIDITY. The inputs of the operators cross every limit by one: the limits
  are parameters of the operators and small.

The runs of Email, Intake, Tariffs and Services set `CHECK_DEADLOCK FALSE`: when
every job is settled and every request answered the system really stops. The
queue never stops, because its workers poll.

Every property of a passing run has a mutant in `PROJECT.json`, some have two: a plausible bug
in the code (an unguarded recovery, a success without the ownership test, a MOVE
that trusts the old locator, a retry that asks the model again, ...) with which
TLC finds the property violated.

### Fairness

`JobQueue!Fairness`: handlers end, because every external call has a timeout
(weak fairness of `RunOnce`); `restart: unless-stopped` restarts a worker; time
passes; PostgreSQL notices dead connections. Strong fairness on the polling
transactions says that a worker that is killed again and again still completes
each of them sometimes, and on `AcquireGuard` that PostgreSQL serves the waiters
of an advisory lock in turn. Handlers may crash for ever: the attempts bound
that. `EmailClassification!Fairness` assumes of the queue what
`EveryJobSettles` rests on: a queued job is claimed and begun, an attempt that
nobody executes is taken back; and weak fairness of the handler's steps.

`Intake!FairSpec` and `Tariffs!FairSpec` have weak fairness of the steps a
process takes by itself (`Progress`): calls have timeouts, and a lock that is
free is granted to a waiter. A lock is waited for by one step that is enabled
while it is free; since every holder takes a bounded number of steps and the
processes are finite, weak fairness is enough. Failed jobs are attempted again,
as `EveryJobSettles` says. Nothing makes a client send a request, and faults are
never fair.

## 4. Findings

1. **The guard can be lost** (`JobQueueGuardLost`). The execution guard is a
   session lock on a connection that nobody watches. If PostgreSQL ends that
   session while the handler runs and a heartbeat is late, the job is recovered
   and a second worker runs the handler beside the first, which README.md:126-128
   of the repository excludes. What the row protects survives (`JobQueueLossy`).
2. **A lost MOVE reply strands the mail** (`EmailMoveReplyLost`). The error is
   recorded as retryable, but the row keeps a UID that no longer exists; every
   retry fails and so does the move after a review.
3. **A review can be swallowed** (`EmailReviewRace`). `mark_moved` of a worker
   that moved the mail to the review folder runs after the reviewer's decision,
   marks the resolved mail as moved, and the review job succeeds without moving
   it. The mail stays in the review folder.
4. **A lost COMMIT reply deletes the originals** (`IngestionCommitReplyLost`).
   When the ingestion is committed and the acknowledgement is lost, the
   compensation deletes the raw message and the attachments the new row refers
   to; every repetition finds the row and drops its own copies.
   IMPLEMENTATION_PLAN.md:566 and CODE_REVIEW.md:698 of the repository promise
   that originals stay and only unreferenced objects are compensated. The
   invoice route, which leaves its uploads on an unknown error, is safe.

## 5. Proofs

`JobQueueProofs` holds for every set of workers and jobs, any assignment of
handlers and priorities, and all values of the timing constants, from
`JobQueueAssumption` (sentinels are distinct from workers and jobs, and the
limits are positive).

`MutualExclusion` and the rest are not inductive by themselves. The invariant is

    IInv == TypeOK /\ ClaimInv /\ GuardInv

* `GuardInv`: the guard of a job and the process that works on it name each
  other. It gives `MutualExclusion`, and that a job whose handler is active is
  not taken back.
* `ClaimInv`: a process has a job in hand exactly from claim to release; its
  ticket was issued by that row and is not above the row's attempts; a worker
  whose name is on a running row holds the latest ticket; live claims of one job
  hold different tickets; a queued row has attempts left. The crucial part is
  `OwnedClaimIsCurrent`: the code compares worker names and not attempts, and
  this is why that is enough: a worker has at most one claim, and a restarted
  process has none.

`TypeOK /\ ClaimInv` is inductive without `GuardInv`. That is what proves
`AttemptsLeft`, `DistinctClaims`, `Finality` and `SuccessIsCurrent` for
`LossySpec`, where guards may be lost: these rest on row locks and the ownership
test alone. `Exclusion` and `ActiveHandlerSpared` need the guards and are proved
for `Spec`; the run `JobQueueGuardLost` shows that they fail without.

The action properties are proved from one lemma that says what each step can do
to a row (`RowSteps`). `Refinement` (`Spec => ImplementsLifecycle`) maps the
status, the attempts, the guard and the claims that have not begun; each action
maps to one JobLifecycle action or to a stutter.

### The components

For every other stateful component there is an inductive invariant `IInv` beside
its properties, and `THEOREM ... == Spec => []IInv`; the properties follow from
it. TLC has checked each `IInv` on the instance of the run.

| Module | Theorems | From |
|---|---|---|
| `EmailClassificationProofs` | `ClassificationInvariant`, `EmailTypeCorrect`, `FiledWhereItSaysHolds`, `SucceededIsCompleteHolds`, `OnlyInvoicesAreSubmittedHolds`, `NoSecondOpinionHolds`, `KeepsTheLifecycle` | `ClassificationAssumption`: sentinels are not workers, jobs or classes |
| `IntakeProofs` | `IntakeInvariant`, `IntakeTypeCorrect`, `NoWaitCycleHolds`, `FreshUnderLocksHolds`, `IntakeNothingStraysHolds`, `LossNeedsAnUnsureCommitHolds`, `SucceededIsHandedOnHolds`, `AnswersMatchHolds`, `LedgerRefinement`, `DoorsTellTheTruth`, `DoorsTakeNothingBack`, `OneRowEach` | `IntakeAssumption`: a mail has at least one file and a job one attempt, tasks, clients and imports are distinct, the keys of the two locks of one transaction differ |
| `TariffsProofs` | `TariffsInvariant`, `TariffsTypeCorrect`, `LineagesAreChainsHolds`, `BytesSurviveHolds`, `NothingStraysHolds`, `OneVerdictHolds`, `SucceededHasVerdictHolds`, `DeletedIsFinalHolds`, `StaleChoiceHolds` | `TariffsAssumption`: a stored file is none of the catalog's originals |
| `ServicesProofs` | `ServicesInvariant`, `ServicesTypeCorrect`, `CostsStayTrueHolds`, `RightMailHolds`, `StorageRefinement`, `AccessStaysClosedHolds` | `ServicesAssumption`: limits are numbers, sentinels are not requests or prices, UIDs and UIDVALIDITY are positive |
| `FinanceProofs` | `HalfUpIsNearest`, `RoundingsAreRight`, `ToleranceIsFair`, `WorstDocumentDecides`, `MarginIsNearest`, `CostIsBounded` | nothing: amounts are any integers, prices any natural numbers, and `RoundingsAreRight` has any natural number for the digits of the context |
| `LedgerProofs` | `LedgerIsSound`, `LedgerOnlyGrows` | nothing |
| `UploadProofs` | `CsvIsReadAsAccepted`, `PdfEndsInBlanks`, `StoredIsReadable`, `RangeIsWhole` | nothing: files and sheets of any size |

The theorems are for any number of processes, mails, files and faults. They are
about `Spec`, without fairness; the runs that add fairness check the same.

**Why FiledWhereItSays needs more than itself.** A worker at `mark` writes the
locator it holds, read in an earlier transaction. `KnowledgeInv` says what such a
worker may still rely on: as long as no reviewer touched the row, the locator it
holds is where the mail lies. That is inductive because of `ReviewInv` (a mail
has a second job, and so a second worker, only after a review, and a reviewer
decides once) and `ExecutionInv` (worker and job name each other).

**Intake.** `LockInv` ties the locks a process holds to its label: none, the
first of its two guards in the order of the keys, both, and for a submission the
partner's as well. `RowInv` says that what was looked for under the locks and not
found is still not there: whoever inserts such a row holds one of the same
locks, which have one holder (`Exclusive`). That gives `FreshUnderLocks`.
`FileInv` says who may still drop which file: a file of an attempt that is not
finished belongs to no row, or to one whose commit was not acknowledged. That
gives `LossNeedsAnUnsureCommit` and, without faults, `NothingStrays`.

`NoWaitCycle` is proved with a rank: the key for the locks of mails and
submissions, and above all keys first the partner's document and then its name
(`LockRank`). A process that waits holds only locks of lower rank
(`EverybodyWaitsAbove`); so in every set of waiting processes, nobody holds what
the one wants that wants the highest rank. The code orders the partner's locks
by name and the others by hash, and takes the former later: the proof shows that
this is enough, whatever the hashes are.

**The ledgers.** `LedgerRefinement` shows that each action of Intake is a step of
`Inbox` or `Register`, or a stutter for it. The state of an asker follows from the
label of its process. The step that matters is `Insert`: it becomes `Enter`,
which asks that nothing in the table is alike, and this is what `RowInv` says
under the locks. If its acknowledgement is lost it is still `Enter`, of which the
asker is not told. `Find` becomes `Recognise` or `Object`, `Enqueue` becomes
`HandOn`, and an attempt that ends without an answer is `GiveUp`; storing, locking
and looking for a partner are stutters. Beside `IInv` this needs `SearchInv`: an
ingestion has found nothing before it searches, and holds its files when it does
(TLC has checked it as an invariant, too).

What Ledger promises is proved once in `LedgerProofs` and carried over to both
doors by instance. `DoorsTellTheTruth`: no two ingestions and no two requests are
told that they brought the same thing first, and whoever is told "created" or
"duplicate" has its row and, once answered, the work that follows.
`DoorsTakeNothingBack`: rows, enqueued work and answers are final. `OneRowEach`:
what the unique constraints say of the tables follows without them, from locks
and queries. `SucceededIsHandedOn` was a property of the run before; the
refinement contains it, since a succeeded ingestion is mapped to an answer and
never to a refusal.

**Tariffs.** `LockInv` says that the row a new version was computed from is
locked and unchanged until the commit, and `LineageInv` that every row but the
first continues one of its lineage with the next number. `VerdictInv` does not
mention the guard of the selection: one run per invoice follows from the row lock
and the check under it, so `OneVerdict` holds although the guard may be lost.

**LocalStorage** implements ObjectStore: `Consistent(o)` says for each step of
`_store` and `delete` what the directory holds and what a power failure may
leave of it, and every step is mapped to one of ObjectStore or a stutter.

**Access.** `SessionInv` ties each row of `sessions` to how far its requests are: seen
when the login has committed, revoked when a logout has. What was answered is
committed, pending or has failed; nothing in the proof needs the answer to come last.

**The queue and its user.** `KeepsTheLifecycle` (`Spec => Queue!Spec`) closes the
chain from `JobQueue`: `Refinement` shows that the queue implements
JobLifecycle, and EmailClassification takes JobLifecycle's steps only, also when
a worker dies at some label of the handler. Its theorems therefore rest on no
more than what the queue was proved to give, apart from the guards that
`JobQueueGuardLost` takes away.

**Operators.** `Operators` checks every `...Agrees` on examples; those of
rounding, tolerance, consolidation, margin, cost, CSV, PDF, the metadata of stored
files and `read_range` are theorems for all inputs. The arithmetic about money
rests on one lemma, the bounds of the integer quotient (`SizeBounds`), from which
`HalfUpIsNearest`, that rounding is odd and that it is monotone follow. CSV and
PDF need the first and the last position with a property, which exist because the
positions are well-founded. For `RangeIsWhole` quotient and remainder map the
places of the list to the cells of the rectangle one to one (`CellAt`,
`PositionOf`), and the order of the places is the order of reading
(`CellsInOrder`).

### Only model-checked

* All liveness (`EveryJobSettles`, `WaiterGetsThrough`, `EveryMailIsFiledOrFails`,
  both `EverythingEnds`): fairness and ENABLED are out of the proof system's
  reach.
* What is left of `OperatorsAgree`: what a loop computes for every input needs
  induction over data, which the installed provers cannot do (the history of a
  thread, the parts of a mail, the searches in sheets and documents, the text of a
  PDF, the totals of images, archives and staged chunks, and the sorted listing of
  stored files), and the calculator is recursive. The doubling of `RetryDelay` is
  of this kind too: the provers have no fact about `2^(n + 1)`.
* The findings, which are counterexamples.

## 6. Not modelled

* The insides of file formats and of MIME, decompression, rendering, previews,
  legacy XLS: what a library finds is an input of the operators.
* Thread scanning and folder creation on the IMAP server; the health-check file
  of the worker; hashing of passwords; prompts, schemas and texts of the model.
* Requests that only read (lists, downloads, pages of the front end).
* The two wrappers of the invoice advisory locks: no code calls them outside the
  tests. Unit of work and sessions: transactions are the steps of the modules.
* Configuration (its values are the constants), wiring, front end, migrations:
  no behaviour of their own.

The per-component reasons are in `PROJECT.json`.

## 7. Plan

Done: every module above with its runs, and the proofs of section 5: every safety
property and every refinement a run checks is a theorem, except `OperatorsAgree`,
of which nine of the nineteen kinds of example are.

What is left:

1. Intake and Tariffs claim and begin a job in one step and keep its state in their
   own words (`job[t].pc`, `job[i].state`): a coarser JobLifecycle, in which a claim
   is begun at once, which Intake implements, and Tariffs as long as no guard is lost
   (`TakeOver`).
2. The remaining kinds of example, should the provers learn induction with an
   operator as its parameter.
