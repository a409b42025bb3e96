------------------------------ MODULE JobQueue ------------------------------
(***************************************************************************)
(* The PostgreSQL durable queue (PostgreSQLJobQueue) and the worker        *)
(* processes that drain it (WorkerRunner.run_once).                        *)
(*                                                                         *)
(* A transaction of the queue is one action.  Time is relative: a row      *)
(* keeps how long ago its heartbeat_at lies (age) and how far ahead its    *)
(* available_at lies (wait), a worker how long ago it read the `now` it    *)
(* works with (lag).  All three saturate where no guard can tell larger    *)
(* values apart, so time passes for ever in a finite state space.          *)
(***************************************************************************)
EXTENDS Integers

CONSTANTS Workers,      \* worker ids, host name and pid of a process
          Jobs,         \* idempotency keys, one processing_jobs row each
          TickJobs,     \* the keys of the scheduler's polling windows
          Priority,     \* the priority column of a job
          Handles,      \* the jobs whose type a worker registered a handler for
          NoWorker,     \* NULL in locked_by, a free advisory lock
          NoJob,        \* no job in hand
          DeadSession,  \* a connection whose process is gone, not yet closed
          MaxAttempts,  \* worker_max_attempts
          Lease,        \* worker_job_lease_seconds
          RetryBase,    \* worker_retry_base_seconds
          RetryMax,     \* worker_retry_max_seconds
          MaxLag        \* bound: the oldest `now` a transaction is run with

ASSUME JobQueueAssumption ==
    /\ TickJobs \subseteq Jobs /\ TickJobs # {}
    /\ Priority \in [Jobs -> Nat]
    /\ Handles \in [Workers -> SUBSET Jobs]
    /\ {NoWorker, DeadSession} \cap Workers = {}
    /\ NoWorker # DeadSession
    /\ NoJob \notin Jobs
    /\ {MaxAttempts, Lease, RetryBase, RetryMax} \subseteq Nat \ {0}
    /\ MaxLag \in Nat

VARIABLES row,     \* the processing_jobs table
          guard,   \* the session advisory lock of each job's execution
          proc     \* each worker process: where it is and what it holds

vars == <<row, guard, proc>>

Queued   == {"PENDING", "RETRY_SCHEDULED"}
Terminal == {"SUCCEEDED", "FAILED"}
JobStatus == Queued \cup {"RUNNING"} \cup Terminal

\* Beyond AgeCap every reader finds the lease expired.
AgeCap == Lease + MaxLag + 1

\* age is kept for RUNNING rows only and wait for queued rows only: nothing
\* reads them elsewhere.
RowType == [status   : JobStatus \cup {"ABSENT"},
            attempts : 0..MaxAttempts,
            lockedBy : Workers \cup {NoWorker},
            age      : 0..AgeCap,
            wait     : Int]

\* Between acquiring and releasing the execution guard.
Guarded == {"handler", "succeed", "fail", "release", "expel"}

ProcType == [pc     : {"down", "idle", "recover", "schedule", "claim", "acquire"}
                         \cup Guarded,
             job    : Jobs \cup {NoJob},
             ticket : 0..MaxAttempts,    \* job.attempts as this claim saw it
             lag    : 0..MaxLag]

Idle == [pc |-> "idle", job |-> NoJob, ticket |-> 0, lag |-> 0]
Down == [Idle EXCEPT !.pc = "down"]

Init == /\ row = [j \in Jobs |-> [status |-> "ABSENT", attempts |-> 0,
                                  lockedBy |-> NoWorker, age |-> 0, wait |-> 0]]
        /\ guard = [j \in Jobs |-> NoWorker]
        /\ proc = [w \in Workers |-> Idle]

-----------------------------------------------------------------------------
(* The row transitions of the queue.                                       *)

\* ON CONFLICT (idempotency_key) DO NOTHING: `r` is the row after an enqueue
\* whose available_at was read `late` ticks before the commit.
Inserted(r, late) ==
    IF r.status = "ABSENT"
      THEN [r EXCEPT !.status = "PENDING", !.attempts = 0, !.wait = -late]
      ELSE r

ClaimedUncounted(r, w, late) ==
    [r EXCEPT !.status = "RUNNING", !.lockedBy = w, !.age = late, !.wait = 0]

Claimed(r, w, late) ==
    [r EXCEPT !.status = "RUNNING", !.attempts = @ + 1, !.lockedBy = w,
              !.age = late, !.wait = 0]

GivenBackOnceMore(r, delay) ==
    [r EXCEPT !.status = IF r.attempts <= MaxAttempts THEN "RETRY_SCHEDULED"
                                                      ELSE "FAILED",
              !.lockedBy = NoWorker, !.age = 0, !.wait = delay]

\* The end of an attempt without success, by its worker or by recovery.
GivenBack(r, delay) ==
    LET again == r.attempts < MaxAttempts
    IN  [r EXCEPT !.status = IF again THEN "RETRY_SCHEDULED" ELSE "FAILED",
                  !.lockedBy = NoWorker,
                  !.age = 0,
                  !.wait = IF again THEN delay ELSE 0]

Completed(r) == [r EXCEPT !.status = "SUCCEEDED", !.lockedBy = NoWorker, !.age = 0]

RetryDelay(n) ==
    LET doublings == IF n > 0 THEN n - 1 ELSE 0       \* max(0, attempts - 1)
        backoff   == RetryBase * 2^doublings
    IN  IF backoff > RetryMax THEN RetryMax ELSE backoff

-----------------------------------------------------------------------------
(* One iteration of the worker loop.                                       *)

At(w, label) == proc[w].pc = label

GoTo(w, label) == proc' = [proc EXCEPT ![w].pc = label]

\* run_once reads `now` once, for the three transactions that follow.
StartRun(w) ==
    /\ At(w, "idle")
    /\ GoTo(w, "recover")
    /\ UNCHANGED <<row, guard>>

\* heartbeat_at < now - lease_timeout, for a reader whose `now` is lag old.
LeaseExpired(j, lag) ==
    /\ row[j].status = "RUNNING"
    /\ row[j].age - lag > Lease

RecoverUnguarded(w) ==
    LET lag == proc[w].lag
    IN  /\ At(w, "recover")
        /\ row' = [j \in Jobs |-> IF LeaseExpired(j, lag)
                                    THEN GivenBack(row[j], RetryBase - lag)
                                    ELSE row[j]]
        /\ GoTo(w, "schedule")
        /\ UNCHANGED guard

RecoverOnlyRetryable(w) ==
    LET lag == proc[w].lag
    IN  /\ At(w, "recover")
        /\ row' = [j \in Jobs |->
                     IF /\ LeaseExpired(j, lag)
                        /\ guard[j] = NoWorker
                        /\ row[j].attempts < MaxAttempts
                       THEN GivenBack(row[j], RetryBase - lag)
                       ELSE row[j]]
        /\ GoTo(w, "schedule")
        /\ UNCHANGED guard

\* Every expired lease whose execution guard pg_try_advisory_xact_lock finds
\* free is taken back, in one transaction.
RecoverStale(w) ==
    LET lag == proc[w].lag
    IN  /\ At(w, "recover")
        /\ row' = [j \in Jobs |->
                     IF LeaseExpired(j, lag) /\ guard[j] = NoWorker
                       THEN GivenBack(row[j], RetryBase - lag)
                       ELSE row[j]]
        /\ GoTo(w, "schedule")
        /\ UNCHANGED guard

\* PollScheduler.enqueue_due: the window's tick, if no worker was first.  The
\* window number is abstracted to any member of TickJobs.
EnqueueDue(w) ==
    /\ At(w, "schedule")
    /\ \E j \in TickJobs : row' = [row EXCEPT ![j] = Inserted(@, proc[w].lag)]
    /\ GoTo(w, "claim")
    /\ UNCHANGED guard

Claimable(w, j) ==
    /\ row[j].status \in Queued
    /\ row[j].wait + proc[w].lag <= 0
    /\ j \in Handles[w]

\* The row with the highest priority; available_at and created_at, which
\* order equal priorities, are not kept, so any of those may come first.
Claim(w) ==
    /\ At(w, "claim")
    /\ \E j \in Jobs :
          /\ Claimable(w, j)
          /\ \A k \in Jobs : Claimable(w, k) => Priority[k] <= Priority[j]
          /\ row' = [row EXCEPT ![j] = Claimed(@, w, proc[w].lag)]
          /\ proc' = [proc EXCEPT ![w] = [pc |-> "acquire", job |-> j,
                                          ticket |-> row'[j].attempts, lag |-> 0]]
    /\ UNCHANGED guard

ClaimNothing(w) ==
    /\ At(w, "claim")
    /\ \A j \in Jobs : ~Claimable(w, j)
    /\ proc' = [proc EXCEPT ![w] = Idle]
    /\ UNCHANGED <<row, guard>>

AcquireRegardless(w) ==
    /\ At(w, "acquire")
    /\ guard' = [guard EXCEPT ![proc[w].job] = w]
    /\ GoTo(w, "handler")
    /\ UNCHANGED row

\* pg_advisory_lock blocks until the guard is free.  The row is not read again
\* afterwards: the claim may be lost by then.
AcquireGuard(w) ==
    /\ At(w, "acquire")
    /\ guard[proc[w].job] = NoWorker
    /\ guard' = [guard EXCEPT ![proc[w].job] = w]
    /\ GoTo(w, "handler")
    /\ UNCHANGED row

HandlerEnds(w) ==
    /\ At(w, "handler")
    /\ \E label \in {"succeed", "fail"} : GoTo(w, label)
    /\ UNCHANGED <<row, guard>>

OwnsAnyRunning(w, j) == row[j].status = "RUNNING"

\* The condition of _owned_running_job and of heartbeat.
OwnsRunning(w, j) == row[j].status = "RUNNING" /\ row[j].lockedBy = w

\* The heartbeat thread lives as long as the guard is held; it may have died of
\* a database error, so a heartbeat is possible and never certain.
Heartbeat(w) ==
    /\ proc[w].pc \in Guarded
    /\ OwnsRunning(w, proc[w].job)
    /\ \E late \in 0..MaxLag : row' = [row EXCEPT ![proc[w].job].age = late]
    /\ UNCHANGED <<guard, proc>>

SucceedUnchecked(w) ==
    /\ At(w, "succeed")
    /\ row' = [row EXCEPT ![proc[w].job] = Completed(@)]
    /\ GoTo(w, "release")
    /\ UNCHANGED guard

Succeed(w) ==
    /\ At(w, "succeed")
    /\ OwnsRunning(w, proc[w].job)
    /\ row' = [row EXCEPT ![proc[w].job] = Completed(@)]
    /\ GoTo(w, "release")
    /\ UNCHANGED guard

Fail(w) ==
    /\ At(w, "fail")
    /\ OwnsRunning(w, proc[w].job)
    /\ \E late \in 0..MaxLag :
          row' = [row EXCEPT ![proc[w].job] =
                                GivenBack(@, RetryDelay(proc[w].ticket) - late)]
    /\ GoTo(w, "release")
    /\ UNCHANGED guard

\* JobLeaseError leaves run_once and ends the process.
LoseLease(w) ==
    /\ proc[w].pc \in {"succeed", "fail"}
    /\ ~OwnsRunning(w, proc[w].job)
    /\ GoTo(w, "expel")
    /\ UNCHANGED <<row, guard>>

\* pg_advisory_unlock, if the session that took the lock still holds it.
Unlocked(w) == [j \in Jobs |-> IF guard[j] = w THEN NoWorker ELSE guard[j]]

ReleaseForgotten(w) ==
    /\ At(w, "release")
    /\ proc' = [proc EXCEPT ![w] = Idle]
    /\ UNCHANGED <<row, guard>>

\* The heartbeat thread is joined and the guard released; unlocking over a
\* connection that was lost raises, and the process ends.
Release(w) ==
    /\ At(w, "release")
    /\ guard' = Unlocked(w)
    /\ proc' = [proc EXCEPT ![w] = IF guard[proc[w].job] = w THEN Idle ELSE Down]
    /\ UNCHANGED row

Expel(w) ==
    /\ At(w, "expel")
    /\ guard' = Unlocked(w)
    /\ proc' = [proc EXCEPT ![w] = Down]
    /\ UNCHANGED row

-----------------------------------------------------------------------------
(* The environment.                                                        *)

\* An enqueue by the API or by a handler, which may repeat a key.
Enqueue(j) ==
    /\ \E late \in 0..MaxLag : row' = [row EXCEPT ![j] = Inserted(@, late)]
    /\ UNCHANGED <<guard, proc>>

\* The process dies at any point; the server learns of it later.
Crash(w) ==
    /\ ~At(w, "down")
    /\ proc' = [proc EXCEPT ![w] = Down]
    /\ guard' = [j \in Jobs |-> IF guard[j] = w THEN DeadSession ELSE guard[j]]
    /\ UNCHANGED row

SessionEnds(j) ==
    /\ guard[j] = DeadSession
    /\ guard' = [guard EXCEPT ![j] = NoWorker]
    /\ UNCHANGED <<row, proc>>

\* restart: unless-stopped, under the same host name and pid.
Restart(w) ==
    /\ At(w, "down")
    /\ proc' = [proc EXCEPT ![w] = Idle]
    /\ UNCHANGED <<row, guard>>

Older(r) ==
    CASE r.status = "RUNNING" -> [r EXCEPT !.age = IF @ < AgeCap THEN @ + 1 ELSE @]
      [] r.status \in Queued  -> [r EXCEPT !.wait = IF @ > -MaxLag THEN @ - 1 ELSE @]
      [] OTHER -> r

Polling == {"recover", "schedule", "claim"}

\* Time passes, but MaxLag bounds how long run_once works with one `now`.
Tick ==
    /\ \A w \in Workers : proc[w].pc \in Polling => proc[w].lag < MaxLag
    /\ row' = [j \in Jobs |-> Older(row[j])]
    /\ proc' = [w \in Workers |-> IF proc[w].pc \in Polling
                                    THEN [proc[w] EXCEPT !.lag = @ + 1]
                                    ELSE proc[w]]
    /\ UNCHANGED guard

\* The connection of a guard breaks while its process goes on.
LoseSession(j) ==
    /\ guard[j] \in Workers
    /\ guard' = [guard EXCEPT ![j] = NoWorker]
    /\ UNCHANGED <<row, proc>>

-----------------------------------------------------------------------------
RunOnce(w) == \/ StartRun(w) \/ RecoverStale(w) \/ EnqueueDue(w)
              \/ Claim(w) \/ ClaimNothing(w) \/ AcquireGuard(w)
              \/ HandlerEnds(w) \/ Succeed(w) \/ Fail(w) \/ LoseLease(w)
              \/ Release(w) \/ Expel(w)

Next == \/ \E w \in Workers : \/ RunOnce(w)
                              \/ Heartbeat(w)
                              \/ Crash(w)
                              \/ Restart(w)
        \/ \E j \in Jobs : Enqueue(j) \/ SessionEnds(j)
        \/ Tick

Spec == Init /\ [][Next]_vars

\* The same with connections that may break under a live process.
LossyNext == Next \/ \E j \in Jobs : LoseSession(j)

LossySpec == Init /\ [][LossyNext]_vars

\* Handlers end (every external call has a timeout), processes are scheduled
\* and restarted, time passes, dead connections are noticed.  A worker that is
\* killed over and over still gets through each polling transaction sometimes,
\* and PostgreSQL serves the waiters of an advisory lock in turn.
Fairness ==
    /\ SF_vars(Tick)
    /\ \A j \in Jobs : WF_vars(SessionEnds(j))
    /\ \A w \in Workers :
          /\ WF_vars(Restart(w))
          /\ WF_vars(RunOnce(w))
          /\ SF_vars(StartRun(w))
          /\ SF_vars(RecoverStale(w))
          /\ SF_vars(EnqueueDue(w))
          /\ SF_vars(Claim(w) \/ ClaimNothing(w))
          /\ SF_vars(AcquireGuard(w))

FairSpec == Spec /\ Fairness

-----------------------------------------------------------------------------
(* Properties.                                                             *)

\* Every row, guard and process has the shape the code gives it; the check
\* constraints on processing_jobs.attempts are part of it.
TypeOK == /\ row \in [Jobs -> RowType]
          /\ guard \in [Jobs -> Workers \cup {NoWorker, DeadSession}]
          /\ proc \in [Workers -> ProcType]

Executes(w, j) == At(w, "handler") /\ proc[w].job = j

\* No two workers run the handler of one job at the same time, however leases
\* expire, claims overlap and processes restart (execution_guard).
MutualExclusion ==
    \A v, w \in Workers : \A j \in Jobs : Executes(v, j) /\ Executes(w, j) => v = w

\* A queued row always has an attempt left, so claim, which increments attempts
\* without looking, never runs into the attempts_within_limit constraint.
ClaimableHasAttemptsLeft ==
    \A j \in Jobs : row[j].status \in Queued => row[j].attempts < MaxAttempts

\* Claims of one job that are alive together, one of them lost, stand for
\* different attempts: no attempt is executed twice.
ClaimsAreDistinct ==
    \A v, w \in Workers :
       v # w /\ proc[v].job = proc[w].job /\ proc[v].job # NoJob
         => proc[v].ticket # proc[w].ticket

\* Success is recorded only by the worker whose handler returned for the very
\* attempt the row is at: a claim that was taken back is never credited, even
\* though _owned_running_job compares names and not attempts.
ResultFromCurrentAttempt ==
    [][\A j \in Jobs :
          row[j].status # "SUCCEEDED" /\ row'[j].status = "SUCCEEDED"
            => \E w \in Workers : /\ At(w, "succeed")
                                  /\ proc[w].job = j
                                  /\ proc[w].ticket = row[j].attempts]_vars

\* While a handler of a job is active the job stays RUNNING: recovery never
\* takes it back because its heartbeat is late (execution_guard's promise).
ActiveHandlerKeepsItsJob ==
    [][\A j \in Jobs :
          row[j].status = "RUNNING" /\ (\E w \in Workers : Executes(w, j))
            => row'[j].status = "RUNNING"]_vars

\* A settled job is never touched again: a late result, a late heartbeat or a
\* recovery leaves a SUCCEEDED or FAILED row as it is.
SettledIsFinal ==
    [][\A j \in Jobs : row[j].status \in Terminal => row'[j] = row[j]]_vars

\* Every enqueued job that some worker has a handler for is eventually settled,
\* although workers crash in the middle of it.
EveryJobSettles ==
    \A j \in UNION {Handles[w] : w \in Workers} :
       row[j].status # "ABSENT" ~> row[j].status \in Terminal

\* No worker waits for an execution guard for ever.
WaiterGetsThrough ==
    \A w \in Workers : At(w, "acquire") ~> ~At(w, "acquire")

-----------------------------------------------------------------------------
(* The inductive invariant behind them, proved in JobQueueProofs.          *)

Engaged == {"acquire"} \cup Guarded

\* A process has a job in hand exactly from its claim to its release.
EngagedHoldsJob == \A w \in Workers : proc[w].pc \in Engaged <=> proc[w].job \in Jobs

\* No attempt is counted against a job that was not enqueued.
AbsentIsFresh == \A j \in Jobs : row[j].status = "ABSENT" => row[j].attempts = 0

\* A ticket was issued by the row of the job it is for.
TicketsIssued ==
    \A w \in Workers : \A j \in Jobs :
       proc[w].job = j => /\ row[j].status # "ABSENT"
                          /\ 1 <= proc[w].ticket
                          /\ proc[w].ticket <= row[j].attempts

\* A worker whose name is on a running row holds the row's latest ticket.
OwnedClaimIsCurrent ==
    \A w \in Workers : \A j \in Jobs :
       proc[w].job = j /\ OwnsRunning(w, j) => proc[w].ticket = row[j].attempts

ClaimInv == /\ EngagedHoldsJob
            /\ ClaimableHasAttemptsLeft
            /\ AbsentIsFresh
            /\ TicketsIssued
            /\ OwnedClaimIsCurrent
            /\ ClaimsAreDistinct

\* The guard of a job and the process that works on it name each other.
GuardInv == /\ \A w \in Workers : proc[w].pc \in Guarded => guard[proc[w].job] = w
            /\ \A j \in Jobs : guard[j] \in Workers
                  => proc[guard[j]].pc \in Guarded /\ proc[guard[j]].job = j

\* The invariant as one formula: inductive for Spec; without GuardInv it is
\* inductive for LossySpec.
IInv == TypeOK /\ ClaimInv /\ GuardInv

-----------------------------------------------------------------------------
(* The queue implements the life of a job it promises.                     *)

AbstractState == [j \in Jobs |-> IF row[j].status \in Queued THEN "QUEUED"
                                                            ELSE row[j].status]
AbstractTries == [j \in Jobs |-> row[j].attempts]
AbstractExecutor == [j \in Jobs |-> IF guard[j] \in Workers THEN guard[j]
                                                           ELSE NoWorker]

AbstractClaim == [w \in Workers |-> IF At(w, "acquire") THEN proc[w].job ELSE NoJob]

Lifecycle == INSTANCE JobLifecycle WITH
    state <- AbstractState, tries <- AbstractTries, executor <- AbstractExecutor,
    claim <- AbstractClaim

\* Every step of the queue is a step of JobLifecycle or changes nothing there.
ImplementsLifecycle == Lifecycle!Spec
=============================================================================
