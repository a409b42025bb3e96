--------------------------- MODULE JobQueueProofs ---------------------------
(***************************************************************************)
(* Proofs about JobQueue, for every set of workers and jobs and every      *)
(* value of the timing constants.                                          *)
(***************************************************************************)
EXTENDS JobQueue, TLAPS

-----------------------------------------------------------------------------
(* The constants, one fact at a time.                                      *)

LEMMA Constants ==
    /\ MaxAttempts \in Nat \ {0}
    /\ MaxLag \in Nat
    /\ AgeCap \in Nat
    /\ 0..MaxLag \subseteq 0..AgeCap
    /\ RetryBase \in Nat
    /\ RetryMax \in Nat
    /\ NoWorker \notin Workers
    /\ DeadSession \notin Workers
    /\ NoWorker # DeadSession
    /\ NoJob \notin Jobs
    /\ TickJobs \subseteq Jobs
<1>1. /\ MaxAttempts \in Nat \ {0}
      /\ Lease \in Nat \ {0}
      /\ RetryBase \in Nat
      /\ RetryMax \in Nat
      /\ MaxLag \in Nat
  BY JobQueueAssumption
<1>2. AgeCap \in Nat /\ 0..MaxLag \subseteq 0..AgeCap
  BY <1>1 DEF AgeCap
<1>3. /\ NoWorker \notin Workers
      /\ DeadSession \notin Workers
      /\ NoWorker # DeadSession
      /\ NoJob \notin Jobs
      /\ TickJobs \subseteq Jobs
  BY JobQueueAssumption
<1> QED BY <1>1, <1>2, <1>3

-----------------------------------------------------------------------------
(* What the row transitions preserve.                                      *)

LEMMA DelayIsInt ==
    ASSUME NEW n \in 0..MaxAttempts PROVE RetryDelay(n) \in Int
<1>1. CASE n = 0
  <2>1. 2^(n - 1) \in Int
    BY <1>1
  <2> QED BY <2>1, Constants DEF RetryDelay
<1>2. CASE n # 0
  <2>1. 2^(n - 1) \in Int
    BY <1>2, Constants
  <2> QED BY <2>1, Constants DEF RetryDelay
<1> QED BY <1>1, <1>2

LEMMA InsertedType ==
    ASSUME NEW r \in RowType, NEW late \in 0..MaxLag
    PROVE  /\ Inserted(r, late) \in RowType
           /\ r.status # "ABSENT" => Inserted(r, late) = r
<1>1. 0 \in 0..MaxAttempts /\ -late \in Int
  BY Constants
<1>2. CASE r.status = "ABSENT"
  BY <1>1, <1>2 DEF Inserted, RowType, JobStatus, Queued, Terminal
<1>3. CASE r.status # "ABSENT"
  BY <1>3 DEF Inserted
<1> QED BY <1>2, <1>3

LEMMA ClaimedType ==
    ASSUME NEW r \in RowType, NEW w \in Workers, NEW late \in 0..MaxLag,
           r.attempts < MaxAttempts
    PROVE  Claimed(r, w, late) \in RowType
<1>1. r.attempts + 1 \in 0..MaxAttempts /\ late \in 0..AgeCap
  BY Constants DEF RowType
<1>2. "RUNNING" \in JobStatus \cup {"ABSENT"} /\ 0 \in Int
  BY DEF JobStatus
<1> DEFINE next == r.attempts + 1
<1>3. Claimed(r, w, late) = [r EXCEPT !.status = "RUNNING", !.attempts = next,
                                      !.lockedBy = w, !.age = late, !.wait = 0]
  BY DEF Claimed
<1>4. next \in 0..MaxAttempts
  BY <1>1
<1> HIDE DEF next
<1> QED BY <1>1, <1>2, <1>3, <1>4 DEF RowType

LEMMA GivenBackType ==
    ASSUME NEW r \in RowType, NEW delay \in Int
    PROVE  GivenBack(r, delay) \in RowType
<1>1. 0 \in 0..AgeCap /\ 0 \in Int
  BY Constants
<1>2. CASE r.attempts < MaxAttempts
  BY <1>1, <1>2 DEF GivenBack, RowType, JobStatus, Queued, Terminal
<1>3. CASE ~(r.attempts < MaxAttempts)
  BY <1>1, <1>3 DEF GivenBack, RowType, JobStatus, Queued, Terminal
<1> QED BY <1>2, <1>3

LEMMA CompletedType ==
    ASSUME NEW r \in RowType PROVE Completed(r) \in RowType
<1>1. 0 \in 0..AgeCap
  BY Constants
<1> QED BY <1>1 DEF Completed, RowType, JobStatus, Queued, Terminal

LEMMA OlderType ==
    ASSUME NEW r \in RowType
    PROVE  /\ Older(r) \in RowType
           /\ Older(r).status = r.status
           /\ Older(r).attempts = r.attempts
           /\ Older(r).lockedBy = r.lockedBy
<1>1. CASE r.status = "RUNNING"
  BY <1>1, Constants DEF Older, RowType, JobStatus, Queued, Terminal
<1>2. CASE r.status \in Queued
  BY <1>2, Constants DEF Older, RowType, JobStatus, Queued, Terminal
<1>3. CASE r.status # "RUNNING" /\ r.status \notin Queued
  BY <1>3, Constants DEF Older, RowType, JobStatus, Queued, Terminal
<1> QED BY <1>1, <1>2, <1>3

-----------------------------------------------------------------------------
(* Type correctness.                                                       *)

LEMMA TypeInit == Init => TypeOK
<1> SUFFICES ASSUME Init PROVE TypeOK
  OBVIOUS
<1>1. 0 \in 0..MaxAttempts /\ 0 \in 0..AgeCap /\ 0 \in Int /\ 0 \in 0..MaxLag
  BY Constants
<1>2. row \in [Jobs -> RowType]
  BY <1>1 DEF Init, RowType
<1>3. proc \in [Workers -> ProcType]
  BY <1>1 DEF Init, Idle, ProcType
<1> QED BY <1>2, <1>3 DEF Init, TypeOK

\* A process that only moves to another label keeps what it holds.
LEMMA GoToType ==
    ASSUME TypeOK, NEW w \in Workers, NEW label \in {"recover", "schedule", "claim"}
                                                     \cup Guarded,
           GoTo(w, label)
    PROVE  proc' \in [Workers -> ProcType]
BY DEF TypeOK, GoTo, ProcType

LEMMA ResetType == Idle \in ProcType /\ Down \in ProcType
<1>1. 0 \in 0..MaxAttempts /\ 0 \in 0..MaxLag
  BY Constants
<1> QED BY <1>1 DEF Idle, Down, ProcType

LEMMA TypeStep == TypeOK /\ ClaimInv /\ [LossyNext]_vars => TypeOK'
<1> SUFFICES ASSUME TypeOK, ClaimInv, [LossyNext]_vars PROVE TypeOK'
  OBVIOUS
<1>t. /\ row \in [Jobs -> RowType]
      /\ guard \in [Jobs -> Workers \cup {NoWorker, DeadSession}]
      /\ proc \in [Workers -> ProcType]
  BY DEF TypeOK
<1>h. \A w \in Workers : proc[w].pc \in Engaged => proc[w].job \in Jobs
  BY DEF ClaimInv, EngagedHoldsJob
<1>l. \A w \in Workers : proc[w].lag \in 0..MaxLag /\ proc[w].ticket \in 0..MaxAttempts
  BY <1>t DEF ProcType
<1>u. ASSUME NEW w \in Workers
      PROVE  Unlocked(w) \in [Jobs -> Workers \cup {NoWorker, DeadSession}]
  BY <1>t DEF Unlocked
<1>1. CASE UNCHANGED vars
  BY <1>1 DEF vars, TypeOK
<1>2. ASSUME NEW w \in Workers, StartRun(w) PROVE TypeOK'
  BY <1>2, <1>t, GoToType DEF StartRun, TypeOK
<1>3. ASSUME NEW w \in Workers, RecoverStale(w) PROVE TypeOK'
  <2>1. proc' \in [Workers -> ProcType] /\ guard' = guard
    BY <1>3, GoToType DEF RecoverStale
  <2>2. RetryBase - proc[w].lag \in Int
    BY <1>l, Constants
  <2>3. \A j \in Jobs : GivenBack(row[j], RetryBase - proc[w].lag) \in RowType
    BY <2>2, <1>t, GivenBackType
  <2>4. row' \in [Jobs -> RowType]
    BY <1>3, <1>t, <2>3 DEF RecoverStale
  <2> QED BY <1>t, <2>1, <2>4 DEF TypeOK
<1>4. ASSUME NEW w \in Workers, EnqueueDue(w) PROVE TypeOK'
  <2>1. proc' \in [Workers -> ProcType] /\ guard' = guard
    BY <1>4, GoToType DEF EnqueueDue
  <2>2. \A j \in Jobs : Inserted(row[j], proc[w].lag) \in RowType
    BY <1>t, <1>l, InsertedType
  <2>3. row' \in [Jobs -> RowType]
    BY <1>4, <1>t, <2>2, Constants DEF EnqueueDue
  <2> QED BY <1>t, <2>1, <2>3 DEF TypeOK
<1>5. ASSUME NEW w \in Workers, Claim(w) PROVE TypeOK'
  <2>1. PICK j \in Jobs :
           /\ row[j].status \in Queued
           /\ row' = [row EXCEPT ![j] = Claimed(@, w, proc[w].lag)]
           /\ proc' = [proc EXCEPT ![w] = [pc |-> "acquire", job |-> j,
                                           ticket |-> row'[j].attempts, lag |-> 0]]
           /\ guard' = guard
    BY <1>5 DEF Claim, Claimable
  <2>2. row[j].attempts < MaxAttempts
    BY <2>1 DEF ClaimInv, ClaimableHasAttemptsLeft
  <2>3. Claimed(row[j], w, proc[w].lag) \in RowType
    BY <2>2, <1>t, <1>l, ClaimedType
  <2>4. row' \in [Jobs -> RowType]
    BY <1>t, <2>1, <2>3
  <2>5. row'[j].attempts \in 0..MaxAttempts
    BY <2>4 DEF RowType
  <2>6. proc' \in [Workers -> ProcType]
    BY <1>t, <2>1, <2>5, Constants DEF ProcType
  <2> QED BY <1>t, <2>1, <2>4, <2>6 DEF TypeOK
<1>6. ASSUME NEW w \in Workers, ClaimNothing(w) \/ Restart(w) PROVE TypeOK'
  BY <1>6, <1>t, ResetType DEF ClaimNothing, Restart, TypeOK
<1>7. ASSUME NEW w \in Workers, AcquireGuard(w) PROVE TypeOK'
  <2>1. proc' \in [Workers -> ProcType]
    BY <1>7, GoToType DEF AcquireGuard, Guarded
  <2> QED BY <1>7, <1>t, <2>1 DEF AcquireGuard, TypeOK
<1>8. ASSUME NEW w \in Workers, HandlerEnds(w) \/ LoseLease(w) PROVE TypeOK'
  <2>1. proc' \in [Workers -> ProcType]
    BY <1>8, GoToType DEF HandlerEnds, LoseLease, Guarded
  <2> QED BY <1>8, <1>t, <2>1 DEF HandlerEnds, LoseLease, TypeOK
<1>9. ASSUME NEW w \in Workers, Heartbeat(w) PROVE TypeOK'
  <2>1. PICK late \in 0..MaxLag : row' = [row EXCEPT ![proc[w].job].age = late]
    BY <1>9 DEF Heartbeat
  <2>2. proc[w].job \in Jobs
    BY <1>9, <1>h DEF Heartbeat, Engaged
  <2>3. row' \in [Jobs -> RowType]
    BY <1>t, <2>1, <2>2, Constants DEF RowType
  <2> QED BY <1>9, <1>t, <2>3 DEF Heartbeat, TypeOK
<1>10. ASSUME NEW w \in Workers, Succeed(w) PROVE TypeOK'
  <2>1. proc' \in [Workers -> ProcType]
    BY <1>10, GoToType DEF Succeed, Guarded
  <2>2. row' \in [Jobs -> RowType]
    BY <1>10, <1>t, CompletedType DEF Succeed
  <2> QED BY <1>10, <1>t, <2>1, <2>2 DEF Succeed, TypeOK
<1>11. ASSUME NEW w \in Workers, Fail(w) PROVE TypeOK'
  <2>1. proc' \in [Workers -> ProcType]
    BY <1>11, GoToType DEF Fail, Guarded
  <2>2. PICK late \in 0..MaxLag :
           row' = [row EXCEPT ![proc[w].job] =
                                GivenBack(@, RetryDelay(proc[w].ticket) - late)]
    BY <1>11 DEF Fail
  <2>3. RetryDelay(proc[w].ticket) - late \in Int
    BY <1>l, DelayIsInt, Constants
  <2>4. row' \in [Jobs -> RowType]
    BY <1>t, <2>2, <2>3, GivenBackType
  <2> QED BY <1>11, <1>t, <2>1, <2>4 DEF Fail, TypeOK
<1>12. ASSUME NEW w \in Workers, Release(w) \/ Expel(w) PROVE TypeOK'
  BY <1>12, <1>t, <1>u, ResetType DEF Release, Expel, TypeOK
<1>13. ASSUME NEW w \in Workers, Crash(w) PROVE TypeOK'
  BY <1>13, <1>t, ResetType DEF Crash, TypeOK
<1>14. ASSUME NEW j \in Jobs, Enqueue(j) PROVE TypeOK'
  <2>1. \A late \in 0..MaxLag : Inserted(row[j], late) \in RowType
    BY <1>t, InsertedType
  <2> QED BY <1>14, <1>t, <2>1 DEF Enqueue, TypeOK
<1>15. ASSUME NEW j \in Jobs, SessionEnds(j) \/ LoseSession(j) PROVE TypeOK'
  BY <1>15, <1>t DEF SessionEnds, LoseSession, TypeOK
<1>16. CASE Tick
  <2>1. row' \in [Jobs -> RowType]
    BY <1>16, <1>t, OlderType DEF Tick
  <2>2. ASSUME NEW w \in Workers PROVE proc'[w] \in ProcType
    <3>1. CASE proc[w].pc \in Polling
      <4>1. proc[w].lag + 1 \in 0..MaxLag
        BY <1>16, <3>1, <1>l, Constants DEF Tick
      <4>2. proc'[w] = [proc[w] EXCEPT !.lag = @ + 1]
        BY <1>16, <3>1 DEF Tick
      <4> QED BY <1>t, <4>1, <4>2 DEF ProcType
    <3>2. CASE proc[w].pc \notin Polling
      BY <1>16, <1>t, <3>2 DEF Tick
    <3> QED BY <3>1, <3>2
  <2>3. proc' \in [Workers -> ProcType]
    BY <1>16, <2>2 DEF Tick
  <2> QED BY <1>16, <1>t, <2>1, <2>3 DEF Tick, TypeOK
<1> QED
  BY <1>1, <1>2, <1>3, <1>4, <1>5, <1>6, <1>7, <1>8, <1>9, <1>10, <1>11, <1>12,
     <1>13, <1>14, <1>15, <1>16 DEF LossyNext, Next, RunOnce

-----------------------------------------------------------------------------
(* The claims: holds whether or not guard connections survive.             *)

LEMMA ClaimInit == Init => ClaimInv
BY Constants DEF Init, Idle, ClaimInv, EngagedHoldsJob, ClaimableHasAttemptsLeft,
                 AbsentIsFresh, TicketsIssued, OwnedClaimIsCurrent, ClaimsAreDistinct, Engaged,
                 Guarded, Queued

\* ClaimInv reads of a process only its label's class, its job and its ticket.
\* A step that lets each process keep them, or drop its job, and that neither
\* takes attempts from a row nor gives a row to a worker, preserves ClaimInv.
LEMMA ClaimFrame ==
    ASSUME TypeOK, TypeOK', ClaimInv,
           ASSUME NEW w \in Workers
           PROVE  \/ /\ proc'[w].job = proc[w].job
                     /\ proc'[w].ticket = proc[w].ticket
                     /\ proc'[w].pc \in Engaged <=> proc[w].pc \in Engaged
                  \/ proc'[w].job = NoJob /\ proc'[w].pc \notin Engaged,
           ASSUME NEW j \in Jobs
           PROVE  \/ /\ row[j].status = "ABSENT"
                     /\ row'[j].status = "PENDING"
                     /\ row'[j].attempts = 0
                  \/ /\ row'[j].attempts = row[j].attempts
                     /\ row'[j].status = "ABSENT" => row[j].status = "ABSENT"
                     /\ \/ row'[j].status \notin Queued
                        \/ row[j].status \in Queued
                        \/ row[j].attempts < MaxAttempts
                     /\ \/ row'[j].status # "RUNNING"
                        \/ /\ row[j].status = "RUNNING"
                           /\ row'[j].lockedBy = row[j].lockedBy
    PROVE  ClaimInv'
<1>1. EngagedHoldsJob'
  BY Constants DEF ClaimInv, EngagedHoldsJob
<1>2. ClaimableHasAttemptsLeft'
  BY Constants DEF ClaimInv, ClaimableHasAttemptsLeft
<1>3. TicketsIssued'
  BY Constants DEF ClaimInv, TicketsIssued
<1>4. OwnedClaimIsCurrent'
  BY Constants DEF ClaimInv, OwnedClaimIsCurrent, OwnsRunning
<1>5. ClaimsAreDistinct'
  BY Constants DEF ClaimInv, ClaimsAreDistinct
<1>6. AbsentIsFresh'
  BY Constants DEF ClaimInv, AbsentIsFresh
<1> QED BY <1>1, <1>2, <1>3, <1>4, <1>5, <1>6 DEF ClaimInv

\* What each row transition does to the fields ClaimInv reads.
LEMMA RowEffects ==
    ASSUME NEW r \in RowType
    PROVE  /\ \A late \in 0..MaxLag :
                 \/ Inserted(r, late) = r
                 \/ /\ r.status = "ABSENT"
                    /\ Inserted(r, late).status = "PENDING"
                    /\ Inserted(r, late).attempts = 0
           /\ \A delay \in Int :
                 /\ GivenBack(r, delay).attempts = r.attempts
                 /\ GivenBack(r, delay).status =
                       IF r.attempts < MaxAttempts THEN "RETRY_SCHEDULED" ELSE "FAILED"
           /\ Completed(r).attempts = r.attempts
           /\ Completed(r).status = "SUCCEEDED"
           /\ \A w \in Workers : \A late \in 0..MaxLag :
                 /\ Claimed(r, w, late).attempts = r.attempts + 1
                 /\ Claimed(r, w, late).status = "RUNNING"
                 /\ Claimed(r, w, late).lockedBy = w
BY DEF Inserted, GivenBack, Completed, Claimed, RowType

\* A process that only moves to another label keeps its job and its ticket.
LEMMA GoToEffects ==
    ASSUME TypeOK, NEW w \in Workers, NEW label, GoTo(w, label), NEW v \in Workers
    PROVE  /\ proc'[v].job = proc[v].job
           /\ proc'[v].ticket = proc[v].ticket
           /\ proc'[v].pc = IF v = w THEN label ELSE proc[v].pc
BY DEF TypeOK, ProcType, GoTo

\* A claim: the row's next attempt goes to a worker that had no job.
LEMMA ClaimPreserves ==
    ASSUME TypeOK, ClaimInv, NEW w \in Workers, Claim(w) PROVE ClaimInv'
<1>1. PICK j \in Jobs :
         /\ row[j].status \in Queued
         /\ row' = [row EXCEPT ![j] = Claimed(@, w, proc[w].lag)]
         /\ proc' = [proc EXCEPT ![w] = [pc |-> "acquire", job |-> j,
                                         ticket |-> row'[j].attempts, lag |-> 0]]
  BY DEF Claim, Claimable
<1>2. /\ row \in [Jobs -> RowType]
      /\ proc \in [Workers -> ProcType]
      /\ row[j].attempts \in Nat
      /\ proc[w].lag \in 0..MaxLag
  BY DEF TypeOK, RowType, ProcType
<1>3. /\ row'[j].attempts = row[j].attempts + 1
      /\ row'[j].status = "RUNNING"
      /\ row'[j].lockedBy = w
      /\ \A k \in Jobs : k # j => row'[k] = row[k]
  BY <1>1, <1>2, RowEffects
<1>4. /\ proc'[w].pc = "acquire"
      /\ proc'[w].job = j
      /\ proc'[w].ticket = row[j].attempts + 1
      /\ \A v \in Workers : v # w => proc'[v] = proc[v]
  BY <1>1, <1>2, <1>3
<1>5. \A v \in Workers : proc[v].job = j => proc[v].ticket <= row[j].attempts
  BY DEF ClaimInv, TicketsIssued
<1>6. \A v \in Workers : proc[v].ticket \in Nat
  BY <1>2, Constants DEF ProcType
<1>7. EngagedHoldsJob'
  BY <1>4 DEF ClaimInv, EngagedHoldsJob, Engaged
<1>8. ClaimableHasAttemptsLeft'
  BY <1>3 DEF ClaimInv, ClaimableHasAttemptsLeft, Queued
<1>9. TicketsIssued'
  <2> SUFFICES ASSUME NEW v \in Workers, NEW k \in Jobs, proc'[v].job = k
               PROVE  /\ row'[k].status # "ABSENT"
                      /\ 1 <= proc'[v].ticket
                      /\ proc'[v].ticket <= row'[k].attempts
    BY DEF TicketsIssued
  <2>1. CASE v = w
    BY <1>2, <1>3, <1>4, <2>1
  <2>2. CASE v # w /\ k = j
    BY <1>2, <1>3, <1>4, <1>6, <2>2 DEF ClaimInv, TicketsIssued
  <2>3. CASE v # w /\ k # j
    BY <1>3, <1>4, <2>3 DEF ClaimInv, TicketsIssued
  <2> QED BY <2>1, <2>2, <2>3
<1>10. OwnedClaimIsCurrent'
  <2> SUFFICES ASSUME NEW v \in Workers, NEW k \in Jobs,
                      proc'[v].job = k, OwnsRunning(v, k)'
               PROVE  proc'[v].ticket = row'[k].attempts
    BY DEF OwnedClaimIsCurrent
  <2>1. CASE k = j
    BY <1>3, <1>4, <2>1 DEF OwnsRunning
  <2>2. CASE k # j
    BY <1>3, <1>4, <2>2 DEF ClaimInv, OwnedClaimIsCurrent, OwnsRunning
  <2> QED BY <2>1, <2>2
<1>11. ClaimsAreDistinct'
  BY <1>2, <1>4, <1>5, <1>6 DEF ClaimInv, ClaimsAreDistinct
<1>12. AbsentIsFresh'
  BY <1>3 DEF ClaimInv, AbsentIsFresh
<1> QED BY <1>7, <1>8, <1>9, <1>10, <1>11, <1>12 DEF ClaimInv

LEMMA ClaimStep == TypeOK /\ TypeOK' /\ ClaimInv /\ [LossyNext]_vars => ClaimInv'
<1> SUFFICES ASSUME TypeOK, TypeOK', ClaimInv, [LossyNext]_vars PROVE ClaimInv'
  OBVIOUS
<1> DEFINE ProcFrame(w) == \/ /\ proc'[w].job = proc[w].job
                              /\ proc'[w].ticket = proc[w].ticket
                              /\ proc'[w].pc \in Engaged <=> proc[w].pc \in Engaged
                           \/ proc'[w].job = NoJob /\ proc'[w].pc \notin Engaged
           RowFrame(j) == \/ /\ row[j].status = "ABSENT"
                             /\ row'[j].status = "PENDING"
                             /\ row'[j].attempts = 0
                          \/ /\ row'[j].attempts = row[j].attempts
                             /\ row'[j].status = "ABSENT" => row[j].status = "ABSENT"
                             /\ \/ row'[j].status \notin Queued
                                \/ row[j].status \in Queued
                                \/ row[j].attempts < MaxAttempts
                             /\ \/ row'[j].status # "RUNNING"
                                \/ /\ row[j].status = "RUNNING"
                                   /\ row'[j].lockedBy = row[j].lockedBy
<1>t. /\ row \in [Jobs -> RowType]
      /\ proc \in [Workers -> ProcType]
  BY DEF TypeOK
<1>f. ASSUME \A w \in Workers : ProcFrame(w), \A j \in Jobs : RowFrame(j)
      PROVE  ClaimInv'
  BY <1>f, ClaimFrame
<1>r. ASSUME row' = row PROVE \A j \in Jobs : RowFrame(j)
  BY <1>r
<1>p. ASSUME proc' = proc PROVE \A w \in Workers : ProcFrame(w)
  BY <1>p
<1>g. ASSUME NEW w \in Workers, NEW label, GoTo(w, label),
             label \in Engaged <=> proc[w].pc \in Engaged
      PROVE  \A v \in Workers : ProcFrame(v)
  BY <1>g, GoToEffects
<1>d. ASSUME NEW w \in Workers, NEW d \in {Idle, Down}, proc' = [proc EXCEPT ![w] = d]
      PROVE  \A v \in Workers : ProcFrame(v)
  BY <1>d, <1>t DEF Idle, Down, Engaged, Guarded
<1>b. ASSUME NEW j \in Jobs, NEW delay \in Int, row'[j] = GivenBack(row[j], delay)
      PROVE  RowFrame(j)
  BY <1>b, <1>t, RowEffects DEF Queued
<1>i. ASSUME NEW j \in Jobs, NEW late \in 0..MaxLag, row'[j] = Inserted(row[j], late)
      PROVE  RowFrame(j)
  BY <1>i, <1>t, RowEffects
<1>l. \A w \in Workers : proc[w].lag \in 0..MaxLag /\ proc[w].ticket \in 0..MaxAttempts
  BY <1>t DEF ProcType
<1> HIDE DEF ProcFrame, RowFrame
<1>1. CASE UNCHANGED vars
  BY <1>1, <1>f, <1>r, <1>p DEF vars
<1>2. ASSUME NEW w \in Workers, StartRun(w) PROVE ClaimInv'
  BY <1>2, <1>f, <1>r, <1>g DEF StartRun, At, Engaged, Guarded
<1>3. ASSUME NEW w \in Workers, RecoverStale(w) PROVE ClaimInv'
  <2>1. \A v \in Workers : ProcFrame(v)
    BY <1>3, <1>g DEF RecoverStale, At, Engaged, Guarded
  <2>2. RetryBase - proc[w].lag \in Int
    BY <1>l, Constants
  <2>3. ASSUME NEW j \in Jobs PROVE RowFrame(j)
    <3>1. row'[j] = GivenBack(row[j], RetryBase - proc[w].lag) \/ row'[j] = row[j]
      BY <1>3 DEF RecoverStale
    <3>2. CASE row'[j] = row[j]
      BY <3>2 DEF RowFrame
    <3> QED BY <3>1, <3>2, <2>2, <1>b
  <2> QED BY <2>1, <2>3, <1>f
<1>4. ASSUME NEW w \in Workers, EnqueueDue(w) PROVE ClaimInv'
  <2>1. \A v \in Workers : ProcFrame(v)
    BY <1>4, <1>g DEF EnqueueDue, At, Engaged, Guarded
  <2>2. PICK k \in Jobs : row' = [row EXCEPT ![k] = Inserted(@, proc[w].lag)]
    BY <1>4, Constants DEF EnqueueDue
  <2>3. ASSUME NEW j \in Jobs PROVE RowFrame(j)
    <3>1. row'[j] = Inserted(row[j], proc[w].lag) \/ row'[j] = row[j]
      BY <1>t, <2>2
    <3>2. CASE row'[j] = row[j]
      BY <3>2 DEF RowFrame
    <3> QED BY <3>1, <3>2, <1>i, <1>l
  <2> QED BY <2>1, <2>3, <1>f
<1>5. ASSUME NEW w \in Workers, Claim(w) PROVE ClaimInv'
  BY <1>5, ClaimPreserves
<1>6. ASSUME NEW w \in Workers,
             ClaimNothing(w) \/ Restart(w) \/ Crash(w) \/ Release(w) \/ Expel(w)
      PROVE  ClaimInv'
  <2>1. \E d \in {Idle, Down} : proc' = [proc EXCEPT ![w] = d]
    BY <1>6 DEF ClaimNothing, Restart, Crash, Release, Expel
  <2>2. row' = row
    BY <1>6 DEF ClaimNothing, Restart, Crash, Release, Expel
  <2> QED BY <2>1, <2>2, <1>f, <1>r, <1>d
<1>7. ASSUME NEW w \in Workers, AcquireGuard(w) \/ HandlerEnds(w) \/ LoseLease(w)
      PROVE  ClaimInv'
  BY <1>7, <1>f, <1>r, <1>g DEF AcquireGuard, HandlerEnds, LoseLease, At, Engaged, Guarded
<1>8. ASSUME NEW w \in Workers, Heartbeat(w) PROVE ClaimInv'
  <2>1. PICK late \in 0..MaxLag : row' = [row EXCEPT ![proc[w].job].age = late]
    BY <1>8 DEF Heartbeat
  <2>2. \A j \in Jobs : RowFrame(j)
    BY <1>t, <2>1 DEF RowFrame, RowType
  <2> QED BY <1>8, <2>2, <1>f, <1>p DEF Heartbeat
<1>9. ASSUME NEW w \in Workers, Succeed(w) PROVE ClaimInv'
  <2>1. \A v \in Workers : ProcFrame(v)
    BY <1>9, <1>g DEF Succeed, At, Engaged, Guarded
  <2>2. ASSUME NEW j \in Jobs PROVE RowFrame(j)
    <3>1. row'[j] = Completed(row[j]) \/ row'[j] = row[j]
      BY <1>9, <1>t DEF Succeed
    <3> QED BY <3>1, <1>t, RowEffects DEF RowFrame, Queued
  <2> QED BY <2>1, <2>2, <1>f
<1>10. ASSUME NEW w \in Workers, Fail(w) PROVE ClaimInv'
  <2>1. \A v \in Workers : ProcFrame(v)
    BY <1>10, <1>g DEF Fail, At, Engaged, Guarded
  <2>2. PICK late \in 0..MaxLag :
           row' = [row EXCEPT ![proc[w].job] =
                                GivenBack(@, RetryDelay(proc[w].ticket) - late)]
    BY <1>10 DEF Fail
  <2>3. RetryDelay(proc[w].ticket) - late \in Int
    BY <1>l, DelayIsInt, Constants
  <2>4. ASSUME NEW j \in Jobs PROVE RowFrame(j)
    <3>1. \/ row'[j] = GivenBack(row[j], RetryDelay(proc[w].ticket) - late)
          \/ row'[j] = row[j]
      BY <1>t, <2>2
    <3>2. CASE row'[j] = row[j]
      BY <3>2 DEF RowFrame
    <3> QED BY <3>1, <3>2, <2>3, <1>b
  <2> QED BY <2>1, <2>4, <1>f
<1>11. ASSUME NEW k \in Jobs, Enqueue(k) PROVE ClaimInv'
  <2>1. PICK late \in 0..MaxLag : row' = [row EXCEPT ![k] = Inserted(@, late)]
    BY <1>11 DEF Enqueue
  <2>2. ASSUME NEW j \in Jobs PROVE RowFrame(j)
    <3>1. row'[j] = Inserted(row[j], late) \/ row'[j] = row[j]
      BY <1>t, <2>1
    <3>2. CASE row'[j] = row[j]
      BY <3>2 DEF RowFrame
    <3> QED BY <3>1, <3>2, <1>i
  <2> QED BY <1>11, <2>2, <1>f, <1>p DEF Enqueue
<1>12. ASSUME NEW j \in Jobs, SessionEnds(j) \/ LoseSession(j) PROVE ClaimInv'
  BY <1>12, <1>f, <1>r, <1>p DEF SessionEnds, LoseSession
<1>13. CASE Tick
  <2>1. \A w \in Workers : ProcFrame(w)
    BY <1>13, <1>t DEF Tick, ProcFrame, ProcType
  <2>2. \A j \in Jobs : RowFrame(j)
    BY <1>13, <1>t, OlderType DEF Tick, RowFrame
  <2> QED BY <2>1, <2>2, <1>f
<1> QED
  BY <1>1, <1>2, <1>3, <1>4, <1>5, <1>6, <1>7, <1>8, <1>9, <1>10, <1>11, <1>12,
     <1>13 DEF LossyNext, Next, RunOnce

-----------------------------------------------------------------------------
(* The guards: needs connections that live as long as their process.       *)

LEMMA GuardInit == Init => GuardInv
BY Constants DEF Init, Idle, GuardInv, Guarded

LEMMA GuardStep ==
    TypeOK /\ ClaimInv /\ ClaimInv' /\ GuardInv /\ [Next]_vars => GuardInv'
<1> SUFFICES ASSUME TypeOK, ClaimInv, ClaimInv', GuardInv, [Next]_vars
             PROVE  GuardInv'
  OBVIOUS
<1>t. /\ guard \in [Jobs -> Workers \cup {NoWorker, DeadSession}]
      /\ proc \in [Workers -> ProcType]
  BY DEF TypeOK
<1>h. \A w \in Workers : proc[w].pc \in Guarded => proc[w].job \in Jobs
  BY DEF ClaimInv, EngagedHoldsJob, Engaged
<1>k. ASSUME guard' = guard, NEW w \in Workers, NEW label, GoTo(w, label),
             label \in Guarded <=> proc[w].pc \in Guarded
      PROVE  GuardInv'
  BY <1>k, GoToEffects DEF GuardInv
<1>q. ASSUME guard' = guard, NEW w \in Workers, proc[w].pc \notin Guarded,
             proc'[w].pc \notin Guarded,
             \A v \in Workers : v # w => proc'[v] = proc[v]
      PROVE  GuardInv'
  BY <1>q DEF GuardInv
<1>1. CASE UNCHANGED vars
  BY <1>1 DEF vars, GuardInv
<1>2. ASSUME NEW w \in Workers, StartRun(w) \/ RecoverStale(w) \/ EnqueueDue(w)
      PROVE  GuardInv'
  BY <1>2, <1>k DEF StartRun, RecoverStale, EnqueueDue, At, Guarded
<1>3. ASSUME NEW w \in Workers, Claim(w) PROVE GuardInv'
  BY <1>3, <1>q, <1>t DEF Claim, At, Guarded
<1>4. ASSUME NEW w \in Workers, ClaimNothing(w) \/ Restart(w) PROVE GuardInv'
  BY <1>4, <1>q, <1>t DEF ClaimNothing, Restart, At, Guarded, Idle
<1>5. ASSUME NEW w \in Workers, AcquireGuard(w) PROVE GuardInv'
  <2>1. proc[w].job \in Jobs /\ guard[proc[w].job] = NoWorker
    BY <1>5 DEF AcquireGuard, At, ClaimInv, EngagedHoldsJob, Engaged
  <2>2. guard' = [guard EXCEPT ![proc[w].job] = w]
    BY <1>5 DEF AcquireGuard
  <2>3. \A v \in Workers : /\ proc'[v].job = proc[v].job
                           /\ proc'[v].pc = IF v = w THEN "handler" ELSE proc[v].pc
    BY <1>5, GoToEffects DEF AcquireGuard
  <2>4. \A v \in Workers : proc[v].pc \in Guarded => proc[v].job # proc[w].job
    BY <2>1, Constants DEF GuardInv
  <2> QED BY <1>t, <2>1, <2>2, <2>3, <2>4 DEF GuardInv, Guarded
<1>6. ASSUME NEW w \in Workers, HandlerEnds(w) \/ Succeed(w) \/ Fail(w) \/ LoseLease(w)
      PROVE  GuardInv'
  BY <1>6, <1>k DEF HandlerEnds, Succeed, Fail, LoseLease, At, Guarded
<1>7. ASSUME NEW w \in Workers, Release(w) \/ Expel(w) PROVE GuardInv'
  <2>1. guard' = Unlocked(w)
    BY <1>7 DEF Release, Expel
  <2>2. /\ proc'[w].pc \notin Guarded
        /\ \A v \in Workers : v # w => proc'[v] = proc[v]
    BY <1>7, <1>t DEF Release, Expel, Idle, Down, Guarded
  <2> QED BY <1>t, <1>h, <2>1, <2>2, Constants DEF GuardInv, Unlocked
<1>8. ASSUME NEW w \in Workers, Crash(w) PROVE GuardInv'
  <2>1. guard' = [j \in Jobs |-> IF guard[j] = w THEN DeadSession ELSE guard[j]]
    BY <1>8 DEF Crash
  <2>2. /\ proc'[w].pc \notin Guarded
        /\ \A v \in Workers : v # w => proc'[v] = proc[v]
    BY <1>8, <1>t DEF Crash, Idle, Down, Guarded
  <2> QED BY <1>t, <1>h, <2>1, <2>2, Constants DEF GuardInv
<1>9. ASSUME NEW j \in Jobs, SessionEnds(j) PROVE GuardInv'
  BY <1>9, <1>t, <1>h, Constants DEF SessionEnds, GuardInv
<1>10. ASSUME UNCHANGED <<guard, proc>> PROVE GuardInv'
  BY <1>10 DEF GuardInv
<1>11. CASE Tick
  <2>1. \A v \in Workers : proc'[v].job = proc[v].job /\ proc'[v].pc = proc[v].pc
    BY <1>11, <1>t DEF Tick, ProcType
  <2> QED BY <1>11, <1>t, <2>1 DEF Tick, GuardInv
<1> QED
  BY <1>1, <1>2, <1>3, <1>4, <1>5, <1>6, <1>7, <1>8, <1>9, <1>10, <1>11
  DEF Next, RunOnce, Heartbeat, Enqueue

-----------------------------------------------------------------------------
(* The theorems.                                                           *)

\* Types and claims, even over connections that break: no row leaves the
\* shape its check constraints demand and no ticket is issued twice.
THEOREM LossyInvariance == LossySpec => [](TypeOK /\ ClaimInv)
<1>1. Init => TypeOK /\ ClaimInv
  BY TypeInit, ClaimInit
<1>2. TypeOK /\ ClaimInv /\ [LossyNext]_vars => TypeOK' /\ ClaimInv'
  BY TypeStep, ClaimStep
<1> QED BY <1>1, <1>2, PTL DEF LossySpec

\* Every state of the queue has the type the code gives it (TypeOK).
THEOREM TypeCorrect == Spec => []TypeOK
<1>1. [Next]_vars => [LossyNext]_vars
  BY DEF LossyNext
<1>2. Spec => LossySpec
  BY <1>1, PTL DEF Spec, LossySpec
<1> QED BY <1>2, LossyInvariance, PTL

\* The invariant behind everything that follows (IInv).
THEOREM Invariance == Spec => []IInv
<1>1. Init => IInv
  BY TypeInit, ClaimInit, GuardInit DEF IInv
<1>2. IInv /\ [Next]_vars => IInv'
  <2> SUFFICES ASSUME IInv, [Next]_vars PROVE IInv'
    OBVIOUS
  <2>1. [LossyNext]_vars
    BY DEF LossyNext
  <2>2. TypeOK'
    BY <2>1, TypeStep DEF IInv
  <2>3. ClaimInv'
    BY <2>1, <2>2, ClaimStep DEF IInv
  <2>4. GuardInv'
    BY <2>3, GuardStep DEF IInv
  <2> QED BY <2>2, <2>3, <2>4 DEF IInv
<1> QED BY <1>1, <1>2, PTL DEF Spec

\* One job's handler never runs in two workers at once (execution_guard).
THEOREM Exclusion == Spec => []MutualExclusion
<1>1. IInv => MutualExclusion
  BY DEF IInv, GuardInv, MutualExclusion, Executes, At, Guarded
<1> QED BY <1>1, Invariance, PTL

\* claim never violates attempts_within_limit, even over broken connections.
THEOREM AttemptsLeft == LossySpec => []ClaimableHasAttemptsLeft
<1>1. ClaimInv => ClaimableHasAttemptsLeft
  BY DEF ClaimInv
<1> QED BY <1>1, LossyInvariance, PTL

\* Two live claims of a job never stand for the same attempt.
THEOREM DistinctClaims == LossySpec => []ClaimsAreDistinct
<1>1. ClaimInv => ClaimsAreDistinct
  BY DEF ClaimInv
<1> QED BY <1>1, LossyInvariance, PTL

-----------------------------------------------------------------------------
(* Which steps touch a row, and when.                                      *)

\* A row changes only by an insertion, a claim, a heartbeat, the end of its
\* attempt, a recovery that finds its guard free, or the passing of time.
LEMMA RowSteps ==
    ASSUME TypeOK, ClaimInv, [LossyNext]_vars, NEW j \in Jobs
    PROVE  \/ row'[j] = row[j]
           \/ row[j].status = "ABSENT" /\ row'[j].status = "PENDING" /\ row'[j].attempts = 0
           \/ /\ row[j].status \in Queued /\ row'[j].status = "RUNNING"
              /\ \E w \in Workers : Claim(w)
           \/ /\ row[j].status = "RUNNING" /\ row'[j].status = "RUNNING"
              /\ row'[j].attempts = row[j].attempts
           \/ /\ row[j].status \in Queued /\ row'[j].status = row[j].status
              /\ row'[j].attempts = row[j].attempts
           \/ /\ row[j].status = "RUNNING"
              /\ row'[j].attempts = row[j].attempts
              /\ \/ /\ row'[j].status = "SUCCEEDED"
                    /\ \E w \in Workers : Succeed(w) /\ proc[w].job = j /\ OwnsRunning(w, j)
                 \/ /\ row'[j].status = IF row[j].attempts < MaxAttempts
                                          THEN "RETRY_SCHEDULED" ELSE "FAILED"
                    /\ \/ guard[j] = NoWorker /\ \E w \in Workers : RecoverStale(w)
                       \/ \E w \in Workers : Fail(w) /\ proc[w].job = j
<1>t. /\ row \in [Jobs -> RowType]
      /\ proc \in [Workers -> ProcType]
  BY DEF TypeOK
<1>l. \A w \in Workers : proc[w].lag \in 0..MaxLag /\ proc[w].ticket \in 0..MaxAttempts
  BY <1>t DEF ProcType
<1>i. ASSUME NEW late \in 0..MaxLag, row'[j] = Inserted(row[j], late)
      PROVE  \/ row'[j] = row[j]
             \/ row[j].status = "ABSENT" /\ row'[j].status = "PENDING" /\ row'[j].attempts = 0
  BY <1>i, <1>t, RowEffects
<1>1. CASE row' = row
  BY <1>1
<1>2. ASSUME NEW w \in Workers, RecoverStale(w), row'[j] # row[j]
      PROVE  /\ row[j].status = "RUNNING"
             /\ row'[j].attempts = row[j].attempts
             /\ row'[j].status = IF row[j].attempts < MaxAttempts
                                   THEN "RETRY_SCHEDULED" ELSE "FAILED"
             /\ guard[j] = NoWorker
  <2>1. RetryBase - proc[w].lag \in Int
    BY <1>l, Constants
  <2>2. /\ row'[j] = GivenBack(row[j], RetryBase - proc[w].lag)
        /\ LeaseExpired(j, proc[w].lag)
        /\ guard[j] = NoWorker
    BY <1>2 DEF RecoverStale
  <2> QED BY <2>1, <2>2, <1>t, RowEffects DEF LeaseExpired
<1>3. ASSUME NEW w \in Workers, EnqueueDue(w), row'[j] # row[j]
      PROVE  row[j].status = "ABSENT" /\ row'[j].status = "PENDING" /\ row'[j].attempts = 0
  <2>1. row'[j] = Inserted(row[j], proc[w].lag)
    BY <1>3, <1>t, Constants DEF EnqueueDue
  <2> QED BY <1>3, <2>1, <1>i, <1>l
<1>4. ASSUME NEW w \in Workers, Claim(w), row'[j] # row[j]
      PROVE  row[j].status \in Queued /\ row'[j].status = "RUNNING"
  <2>1. row[j].status \in Queued /\ row'[j] = Claimed(row[j], w, proc[w].lag)
    BY <1>4, <1>t DEF Claim, Claimable
  <2> QED BY <2>1, <1>t, <1>l, RowEffects
<1>5. ASSUME NEW w \in Workers, Heartbeat(w), row'[j] # row[j]
      PROVE  /\ row[j].status = "RUNNING" /\ row'[j].status = "RUNNING"
             /\ row'[j].attempts = row[j].attempts
  BY <1>5, <1>t DEF Heartbeat, OwnsRunning, RowType
<1>6. ASSUME NEW w \in Workers, Succeed(w), row'[j] # row[j]
      PROVE  /\ proc[w].job = j /\ OwnsRunning(w, j)
             /\ row'[j].status = "SUCCEEDED" /\ row'[j].attempts = row[j].attempts
  <2>1. proc[w].job = j /\ OwnsRunning(w, j) /\ row'[j] = Completed(row[j])
    BY <1>6, <1>t DEF Succeed
  <2> QED BY <2>1, <1>t, RowEffects
<1>7. ASSUME NEW w \in Workers, Fail(w), row'[j] # row[j]
      PROVE  /\ proc[w].job = j /\ row[j].status = "RUNNING"
             /\ row'[j].attempts = row[j].attempts
             /\ row'[j].status = IF row[j].attempts < MaxAttempts
                                   THEN "RETRY_SCHEDULED" ELSE "FAILED"
  <2>1. PICK late \in 0..MaxLag :
           row' = [row EXCEPT ![proc[w].job] =
                                GivenBack(@, RetryDelay(proc[w].ticket) - late)]
    BY <1>7 DEF Fail
  <2>2. RetryDelay(proc[w].ticket) - late \in Int
    BY <1>l, DelayIsInt, Constants
  <2>3. /\ proc[w].job = j
        /\ row'[j] = GivenBack(row[j], RetryDelay(proc[w].ticket) - late)
    BY <1>7, <1>t, <2>1
  <2>4. row[j].status = "RUNNING"
    BY <1>7, <2>3 DEF Fail, OwnsRunning
  <2> QED BY <2>2, <2>3, <2>4, <1>t, RowEffects
<1>8. ASSUME NEW k \in Jobs, Enqueue(k), row'[j] # row[j]
      PROVE  row[j].status = "ABSENT" /\ row'[j].status = "PENDING" /\ row'[j].attempts = 0
  <2>1. PICK late \in 0..MaxLag : row' = [row EXCEPT ![k] = Inserted(@, late)]
    BY <1>8 DEF Enqueue
  <2>2. row'[j] = Inserted(row[j], late)
    BY <1>8, <1>t, <2>1
  <2> QED BY <1>8, <2>2, <1>i
<1>9. ASSUME Tick, row'[j] # row[j]
      PROVE  /\ row[j].status \in Queued \cup {"RUNNING"}
             /\ row'[j].status = row[j].status /\ row'[j].attempts = row[j].attempts
  <2>1. row'[j] = Older(row[j])
    BY <1>9 DEF Tick
  <2>2. row[j].status \in Queued \cup {"RUNNING"}
    <3> SUFFICES ASSUME row[j].status \notin Queued, row[j].status # "RUNNING"
                 PROVE  row'[j] = row[j]
      BY <1>9
    <3> QED BY <2>1 DEF Older, Queued
  <2>3. row[j] \in RowType
    BY <1>t
  <2>4. /\ Older(row[j]).status = row[j].status
        /\ Older(row[j]).attempts = row[j].attempts
    BY <2>3, OlderType
  <2> QED BY <2>1, <2>2, <2>4
<1>10. \/ row' = row \/ Tick
       \/ \E w \in Workers : \/ RecoverStale(w) \/ EnqueueDue(w) \/ Claim(w)
                             \/ Heartbeat(w) \/ Succeed(w) \/ Fail(w)
       \/ \E k \in Jobs : Enqueue(k)
  BY DEF LossyNext, Next, RunOnce, vars, StartRun, ClaimNothing, AcquireGuard, HandlerEnds,
         LoseLease, Release, Expel, Crash, Restart, SessionEnds, LoseSession
<1>11. CASE row'[j] = row[j]
  BY <1>11
<1>12. ASSUME row'[j] # row[j], NEW w \in Workers, RecoverStale(w) \/ Fail(w)
       PROVE  /\ row[j].status = "RUNNING"
              /\ row'[j].attempts = row[j].attempts
              /\ row'[j].status = IF row[j].attempts < MaxAttempts
                                    THEN "RETRY_SCHEDULED" ELSE "FAILED"
              /\ \/ guard[j] = NoWorker /\ \E v \in Workers : RecoverStale(v)
                 \/ \E v \in Workers : Fail(v) /\ proc[v].job = j
  BY <1>12, <1>2, <1>7
<1>13. CASE row'[j] # row[j] /\ \E w \in Workers : RecoverStale(w) \/ Fail(w)
  BY <1>12, <1>13
<1>14. CASE row'[j] # row[j] /\ \E w \in Workers : Succeed(w)
  BY <1>6, <1>14 DEF OwnsRunning
<1>15. CASE row'[j] # row[j] /\ \E w \in Workers : EnqueueDue(w) \/ Claim(w) \/ Heartbeat(w)
  BY <1>3, <1>4, <1>5, <1>15
<1>16. CASE row'[j] # row[j] /\ \E k \in Jobs : Enqueue(k)
  BY <1>8, <1>16
<1>17. CASE row'[j] # row[j] /\ Tick
  BY <1>9, <1>17
<1> QED BY <1>10, <1>11, <1>13, <1>14, <1>15, <1>16, <1>17

-----------------------------------------------------------------------------
(* Action properties and refinement.                                       *)

\* A settled row is never touched again, even over broken connections.
THEOREM Finality == LossySpec => SettledIsFinal
<1>1. TypeOK /\ ClaimInv /\ [LossyNext]_vars
        => [\A j \in Jobs : row[j].status \in Terminal => row'[j] = row[j]]_vars
  BY RowSteps DEF Terminal, Queued
<1> QED BY <1>1, LossyInvariance, PTL DEF LossySpec, SettledIsFinal

\* Success belongs to the current attempt, even over broken connections.
THEOREM SuccessIsCurrent == LossySpec => ResultFromCurrentAttempt
<1> DEFINE Current == \A j \in Jobs :
                        row[j].status # "SUCCEEDED" /\ row'[j].status = "SUCCEEDED"
                          => \E w \in Workers : /\ At(w, "succeed")
                                                /\ proc[w].job = j
                                                /\ proc[w].ticket = row[j].attempts
<1>1. TypeOK /\ ClaimInv /\ [LossyNext]_vars => [Current]_vars
  <2> SUFFICES ASSUME TypeOK, ClaimInv, [LossyNext]_vars, NEW j \in Jobs,
                      row[j].status # "SUCCEEDED", row'[j].status = "SUCCEEDED"
               PROVE  \E w \in Workers : /\ At(w, "succeed")
                                         /\ proc[w].job = j
                                         /\ proc[w].ticket = row[j].attempts
    OBVIOUS
  <2>1. \E w \in Workers : Succeed(w) /\ proc[w].job = j /\ OwnsRunning(w, j)
    BY RowSteps DEF Queued
  <2> QED BY <2>1 DEF Succeed, ClaimInv, OwnedClaimIsCurrent
<1> QED BY <1>1, LossyInvariance, PTL DEF LossySpec, ResultFromCurrentAttempt

\* A job whose handler is active stays RUNNING.
THEOREM ActiveHandlerSpared == Spec => ActiveHandlerKeepsItsJob
<1> DEFINE Keeps == \A j \in Jobs :
                      row[j].status = "RUNNING" /\ (\E w \in Workers : Executes(w, j))
                        => row'[j].status = "RUNNING"
<1>1. IInv /\ [Next]_vars => [Keeps]_vars
  <2> SUFFICES ASSUME IInv, [Next]_vars, NEW j \in Jobs, row[j].status = "RUNNING",
                      NEW w \in Workers, Executes(w, j), row'[j].status # "RUNNING"
               PROVE  FALSE
    OBVIOUS
  <2>1. TypeOK /\ ClaimInv /\ GuardInv /\ [LossyNext]_vars
    BY DEF IInv, LossyNext
  <2>2. guard[j] = w /\ guard[j] # NoWorker
    BY <2>1, Constants DEF GuardInv, Executes, At, Guarded
  <2>3. PICK v \in Workers : (Succeed(v) \/ Fail(v)) /\ proc[v].job = j
    BY <2>1, <2>2, RowSteps DEF Queued
  <2>4. guard[j] = v
    BY <2>1, <2>3 DEF GuardInv, Succeed, Fail, At, Guarded
  <2> QED BY <2>2, <2>3, <2>4 DEF Executes, Succeed, Fail, At
<1> QED BY <1>1, Invariance, PTL DEF Spec, ActiveHandlerKeepsItsJob

-----------------------------------------------------------------------------
(* The queue implements JobLifecycle.                                      *)

LEMMA InitRefines == Init => Lifecycle!Init
BY Constants DEF Init, Lifecycle!Init, AbstractState, AbstractTries, AbstractExecutor,
                 AbstractClaim, Queued, Idle, At

\* A worker's claim is what it is until it begins to wait for a guard, or ends.
LEMMA ClaimKept ==
    ASSUME TypeOK, NEW w \in Workers, proc[w].pc # "acquire",
           NEW p, p.pc # "acquire", proc' = [proc EXCEPT ![w] = p]
    PROVE  AbstractClaim' = AbstractClaim
BY DEF TypeOK, AbstractClaim, At

LEMMA ClaimKeptByGoTo ==
    ASSUME TypeOK, NEW w \in Workers, proc[w].pc # "acquire",
           NEW label, label # "acquire", GoTo(w, label)
    PROVE  AbstractClaim' = AbstractClaim
BY DEF TypeOK, ProcType, AbstractClaim, At, GoTo

\* A step that leaves the guards alone and every row in its class stutters.
LEMMA Stutters ==
    ASSUME guard' = guard, AbstractClaim' = AbstractClaim,
           \A j \in Jobs : /\ row'[j].attempts = row[j].attempts
                           /\ \/ row'[j].status = row[j].status
                              \/ row[j].status \in Queued /\ row'[j].status \in Queued
    PROVE  UNCHANGED Lifecycle!vars
BY DEF Lifecycle!vars, AbstractState, AbstractTries, AbstractExecutor

\* An insertion is a submission or finds its key taken.
LEMMA InsertRefines ==
    ASSUME TypeOK, NEW j \in Jobs, NEW late \in 0..MaxLag, guard' = guard,
           AbstractClaim' = AbstractClaim,
           row' = [row EXCEPT ![j] = Inserted(@, late)],
           row[j].status = "ABSENT" => row[j].attempts = 0
    PROVE  [Lifecycle!Next]_(Lifecycle!vars)
<1>1. /\ row \in [Jobs -> RowType]
      /\ \A k \in Jobs : k # j => row'[k] = row[k]
      /\ row'[j] = Inserted(row[j], late)
  BY DEF TypeOK
<1>2. CASE row[j].status # "ABSENT"
  BY <1>1, <1>2, InsertedType, Stutters
<1>3. CASE row[j].status = "ABSENT"
  <2>1. row'[j].status = "PENDING" /\ row'[j].attempts = 0
    BY <1>1, <1>3 DEF Inserted, RowType
  <2>2. Lifecycle!Submit(j)
    BY <1>1, <1>3, <2>1 DEF Lifecycle!Submit, AbstractState, AbstractTries,
                            AbstractExecutor, Queued
  <2> QED BY <2>2 DEF Lifecycle!Next
<1> QED BY <1>2, <1>3

LEMMA ClaimRefines ==
    ASSUME TypeOK, ClaimInv, NEW w \in Workers, Claim(w) PROVE Lifecycle!Next
<1>1. PICK j \in Jobs :
         /\ row[j].status \in Queued
         /\ row' = [row EXCEPT ![j] = Claimed(@, w, proc[w].lag)]
         /\ proc' = [proc EXCEPT ![w] = [pc |-> "acquire", job |-> j,
                                         ticket |-> row'[j].attempts, lag |-> 0]]
         /\ proc[w].pc = "claim"
         /\ guard' = guard
  BY DEF Claim, Claimable, At
<1>2. /\ row \in [Jobs -> RowType]
      /\ row[j].attempts \in Nat
      /\ proc[w].lag \in 0..MaxLag
  BY DEF TypeOK, RowType, ProcType
<1>3. /\ row'[j].attempts = row[j].attempts + 1
      /\ row'[j].status = "RUNNING"
      /\ \A k \in Jobs : k # j => row'[k] = row[k]
  BY <1>1, <1>2, RowEffects
<1>4. row[j].attempts < MaxAttempts
  BY <1>1 DEF ClaimInv, ClaimableHasAttemptsLeft
<1>5. AbstractClaim[w] = NoJob /\ AbstractClaim' = [AbstractClaim EXCEPT ![w] = j]
  BY <1>1 DEF TypeOK, AbstractClaim, At
<1>6. Lifecycle!Attempt(j, w)
  BY <1>1, <1>2, <1>3, <1>4, <1>5 DEF Lifecycle!Attempt, AbstractState, AbstractTries,
                                AbstractExecutor, Queued
<1> QED BY <1>1, <1>6 DEF Lifecycle!Next

\* Recovery takes back the attempts whose lease expired and guard is free.
LEMMA RecoverRefines ==
    ASSUME TypeOK, NEW w \in Workers, RecoverStale(w) PROVE Lifecycle!Next
<1> DEFINE delay == RetryBase - proc[w].lag
           S == {j \in Jobs : LeaseExpired(j, proc[w].lag) /\ guard[j] = NoWorker}
<1>1. /\ row \in [Jobs -> RowType]
      /\ delay \in Int
      /\ guard' = guard
  BY Constants DEF TypeOK, ProcType, RecoverStale
<1>2. \A j \in Jobs : row'[j] = IF j \in S THEN GivenBack(row[j], delay) ELSE row[j]
  BY DEF RecoverStale
<1>3. \A j \in S : /\ row[j].status = "RUNNING"
                   /\ guard[j] \notin Workers
  BY Constants DEF LeaseExpired
<1> HIDE DEF delay
<1>4. \A j \in S : /\ row'[j].attempts = row[j].attempts
                   /\ row'[j].status = IF row[j].attempts < MaxAttempts
                                         THEN "RETRY_SCHEDULED" ELSE "FAILED"
  BY <1>1, <1>2, RowEffects
<1>5. \A j \in Jobs : j \notin S => row'[j] = row[j]
  BY <1>2
<1>6. S \in SUBSET Jobs
  OBVIOUS
<1> HIDE DEF S
<1>7. Lifecycle!TakeBack(S)
  <2>1. \A j \in S : AbstractState[j] = "RUNNING" /\ AbstractExecutor[j] = NoWorker
    BY <1>3, <1>6 DEF AbstractState, AbstractExecutor, Queued
  <2>2. AbstractState' = [j \in Jobs |-> IF j \in S THEN Lifecycle!AfterFailure(j)
                                                    ELSE AbstractState[j]]
    BY <1>4, <1>5, <1>6 DEF AbstractState, AbstractTries, Lifecycle!AfterFailure, Queued
  <2>3. UNCHANGED <<AbstractTries, AbstractExecutor>>
    BY <1>1, <1>4, <1>5, <1>6 DEF AbstractTries, AbstractExecutor
  <2>4. AbstractClaim' = AbstractClaim
    BY ClaimKeptByGoTo DEF RecoverStale, At
  <2> QED BY <2>1, <2>2, <2>3, <2>4 DEF Lifecycle!TakeBack
<1> QED BY <1>6, <1>7 DEF Lifecycle!Next

\* A worker records the end of an attempt while it holds the job's guard.
LEMMA SettleRefines ==
    ASSUME IInv, NEW w \in Workers, Succeed(w) \/ Fail(w) PROVE Lifecycle!Next
<1> DEFINE j == proc[w].job
<1>1. j \in Jobs /\ guard[j] = w
  BY DEF IInv, GuardInv, ClaimInv, EngagedHoldsJob, Engaged, Guarded, Succeed, Fail, At
<1>2. /\ row \in [Jobs -> RowType]
      /\ proc[w].ticket \in 0..MaxAttempts
      /\ guard' = guard
  BY DEF IInv, TypeOK, ProcType, Succeed, Fail
<1>3. row[j].status = "RUNNING"
  BY DEF Succeed, Fail, OwnsRunning
<1>4. \A k \in Jobs : k # j => row'[k] = row[k]
  BY <1>2 DEF Succeed, Fail
<1>5. /\ row'[j].attempts = row[j].attempts
      /\ \/ row'[j].status = "SUCCEEDED"
         \/ row'[j].status = IF row[j].attempts < MaxAttempts
                               THEN "RETRY_SCHEDULED" ELSE "FAILED"
  <2>1. CASE Succeed(w)
    <3>1. row'[j] = Completed(row[j])
      BY <2>1, <1>1, <1>2 DEF Succeed
    <3> QED BY <3>1, <1>1, <1>2, RowEffects
  <2>2. CASE Fail(w)
    <3>1. PICK late \in 0..MaxLag :
             row' = [row EXCEPT ![proc[w].job] =
                                  GivenBack(@, RetryDelay(proc[w].ticket) - late)]
      BY <2>2 DEF Fail
    <3>2. RetryDelay(proc[w].ticket) - late \in Int
      BY <1>2, DelayIsInt, Constants
    <3>3. row'[j] = GivenBack(row[j], RetryDelay(proc[w].ticket) - late)
      BY <3>1, <1>1, <1>2
    <3> QED BY <3>2, <3>3, <1>1, <1>2, RowEffects
  <2> QED BY <2>1, <2>2
<1> HIDE DEF j
<1>6. Lifecycle!Settle(j)
  <2>1. AbstractState[j] = "RUNNING" /\ AbstractExecutor[j] # NoWorker
    BY <1>1, <1>3, Constants DEF AbstractState, AbstractExecutor, Queued
  <2>2. \E s \in {"SUCCEEDED", Lifecycle!AfterFailure(j)} :
           AbstractState' = [AbstractState EXCEPT ![j] = s]
    BY <1>1, <1>4, <1>5 DEF AbstractState, AbstractTries, Lifecycle!AfterFailure, Queued
  <2>3. UNCHANGED <<AbstractTries, AbstractExecutor>>
    BY <1>1, <1>2, <1>4, <1>5 DEF AbstractTries, AbstractExecutor
  <2>4. AbstractClaim' = AbstractClaim
    BY ClaimKeptByGoTo DEF IInv, Succeed, Fail, At
  <2> QED BY <2>1, <2>2, <2>3, <2>4 DEF Lifecycle!Settle
<1> QED BY <1>1, <1>6 DEF Lifecycle!Next

LEMMA AcquireRefines ==
    ASSUME IInv, NEW w \in Workers, AcquireGuard(w) PROVE Lifecycle!Next
<1> DEFINE j == proc[w].job
<1>1. /\ j \in Jobs
      /\ guard[j] = NoWorker
      /\ guard' = [guard EXCEPT ![j] = w]
      /\ row' = row
      /\ proc' = [proc EXCEPT ![w].pc = "handler"]
  BY DEF AcquireGuard, GoTo, IInv, ClaimInv, EngagedHoldsJob, Engaged, At
<1>2. /\ AbstractClaim[w] = j
      /\ AbstractClaim' = [AbstractClaim EXCEPT ![w] = NoJob]
  BY <1>1 DEF AcquireGuard, AbstractClaim, IInv, TypeOK, ProcType, At
<1>3. guard \in [Jobs -> Workers \cup {NoWorker, DeadSession}]
  BY DEF IInv, TypeOK
<1> HIDE DEF j
<1>4. Lifecycle!Begin(j, w)
  BY <1>1, <1>2, <1>3, Constants DEF Lifecycle!Begin, AbstractState, AbstractTries,
                                     AbstractExecutor
<1> QED BY <1>1, <1>4 DEF Lifecycle!Next

\* A worker that gives up a guard, or dies, ends its execution, if it had one.
LEMMA EndRefines ==
    ASSUME IInv, NEW w \in Workers, NEW gone \in {NoWorker, DeadSession}, row' = row,
           AbstractClaim' = AbstractClaim,
           guard' = [j \in Jobs |-> IF guard[j] = w THEN gone ELSE guard[j]]
    PROVE  [Lifecycle!Next]_(Lifecycle!vars)
<1>1. \A j, k \in Jobs : guard[j] = w /\ guard[k] = w => j = k
  BY DEF IInv, GuardInv
<1>2. guard \in [Jobs -> Workers \cup {NoWorker, DeadSession}]
  BY DEF IInv, TypeOK
<1>3. CASE \A j \in Jobs : guard[j] # w
  <2>1. guard' = guard
    BY <1>2, <1>3
  <2> QED BY <2>1, Stutters
<1>4. ASSUME NEW j \in Jobs, guard[j] = w PROVE Lifecycle!End(j)
  <2>1. \A k \in Jobs : k # j => guard'[k] = guard[k]
    BY <1>1, <1>4
  <2>2. guard'[j] \notin Workers
    BY <1>4, Constants
  <2> QED BY <1>2, <1>4, <2>1, <2>2, Constants
          DEF Lifecycle!End, AbstractState, AbstractTries, AbstractExecutor
<1> QED BY <1>3, <1>4 DEF Lifecycle!Next

LEMMA NextRefines == IInv /\ [Next]_vars => [Lifecycle!Next]_(Lifecycle!vars)
<1> SUFFICES ASSUME IInv, [Next]_vars PROVE [Lifecycle!Next]_(Lifecycle!vars)
  OBVIOUS
<1>i. TypeOK /\ ClaimInv
  BY DEF IInv
<1>t. /\ row \in [Jobs -> RowType]
      /\ guard \in [Jobs -> Workers \cup {NoWorker, DeadSession}]
      /\ \A w \in Workers : proc[w].lag \in 0..MaxLag
  BY <1>i DEF TypeOK, ProcType
<1>a. \A j \in Jobs : row[j].status = "ABSENT" => row[j].attempts = 0
  BY <1>i DEF ClaimInv, AbsentIsFresh
<1>1. ASSUME row' = row, guard' = guard, AbstractClaim' = AbstractClaim
      PROVE  UNCHANGED Lifecycle!vars
  BY <1>1, Stutters
<1>9. ASSUME NEW w \in Workers,
             StartRun(w) \/ ClaimNothing(w) \/ HandlerEnds(w) \/ LoseLease(w) \/ Restart(w)
      PROVE  UNCHANGED Lifecycle!vars
  <2>1. row' = row /\ guard' = guard
    BY <1>9 DEF StartRun, ClaimNothing, HandlerEnds, LoseLease, Restart
  <2>2. CASE StartRun(w) \/ HandlerEnds(w) \/ LoseLease(w)
    <3>1. AbstractClaim' = AbstractClaim
      BY <2>2, <1>i, ClaimKeptByGoTo DEF StartRun, HandlerEnds, LoseLease, At
    <3> QED BY <2>1, <3>1, <1>1
  <2>3. CASE ClaimNothing(w) \/ Restart(w)
    <3>1. AbstractClaim' = AbstractClaim
      BY <2>3, <1>i, ClaimKept DEF ClaimNothing, Restart, Idle, At
    <3> QED BY <2>1, <3>1, <1>1
  <2> QED BY <1>9, <2>2, <2>3
<1>2. ASSUME NEW w \in Workers, EnqueueDue(w) PROVE [Lifecycle!Next]_(Lifecycle!vars)
  <2>1. PICK j \in Jobs : row' = [row EXCEPT ![j] = Inserted(@, proc[w].lag)]
    BY <1>2, Constants DEF EnqueueDue
  <2>2. AbstractClaim' = AbstractClaim
    BY <1>2, <1>i, ClaimKeptByGoTo DEF EnqueueDue, At
  <2> QED BY <1>2, <2>1, <2>2, <1>i, <1>t, <1>a, InsertRefines DEF EnqueueDue
<1>3. ASSUME NEW w \in Workers,
             RecoverStale(w) \/ Claim(w) \/ Succeed(w) \/ Fail(w) \/ AcquireGuard(w)
      PROVE  Lifecycle!Next
  BY <1>3, <1>i, RecoverRefines, ClaimRefines, SettleRefines, AcquireRefines
<1>4. ASSUME NEW w \in Workers, Release(w) \/ Expel(w) \/ Crash(w)
      PROVE  [Lifecycle!Next]_(Lifecycle!vars)
  <2>1. CASE Release(w) \/ Expel(w)
    <3>1. \E p \in {Idle, Down} : proc' = [proc EXCEPT ![w] = p]
      BY <2>1 DEF Release, Expel
    <3>2. AbstractClaim' = AbstractClaim
      BY <2>1, <3>1, <1>i, ClaimKept DEF Release, Expel, Idle, Down, At
    <3> QED BY <2>1, <3>2, EndRefines DEF Release, Expel, Unlocked
  <2>2. CASE Crash(w) /\ ~At(w, "acquire")
    <3>1. AbstractClaim' = AbstractClaim
      BY <2>2, <1>i, ClaimKept DEF Crash, Idle, Down, At
    <3> QED BY <2>2, <3>1, EndRefines DEF Crash
  <2>3. CASE Crash(w) /\ At(w, "acquire")
    <3>1. \A j \in Jobs : guard[j] # w
      BY <2>3 DEF IInv, GuardInv, Guarded, At
    <3>2. guard' = guard /\ row' = row
      BY <2>3, <3>1, <1>t DEF Crash
    <3>3. AbstractClaim[w] # NoJob /\ AbstractClaim' = [AbstractClaim EXCEPT ![w] = NoJob]
      BY <2>3, Constants DEF Crash, AbstractClaim, IInv, TypeOK, ClaimInv, EngagedHoldsJob,
                             Engaged, Idle, Down, At
    <3>4. Lifecycle!Abandon(w)
      BY <3>2, <3>3 DEF Lifecycle!Abandon, AbstractState, AbstractTries, AbstractExecutor
    <3> QED BY <3>4 DEF Lifecycle!Next
  <2> QED BY <1>4, <2>1, <2>2, <2>3
<1>5. ASSUME NEW w \in Workers, Heartbeat(w) PROVE UNCHANGED Lifecycle!vars
  BY <1>5, <1>t, Stutters DEF Heartbeat, RowType, AbstractClaim, At
<1>6. ASSUME NEW j \in Jobs, Enqueue(j) PROVE [Lifecycle!Next]_(Lifecycle!vars)
  BY <1>6, <1>i, <1>a, InsertRefines DEF Enqueue, AbstractClaim, At
<1>7. ASSUME NEW j \in Jobs, SessionEnds(j) PROVE UNCHANGED Lifecycle!vars
  BY <1>7, <1>t, Constants DEF SessionEnds, Lifecycle!vars, AbstractState, AbstractTries,
                               AbstractExecutor, AbstractClaim, At
<1>8. ASSUME Tick PROVE UNCHANGED Lifecycle!vars
  <2>1. AbstractClaim' = AbstractClaim
    BY <1>8, <1>i DEF Tick, TypeOK, ProcType, AbstractClaim, At
  <2> QED BY <1>8, <2>1, <1>t, OlderType, Stutters DEF Tick
<1> QED
  <2>1. CASE UNCHANGED vars
    BY <2>1, <1>1 DEF vars, AbstractClaim, At
  <2>2. CASE Next
    BY <2>2, <1>2, <1>3, <1>4, <1>5, <1>6, <1>7, <1>8, <1>9 DEF Next, RunOnce
  <2> QED BY <2>1, <2>2

\* Every behaviour of the queue is a life of its jobs as JobLifecycle promises.
THEOREM Refinement == Spec => ImplementsLifecycle
BY InitRefines, NextRefines, Invariance, PTL DEF Spec, Lifecycle!Spec, ImplementsLifecycle
=============================================================================
