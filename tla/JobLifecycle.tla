---------------------------- MODULE JobLifecycle ----------------------------
(***************************************************************************)
(* What the durable queue promises about one unit of background work,      *)
(* whatever leases, heartbeats and processes do underneath.                *)
(*                                                                         *)
(* A job is submitted once and attempted at most MaxAttempts times.  The   *)
(* worker that claimed an attempt executes it at most once, and nobody     *)
(* else executes the job meanwhile.  An attempt that is executed is ended  *)
(* only by settling it; one that nobody executes may be taken back, even   *)
(* before the worker that claimed it begins.                               *)
(***************************************************************************)
EXTENDS Naturals

CONSTANTS Workers,      \* the worker processes
          Jobs,         \* the idempotency keys under which work is enqueued
          NoWorker,     \* nobody
          NoJob,        \* nothing
          MaxAttempts   \* how often a job may be attempted

VARIABLES state,        \* where a job is in its life
          tries,        \* how often it was attempted
          executor,     \* who executes it now
          claim         \* the job a worker claimed and has not begun

vars == <<state, tries, executor, claim>>

States == {"ABSENT", "QUEUED", "RUNNING", "SUCCEEDED", "FAILED"}

LifecycleTypeOK == /\ state \in [Jobs -> States]
                   /\ tries \in [Jobs -> 0..MaxAttempts]
                   /\ executor \in [Jobs -> Workers \cup {NoWorker}]
                   /\ claim \in [Workers -> Jobs \cup {NoJob}]

Init == /\ state = [j \in Jobs |-> "ABSENT"]
        /\ tries = [j \in Jobs |-> 0]
        /\ executor = [j \in Jobs |-> NoWorker]
        /\ claim = [w \in Workers |-> NoJob]

Submit(j) == /\ state[j] = "ABSENT"
             /\ state' = [state EXCEPT ![j] = "QUEUED"]
             /\ UNCHANGED <<tries, executor, claim>>

Attempt(j, w) == /\ state[j] = "QUEUED"
                 /\ tries[j] < MaxAttempts
                 /\ claim[w] = NoJob
                 /\ state' = [state EXCEPT ![j] = "RUNNING"]
                 /\ tries' = [tries EXCEPT ![j] = @ + 1]
                 /\ claim' = [claim EXCEPT ![w] = j]
                 /\ UNCHANGED executor

\* A worker may begin late, after its attempt was taken back: the promise is
\* that it never executes beside another worker.
Begin(j, w) == /\ claim[w] = j
               /\ executor[j] = NoWorker
               /\ executor' = [executor EXCEPT ![j] = w]
               /\ claim' = [claim EXCEPT ![w] = NoJob]
               /\ UNCHANGED <<state, tries>>

\* A worker dies before it began.
Abandon(w) == /\ claim[w] # NoJob
              /\ claim' = [claim EXCEPT ![w] = NoJob]
              /\ UNCHANGED <<state, tries, executor>>

End(j) == /\ executor[j] # NoWorker
          /\ executor' = [executor EXCEPT ![j] = NoWorker]
          /\ UNCHANGED <<state, tries, claim>>

\* What an attempt that did not succeed leaves behind.
AfterFailure(j) == IF tries[j] < MaxAttempts THEN "QUEUED" ELSE "FAILED"

Settle(j) == /\ state[j] = "RUNNING"
             /\ executor[j] # NoWorker
             /\ \E s \in {"SUCCEEDED", AfterFailure(j)} :
                   state' = [state EXCEPT ![j] = s]
             /\ UNCHANGED <<tries, executor, claim>>

\* One recovery takes back any number of attempts that nobody executes.
TakeBack(S) == /\ \A j \in S : state[j] = "RUNNING" /\ executor[j] = NoWorker
               /\ state' = [j \in Jobs |-> IF j \in S THEN AfterFailure(j)
                                                      ELSE state[j]]
               /\ UNCHANGED <<tries, executor, claim>>

Next == \/ \E j \in Jobs : \/ Submit(j) \/ End(j) \/ Settle(j)
                           \/ \E w \in Workers : Attempt(j, w) \/ Begin(j, w)
        \/ \E w \in Workers : Abandon(w)
        \/ \E S \in SUBSET Jobs : TakeBack(S)

Spec == Init /\ [][Next]_vars
=============================================================================
