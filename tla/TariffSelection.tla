--------------------------- MODULE TariffSelection ---------------------------
(***************************************************************************)
(* The handler of `invoice.select-tariffs` jobs: TariffSelectionService    *)
(* offers the active catalog to a model and saves what it chose, once per  *)
(* invoice, behind an advisory lock on a connection of its own.            *)
(*                                                                         *)
(* The queue gives a job to one worker at a time; when its own guard's     *)
(* connection breaks (JobQueueGuardLost) a second one takes over while the *)
(* first still runs.                                                       *)
(***************************************************************************)
EXTENDS Naturals, FiniteSets

CONSTANTS Workers, Invoices, Ids, NoOne, MaxAttempts, MaxFaults

VARIABLES Offered,    \* the tariffs that are active and not deleted now
          job,        \* the job of each invoice: attempts, who has it, result
          handler,    \* what the handler of each worker is doing
          guard,      \* <<worker, invoice>>: selection_guard
          rowLock,    \* <<worker, invoice>>: invoice rows locked by save
          runs,       \* tariff_selection_runs: the run of each invoice
          pending,    \* invoices set to PENDING, with their item
          faults

Settled  == {"SUCCEEDED", "FAILED"}
Statuses == {"SELECTED", "NO_TARIFF", "LOW_CONFIDENCE"}
Run      == [invoice : Invoices, status : Statuses, tariffs : SUBSET Ids]
Labels   == {"idle", "guard", "existing", "context", "ask", "save", "invoice",
             "insert", "return", "raise"}

Handler  == [pc : Labels, invoice : Invoices \cup {NoOne}, candidates : SUBSET Ids,
             status : Statuses, tariffs : SUBSET Ids]

Idle == [pc |-> "idle", invoice |-> NoOne, candidates |-> {}, status |-> "NO_TARIFF",
         tariffs |-> {}]

Init == /\ job = [i \in Invoices |-> [state |-> "queued", tries |-> 0, owner |-> NoOne]]
        /\ handler = [w \in Workers |-> Idle]
        /\ guard = {} /\ rowLock = {} /\ runs = {} /\ pending = {}

At(w, label)   == handler[w].pc = label
GoTo(w, label) == handler' = [handler EXCEPT ![w].pc = label]
InvoiceOf(w)   == handler[w].invoice
RunsOf(i)      == {r \in runs : r.invoice = i}
Fault          == faults < MaxFaults /\ faults' = faults + 1

Without(locks, w) == {pair \in locks : pair[1] # w}
IsFree(locks, i)  == \A pair \in locks : pair[2] # i

-----------------------------------------------------------------------------
\* Mutant of Claimed: attempts are counted and not limited.
ClaimedAgain(w, i) ==
    /\ At(w, "idle")
    /\ job' = [job EXCEPT ![i] = [state |-> "running", tries |-> @.tries + 1, owner |-> w]]
    /\ handler' = [handler EXCEPT ![w] = [Idle EXCEPT !.pc = "guard", !.invoice = i]]
    /\ UNCHANGED <<guard, rowLock, runs, pending>>

\* A worker claims the job and begins its handler.
Claimed(w, i) ==
    /\ At(w, "idle")
    /\ job[i].tries < MaxAttempts
    /\ job' = [job EXCEPT ![i] = [state |-> "running", tries |-> @.tries + 1, owner |-> w]]
    /\ handler' = [handler EXCEPT ![w] = [Idle EXCEPT !.pc = "guard", !.invoice = i]]
    /\ UNCHANGED <<guard, rowLock, runs, pending>>

Claim(w, i) == job[i].state = "queued" /\ Claimed(w, i) /\ UNCHANGED faults

\* The lease expired and the execution guard was lost: the handler of another
\* worker still runs.
TakeOver(w, i) == job[i].state = "running" /\ Fault /\ Claimed(w, i)

\* selection_guard.
Guard(w) ==
    /\ At(w, "guard")
    /\ IsFree(guard, InvoiceOf(w))
    /\ guard' = guard \cup {<<w, InvoiceOf(w)>>}
    /\ GoTo(w, "existing")
    /\ UNCHANGED <<job, rowLock, runs, pending, faults>>

\* A run that exists is the answer.
Existing(w) ==
    /\ At(w, "existing")
    /\ GoTo(w, IF RunsOf(InvoiceOf(w)) = {} THEN "context" ELSE "return")
    /\ UNCHANGED <<job, guard, rowLock, runs, pending, faults>>

\* context: nobody is asked about an empty catalog.
Context(w) ==
    /\ At(w, "context")
    /\ handler' = [handler EXCEPT ![w].candidates = Offered,
                                  ![w].pc = IF Offered = {} THEN "save" ELSE "ask"]
    /\ UNCHANGED <<job, guard, rowLock, runs, pending, faults>>

\* The model is asked, outside any transaction, for tariffs that may meanwhile
\* be superseded or deleted.  An unsure answer selects nothing ...
Ask(w) ==
    /\ At(w, "ask")
    /\ \E status \in Statuses, chosen \in SUBSET handler[w].candidates :
          /\ (status = "SELECTED") = (chosen # {})
          /\ handler' = [handler EXCEPT ![w].pc = "save", ![w].status = status,
                                        ![w].tariffs = chosen]
    /\ UNCHANGED <<job, guard, rowLock, runs, pending, faults>>

\* ... and it may fail, or name a tariff that was not offered.
AskFails(w) ==
    /\ At(w, "ask")
    /\ GoTo(w, "raise")
    /\ UNCHANGED <<job, guard, rowLock, runs, pending, faults>>

\* save: a run that exists by now is the answer ...
Save(w) ==
    /\ At(w, "save")
    /\ GoTo(w, IF RunsOf(InvoiceOf(w)) = {} THEN "invoice" ELSE "return")
    /\ UNCHANGED <<job, guard, rowLock, runs, pending, faults>>

\* ... else the invoice's row is locked, and the choice must still be offered.
Valid(w) == handler[w].status = "SELECTED" => handler[w].tariffs \subseteq Offered

\* Mutant of LockInvoice: the choice was checked when the model gave it.
LockInvoiceUnchecked(w) ==
    /\ At(w, "invoice")
    /\ IsFree(rowLock, InvoiceOf(w))
    /\ rowLock' = rowLock \cup {<<w, InvoiceOf(w)>>}
    /\ GoTo(w, "insert")
    /\ UNCHANGED <<job, guard, runs, pending, faults>>

\* Mutant of LockInvoice: a stale choice is dropped without an error.
LockInvoiceOrReturn(w) ==
    /\ At(w, "invoice")
    /\ IsFree(rowLock, InvoiceOf(w))
    /\ IF Valid(w)
       THEN rowLock' = rowLock \cup {<<w, InvoiceOf(w)>>} /\ GoTo(w, "insert")
       ELSE UNCHANGED rowLock /\ GoTo(w, "return")
    /\ UNCHANGED <<job, guard, runs, pending, faults>>

LockInvoice(w) ==
    /\ At(w, "invoice")
    /\ IsFree(rowLock, InvoiceOf(w))
    /\ IF Valid(w)
       THEN rowLock' = rowLock \cup {<<w, InvoiceOf(w)>>} /\ GoTo(w, "insert")
       ELSE UNCHANGED rowLock /\ GoTo(w, "raise")
    /\ UNCHANGED <<job, guard, runs, pending, faults>>

Chosen(w) == [invoice |-> InvoiceOf(w), status |-> handler[w].status,
              tariffs |-> handler[w].tariffs]

\* Run, selected files, status of the invoice and pending item, all or none.
Written(w) ==
    /\ runs' = runs \cup {Chosen(w)}
    /\ pending' = IF handler[w].status = "SELECTED" THEN pending
                  ELSE pending \cup {InvoiceOf(w)}
    /\ rowLock' = Without(rowLock, w)

\* Mutant of Insert: there is no unique constraint on the invoice of a run.
InsertAnyway(w) ==
    /\ At(w, "insert")
    /\ Written(w)
    /\ GoTo(w, "return")
    /\ UNCHANGED <<job, guard, faults>>

Insert(w) ==
    /\ At(w, "insert")
    /\ IF RunsOf(InvoiceOf(w)) = {}
       THEN Written(w) /\ GoTo(w, "return")
       ELSE /\ rowLock' = Without(rowLock, w)
            /\ GoTo(w, "raise")
            /\ UNCHANGED <<runs, pending>>
    /\ UNCHANGED <<job, guard, faults>>

LoseCommit(w) ==
    /\ At(w, "insert")
    /\ RunsOf(InvoiceOf(w)) = {}
    /\ Fault
    /\ Written(w)
    /\ GoTo(w, "raise")
    /\ UNCHANGED <<job, guard>>

\* What an attempt leaves: a worker that has lost the job changes nothing.
After(w, ok) ==
    LET i == InvoiceOf(w)
    IN  IF job[i].owner # w \/ job[i].state # "running" THEN job
        ELSE [job EXCEPT ![i].state = IF ok THEN "SUCCEEDED"
                                      ELSE IF job[i].tries < MaxAttempts THEN "queued"
                                      ELSE "FAILED"]

\* Mutant of Ended: only a return gives the lock back.
EndedHolding(w, ok) == /\ job' = After(w, ok)
                       /\ handler' = [handler EXCEPT ![w] = Idle]
                       /\ guard' = IF ok THEN Without(guard, w) ELSE guard
                       /\ rowLock' = Without(rowLock, w)
                       /\ UNCHANGED <<runs, pending>>

Ended(w, ok) == /\ job' = After(w, ok)
                /\ handler' = [handler EXCEPT ![w] = Idle]
                /\ guard' = Without(guard, w)
                /\ rowLock' = Without(rowLock, w)
                /\ UNCHANGED <<runs, pending>>

Leave(w) == /\ \/ At(w, "return") /\ Ended(w, TRUE)
               \/ At(w, "raise")  /\ Ended(w, FALSE)
            /\ UNCHANGED faults

\* The worker dies or its database fails; its lease expires and the job is
\* taken back.
Crash(w) == handler[w].pc # "idle" /\ Fault /\ Ended(w, FALSE)

\* The connection that holds selection_guard breaks; the handler goes on.
LoseGuard(w) ==
    /\ \E i \in Invoices : <<w, i>> \in guard
    /\ Fault
    /\ guard' = Without(guard, w)
    /\ UNCHANGED <<job, handler, rowLock, runs, pending>>

-----------------------------------------------------------------------------
Progress(w) == \/ Guard(w) \/ Existing(w) \/ Context(w) \/ Ask(w) \/ Save(w)
               \/ LockInvoice(w) \/ Insert(w) \/ Leave(w)

Next == \E w \in Workers : \/ Progress(w) \/ AskFails(w) \/ LoseCommit(w)
                           \/ Crash(w) \/ LoseGuard(w)
                           \/ \E i \in Invoices : Claim(w, i) \/ TakeOver(w, i)
=============================================================================
