------------------------ MODULE EmailClassification ------------------------
(***************************************************************************)
(* From an ingested mail to a filed mail and a submitted invoice: the      *)
(* handler of `email.classify` jobs (EmailClassificationJobHandler and     *)
(* EmailClassificationService), the rows it keeps, the mail server it      *)
(* moves mail on, and the reviewer who decides what the model would not.   *)
(*                                                                         *)
(* Jobs are executed as JobLifecycle promises, which JobQueue implements:  *)
(* one worker at a time for one job, more than once if need be.  A message *)
(* has two jobs, so two workers may have their hands on it together.       *)
(***************************************************************************)
EXTENDS Naturals

CONSTANTS Workers,       \* the worker processes
          Messages,      \* mail_messages rows, each of them ingested
          OtherClasses,  \* DUE_NOTICE and GENERAL, which the code treats alike
          NoWorker,      \* nobody
          NoJob,         \* no job in hand
          MaxAttempts    \* worker_max_attempts

Classes == OtherClasses \cup {"INVOICE", "MANUAL_REVIEW"}

ASSUME ClassificationAssumption ==
    /\ NoWorker \notin Workers
    /\ MaxAttempts \in Nat \ {0}
    /\ NoJob \notin Messages \X {"classify", "review"}
    /\ {"INVOICE", "MANUAL_REVIEW", "NONE", "INBOX"} \cap OtherClasses = {}

VARIABLES state, tries, executor, claim,  \* the queue, as JobLifecycle keeps it
          row,      \* the mail_messages table
          place,    \* where each mail lies on the IMAP server
          intake,   \* how far InvoiceIntakeService.submit got with each mail
          handler,  \* what each worker is doing
          undecided \* resolved messages whose move the API has yet to enqueue

queueVars == <<state, tries, executor, claim>>
vars == <<state, tries, executor, claim, row, place, intake, handler, undecided>>

\* `email.classify:<id>` and `email.review.move:<id>:<class>`; a message is
\* resolved once, so there is at most one of the latter.
Jobs == Messages \X {"classify", "review"}

ClassifyJob(m) == <<m, "classify">>
ReviewJob(m)   == <<m, "review">>

Queue == INSTANCE JobLifecycle

\* Each class has a folder of its own, named here like the class.
Destination(class) == class

\* A UID is never used again in its folder (uidvalidity): a mail takes a new
\* one each time it is moved.
Locators == [folder : Classes \cup {"INBOX"}, uid : Nat]
Arrival  == [folder |-> "INBOX", uid |-> 0]

RowType == [class    : Classes \cup {"NONE"},
            status   : {"INGESTED", "CLASSIFIED", "MANUAL_REVIEW", "MOVED", "ERROR"},
            moved    : BOOLEAN,       \* moved_at is set
            loc      : Locators,      \* current_folder, uidvalidity, uid
            reviewed : BOOLEAN]       \* reviewed_at is set

Working == {"load", "ask", "save", "move", "report", "mark", "create", "dispatch"}
Ending  == {"done", "raised"}

HandlerType == [pc    : {"idle", "leave"} \cup Working \cup Ending,
                job   : Jobs \cup {NoJob},
                loc   : Locators,                    \* the locator it works with
                class : Classes \cup {"NONE"}]       \* the class it works with

Resting == [pc |-> "idle", job |-> NoJob, loc |-> Arrival, class |-> "NONE"]

Init == /\ Queue!Init
        /\ row = [m \in Messages |-> [class |-> "NONE", status |-> "INGESTED",
                                      moved |-> FALSE, loc |-> Arrival,
                                      reviewed |-> FALSE]]
        /\ place = [m \in Messages |-> Arrival]
        /\ intake = [m \in Messages |-> "none"]
        /\ handler = [w \in Workers |-> Resting]
        /\ undecided = {}

At(w, label) == handler[w].pc = label
Mail(w)      == handler[w].job[1]

GoTo(w, label) == handler' = [handler EXCEPT ![w].pc = label]

-----------------------------------------------------------------------------
(* The queue around the handler.                                           *)

\* The ingestion job enqueues the classification of what it ingested.
EnqueueClassify(m) ==
    /\ Queue!Submit(ClassifyJob(m))
    /\ UNCHANGED <<row, place, intake, handler, undecided>>

\* An idle worker claims a job, ...
Claim(w, j) ==
    /\ At(w, "idle")
    /\ Queue!Attempt(j, w)
    /\ UNCHANGED <<row, place, intake, handler, undecided>>

\* ... and a recovery may take jobs back that nobody executes yet or any more.
Recover(S) ==
    /\ Queue!TakeBack(S)
    /\ UNCHANGED <<row, place, intake, handler, undecided>>

\* The worker has the job to itself and calls the handler.
Begin(w, j) ==
    /\ Queue!Begin(j, w)
    /\ handler' = [handler EXCEPT ![w] = [Resting EXCEPT !.pc = "load", !.job = j]]
    /\ UNCHANGED <<row, place, intake, undecided>>

\* The handler returned, or raised: the attempt is settled, ...
Finish(w) ==
    LET j == handler[w].job
    IN  /\ handler[w].pc \in Ending
        /\ Queue!Settle(j)
        /\ state'[j] = IF At(w, "done") THEN "SUCCEEDED" ELSE Queue!AfterFailure(j)
        /\ GoTo(w, "leave")
        /\ UNCHANGED <<row, place, intake, undecided>>

\* ... unless the claim was lost, ...
LoseClaim(w) ==
    /\ handler[w].pc \in Ending
    /\ GoTo(w, "leave")
    /\ UNCHANGED <<queueVars, row, place, intake, undecided>>

\* ... and the worker lets the job go.  A crash does that at any point.
LetGo(w) ==
    /\ Queue!End(handler[w].job)
    /\ handler' = [handler EXCEPT ![w] = Resting]
    /\ UNCHANGED <<row, place, intake, undecided>>

Leave(w) == At(w, "leave") /\ LetGo(w)

Crash(w) == \/ ~At(w, "idle") /\ LetGo(w)
            \/ Queue!Abandon(w) /\ UNCHANGED <<row, place, intake, handler, undecided>>

-----------------------------------------------------------------------------
(* classify_and_move.                                                      *)

\* A retry that finds the mail moved has nothing left to do.
MovedIsDone(r) == CASE r.class = "NONE"                -> "ask"
                    [] r.class # "NONE" /\ r.moved     -> "done"
                    [] r.class # "NONE" /\ ~r.moved    -> "move"

\* A retry after an error asks the model again.
ErrorAsksAgain(r) == CASE r.status \in {"INGESTED", "ERROR"}     -> "ask"
                       [] r.status \notin {"INGESTED", "ERROR"} ->
                             IF r.moved THEN "mark" ELSE "move"

\* What classify_and_move goes on with, given the candidate it read.
AfterLoad(r) == CASE r.class = "NONE"                -> "ask"
                  [] r.class # "NONE" /\ r.moved     -> "mark"
                  [] r.class # "NONE" /\ ~r.moved    -> "move"

\* The candidate is read in a transaction of its own: what is decided on it
\* may be outdated one step later.
Load(w) ==
    LET r == row[Mail(w)]
    IN  /\ At(w, "load")
        /\ handler' = [handler EXCEPT ![w].pc = AfterLoad(r), ![w].loc = r.loc,
                                      ![w].class = r.class]
        /\ UNCHANGED <<queueVars, row, place, intake, undecided>>

\* get_thread_context finds the mail and the model answers; an answer below
\* the threshold becomes MANUAL_REVIEW.
Ask(w) ==
    /\ At(w, "ask")
    /\ place[Mail(w)] = handler[w].loc
    /\ \E c \in Classes :
          handler' = [handler EXCEPT ![w].pc = "save", ![w].class = c]
    /\ UNCHANGED <<queueVars, row, place, intake, undecided>>

Classified(r, c) ==
    IF r.class # "NONE"
      THEN r
      ELSE [r EXCEPT !.class = c,
                     !.status = IF c = "MANUAL_REVIEW" THEN c ELSE "CLASSIFIED"]

\* What was persisted is taken for all there is to do.
SaveIsEnough(w) ==
    /\ At(w, "save")
    /\ row' = [row EXCEPT ![Mail(w)] = Classified(@, handler[w].class)]
    /\ GoTo(w, "done")
    /\ UNCHANGED <<queueVars, place, intake, undecided>>

\* save_classification; the candidate is read again afterwards.
Save(w) ==
    /\ At(w, "save")
    /\ row' = [row EXCEPT ![Mail(w)] = Classified(@, handler[w].class)]
    /\ GoTo(w, "load")
    /\ UNCHANGED <<queueVars, place, intake, undecided>>

\* The mail is moved if it still lies where the row said.
Moved(w) ==
    LET m == Mail(w)
    IN  /\ place[m] = handler[w].loc
        /\ place' = [place EXCEPT ![m] = [folder |-> Destination(handler[w].class),
                                          uid    |-> @.uid + 1]]

\* A MOVE without COPYUID is taken for done, with the locator it had.
MoveTrustsOldLocator(w) ==
    /\ At(w, "move")
    /\ \/ Moved(w) /\ GoTo(w, "mark")
       \/ UNCHANGED place /\ GoTo(w, "report")
    /\ UNCHANGED <<queueVars, row, intake, undecided>>

\* move_message: moved and reported with its new locator; moved, but the reply
\* or its COPYUID never arrives; or not moved.
Move(w) ==
    /\ At(w, "move")
    /\ \/ /\ Moved(w)
          /\ handler' = [handler EXCEPT ![w].pc = "mark", ![w].loc = place'[Mail(w)]]
       \/ Moved(w) /\ GoTo(w, "report")
       \/ UNCHANGED place /\ GoTo(w, "report")
    /\ UNCHANGED <<queueVars, row, intake, undecided>>

\* mark_movement_error, whatever happened to the row meanwhile.
Report(w) ==
    /\ At(w, "report")
    /\ row' = [row EXCEPT ![Mail(w)].status = "ERROR"]
    /\ GoTo(w, "raised")
    /\ UNCHANGED <<queueVars, place, intake, undecided>>

\* The status names the class the mail is filed under.
StatusIsClass(r, loc) ==
    IF r.moved THEN r ELSE [r EXCEPT !.loc = loc, !.moved = TRUE, !.status = r.class]

Filed(r, loc) ==
    IF r.moved
      THEN r
      ELSE [r EXCEPT !.loc = loc,
                     !.moved = TRUE,
                     !.status = IF r.class = "MANUAL_REVIEW" THEN r.class ELSE "MOVED"]

\* mark_moved answers with the row as it is now; its class decides whether an
\* invoice is submitted.
Mark(w) ==
    /\ At(w, "mark")
    /\ row' = [row EXCEPT ![Mail(w)] = Filed(@, handler[w].loc)]
    /\ GoTo(w, IF row[Mail(w)].class = "INVOICE" THEN "create" ELSE "done")
    /\ UNCHANGED <<queueVars, place, intake, undecided>>

\* submit_invoice_email: create_or_get commits the submission, ...
Create(w) ==
    /\ At(w, "create")
    /\ intake' = [intake EXCEPT ![Mail(w)] = IF @ = "none" THEN "created" ELSE @]
    /\ GoTo(w, "dispatch")
    /\ UNCHANGED <<queueVars, row, place, undecided>>

\* ... then the tariff selection is enqueued.
Dispatch(w) ==
    /\ At(w, "dispatch")
    /\ intake' = [intake EXCEPT ![Mail(w)] = "dispatched"]
    /\ GoTo(w, "done")
    /\ UNCHANGED <<queueVars, row, place, undecided>>

\* Any step may raise instead: the AI, IMAP or database call it makes failed.
Raise(w) ==
    /\ handler[w].pc \in Working
    /\ GoTo(w, "raised")
    /\ UNCHANGED <<queueVars, row, place, intake, undecided>>

HandlerStep(w) == \/ Load(w) \/ Ask(w) \/ Save(w) \/ Move(w) \/ Report(w)
                  \/ Mark(w) \/ Create(w) \/ Dispatch(w) \/ Raise(w)
                  \/ Finish(w) \/ LoseClaim(w) \/ Leave(w)

-----------------------------------------------------------------------------
(* PATCH /emails/{id}/review.                                              *)

Conclusive == Classes \ {"MANUAL_REVIEW"}

Resolved(r, c) == [r EXCEPT !.class = c, !.status = "CLASSIFIED",
                            !.moved = FALSE, !.reviewed = TRUE]

\* A reviewer may change any classification.
ResolveAny(m) ==
    /\ row[m].class # "NONE"
    /\ \E c \in Conclusive : row' = [row EXCEPT ![m] = Resolved(@, c)]
    /\ undecided' = undecided \cup {m}
    /\ UNCHANGED <<queueVars, place, intake, handler>>

\* resolve_manual_review commits the reviewer's decision, ...
Resolve(m) ==
    /\ row[m].class = "MANUAL_REVIEW"
    /\ \E c \in Conclusive : row' = [row EXCEPT ![m] = Resolved(@, c)]
    /\ undecided' = undecided \cup {m}
    /\ UNCHANGED <<queueVars, place, intake, handler>>

\* ... then the route enqueues the move, ...
EnqueueMove(m) ==
    /\ m \in undecided
    /\ Queue!Submit(ReviewJob(m))
    /\ undecided' = undecided \ {m}
    /\ UNCHANGED <<row, place, intake, handler>>

\* ... unless the API process dies in between.
ApiCrash(m) ==
    /\ m \in undecided
    /\ undecided' = undecided \ {m}
    /\ UNCHANGED <<queueVars, row, place, intake, handler>>

-----------------------------------------------------------------------------
Next == \/ \E S \in SUBSET Jobs \ {{}} : Recover(S)
        \/ \E w \in Workers : \/ HandlerStep(w)
                              \/ Crash(w)
                              \/ \E j \in Jobs : Claim(w, j) \/ Begin(w, j)
        \/ \E m \in Messages : \/ EnqueueClassify(m) \/ Resolve(m)
                               \/ EnqueueMove(m) \/ ApiCrash(m)

Spec == Init /\ [][Next]_vars

\* What JobQueue ensures (its EveryJobSettles): a queued job is claimed and
\* begun, an attempt nobody executes is taken back, although workers crash; and
\* every call the handler makes has a timeout.
Fairness ==
    /\ \A j \in Jobs : /\ SF_vars(\E w \in Workers : Claim(w, j))
                       /\ SF_vars(Recover({j}))
    /\ \A w \in Workers : /\ SF_vars(\E j \in Jobs : Begin(w, j))
                          /\ WF_vars(HandlerStep(w))

FairSpec == Spec /\ Fairness

-----------------------------------------------------------------------------
(* Properties.                                                             *)

TypeOK == /\ Queue!LifecycleTypeOK
          /\ row \in [Messages -> RowType]
          /\ place \in [Messages -> Locators]
          /\ intake \in [Messages -> {"none", "created", "dispatched"}]
          /\ handler \in [Workers -> HandlerType]
          /\ undecided \subseteq Messages

\* A mail no reviewer touched that is marked moved lies on the server exactly
\* where its row says, in the folder of its class: lost replies, crashes and
\* redelivered jobs never make the row claim a move that did not happen.
FiledWhereItSays ==
    \A m \in Messages :
       row[m].moved /\ ~row[m].reviewed
         => /\ row[m].loc = place[m]
            /\ place[m].folder = Destination(row[m].class)

\* A job that succeeded did all of its work, whichever attempt or other job did
\* it: the row is marked moved and an invoice is on its way to the audit.
SucceededIsComplete ==
    \A m \in Messages :
       (\/ state[ClassifyJob(m)] = "SUCCEEDED" /\ ~row[m].reviewed
        \/ state[ReviewJob(m)] = "SUCCEEDED")
         => /\ row[m].moved
            /\ row[m].class = "INVOICE" => intake[m] = "dispatched"

\* Nothing but an INVOICE is ever submitted to the audit, also when the class is
\* decided by a reviewer while a worker is at the mail.
OnlyInvoicesAreSubmitted ==
    \A m \in Messages : intake[m] # "none" => row[m].class = "INVOICE"

\* The model is asked about a mail only while it has no classification: a retry
\* after any failure reuses the answer that was persisted.
NoSecondOpinion ==
    [][\A w \in Workers :
          At(w, "ask") /\ handler'[w].pc = "save"
            => row[Mail(w)].class = "NONE"]_vars

\* A recorded movement error is recoverable: when the attempt after it is due,
\* the row still tells where the mail is.
RecordedErrorIsRetryable ==
    \A m \in Messages :
       (/\ state[ClassifyJob(m)] = "QUEUED"
        /\ executor[ClassifyJob(m)] = NoWorker
        /\ row[m].status = "ERROR"
        /\ ~row[m].moved)
         => row[m].loc = place[m]

\* The job that moves a resolved mail moves it where the reviewer decided.
ReviewedIsFiled ==
    \A m \in Messages :
       state[ReviewJob(m)] = "SUCCEEDED"
         => place[m].folder = Destination(row[m].class)

\* No mail is forgotten: once its job is enqueued it is filed, or a reviewer
\* takes it over, or the job is settled as FAILED where an operator sees it.
EveryMailIsFiledOrFails ==
    \A m \in Messages :
       state[ClassifyJob(m)] # "ABSENT"
         ~> \/ row[m].moved \/ row[m].reviewed
            \/ state[ClassifyJob(m)] = "FAILED"

-----------------------------------------------------------------------------
(* The inductive invariant behind the safety properties.                   *)

\* A worker in its handler and the job it executes name each other, and it
\* persists an answer or moves a mail only with a class in hand.
ExecutionInv ==
    /\ \A w \in Workers : ~At(w, "idle") => /\ handler[w].job \in Jobs
                                            /\ executor[handler[w].job] = w
                                            /\ claim[w] = NoJob
    /\ \A j \in Jobs : executor[j] # NoWorker => /\ ~At(executor[j], "idle")
                                                 /\ handler[executor[j]].job = j
                                                 /\ state[j] # "ABSENT"
    /\ \A w \in Workers : /\ claim[w] # NoJob => state[claim[w]] # "ABSENT"
                          /\ At(w, "save") \/ At(w, "move") => handler[w].class # "NONE"

\* A mail has a second job, and so perhaps a second worker, only once a reviewer
\* has decided, and a reviewer decides once.
ReviewInv ==
    \A m \in Messages :
       /\ m \in undecided \/ state[ReviewJob(m)] # "ABSENT" => row[m].reviewed
       /\ row[m].reviewed => row[m].class # "MANUAL_REVIEW"
       /\ row[m].class = "NONE" => ~row[m].moved /\ ~row[m].reviewed

\* The row is still the worker's own: no reviewer took it over, or it is the
\* reviewer's decision that the worker carries out.
OwnRow(w) == ~row[Mail(w)].reviewed \/ handler[w].job = ReviewJob(Mail(w))

\* What a worker may rely on although it read the row some steps ago.
Knows(w) ==
    LET r == row[Mail(w)]
    IN  /\ At(w, "ask") \/ At(w, "save") => r.class = "NONE"
        /\ At(w, "move") =>
              /\ r.class # "NONE"
              /\ ~r.reviewed => ~r.moved /\ handler[w].class = r.class
        /\ At(w, "mark") =>
              /\ r.class # "NONE"
              /\ ~r.reviewed /\ ~r.moved =>
                    /\ handler[w].loc = place[Mail(w)]
                    /\ place[Mail(w)].folder = Destination(r.class)
        /\ At(w, "create") \/ At(w, "dispatch") =>
              r.class = "INVOICE" /\ (OwnRow(w) => r.moved)
        /\ At(w, "done") /\ OwnRow(w) =>
              r.moved /\ (r.class = "INVOICE" => intake[Mail(w)] = "dispatched")

KnowledgeInv == \A w \in Workers : Knows(w)

IInv == /\ TypeOK /\ ExecutionInv /\ ReviewInv /\ KnowledgeInv
        /\ FiledWhereItSays /\ SucceededIsComplete /\ OnlyInvoicesAreSubmitted
=============================================================================
