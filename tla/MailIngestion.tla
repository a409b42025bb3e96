---------------------------- MODULE MailIngestion ----------------------------
(***************************************************************************)
(* The handler of `email.ingest` jobs: EmailIngestionService.ingest fetches*)
(* a mail, stores the raw message and its attachments as files, and writes *)
(* one row for it behind two advisory locks, unless a row already has the  *)
(* mail's identity on the server or its content.  Files no row needs are   *)
(* deleted again.  Then the classification of the row is enqueued.         *)
(*                                                                         *)
(* A job is attempted by one worker at a time and again after a failure or *)
(* a crash (JobLifecycle).  Several jobs may be about one mail: it was     *)
(* listed in two folders, or moved and listed again.                       *)
(***************************************************************************)
EXTENDS Naturals

CONSTANTS Tasks,          \* `email.ingest` jobs
          ServerKeys,     \* <<uidvalidity, uid>> of the account, without the folder
          Fingerprints,   \* canonical content fingerprints
          SourceOf(_),    \* what get_message returns for the locator of a job
          Parts,          \* files of one mail: the raw message and its attachments
          MaxAttempts,    \* attempts of a job
          MaxFaults,      \* bound on crashes and failing databases and disks
          AdvisoryKey(_)  \* the hash by which advisory locks are ordered

\* A mail on the server.
Source == [key : ServerKeys, content : Fingerprints]

VARIABLES files,      \* the objects in the storage
          held,       \* advisory locks of open transactions
          faults,     \* how many faults there were
          mails,      \* the mail_messages table
          unsure,     \* rows whose transaction committed without the client knowing
          classify,   \* rows whose `email.classify` job is enqueued
          job         \* the jobs and what their handlers are doing


Locks == INSTANCE TransactionLocks

\* A row: `place` is where it says the mail is now (uidvalidity and uid), which mark_moved changes and `key` keeps.
File   == Tasks \X (1..MaxAttempts) \X (1..Parts)
Row    == [key : ServerKeys, content : Fingerprints,
           place : ServerKeys, files : SUBSET File]

Labels == {"queued", "store", "lock", "find", "insert", "drop", "enqueue",
           "SUCCEEDED", "FAILED"}

\* stored: how many files this attempt stored; found: the content of the row the
\* mail belongs to, when the attempt did not raise.
Job == [pc : Labels, tries : 0..MaxAttempts, stored : 0..Parts,
        found : Fingerprints \cup {"none"}]

Init == /\ files = {} /\ held = {} /\ faults = 0
        /\ mails = {} /\ unsure = {} /\ classify = {}
        /\ job = [t \in Tasks |-> [pc |-> "queued", tries |-> 0, stored |-> 0,
                                   found |-> "none"]]

At(t, label)   == job[t].pc = label
GoTo(t, label) == job' = [job EXCEPT ![t].pc = label]

FileOf(t, i)   == <<t, job[t].tries, i>>
StoredBy(t)    == {FileOf(t, i) : i \in 1..job[t].stored}

Guards(t) == {<<"server", SourceOf(t).key>>, <<"content", SourceOf(t).content>>}

\* Mutant of Failed: attempts are not limited.
FailedForNow(t) == "queued"

\* What an attempt that raised leaves behind: another attempt, or a failed job.
Failed(t) == IF job[t].tries < MaxAttempts THEN "queued" ELSE "FAILED"

Fault == faults < MaxFaults /\ faults' = faults + 1

-----------------------------------------------------------------------------
\* The worker claims the job and get_message returns the mail, or raises.
Fetch(t) ==
    /\ At(t, "queued")
    /\ \E label \in {"store"} \cup (IF job[t].tries + 1 < MaxAttempts
                                    THEN {"queued"} ELSE {"FAILED"}) :
          job' = [job EXCEPT ![t] = [pc |-> label, tries |-> @.tries + 1,
                                     stored |-> 0, found |-> "none"]]
    /\ UNCHANGED <<files, held, faults, mails, unsure, classify>>

\* The raw message and then each attachment become an object of the storage ...
Store(t) ==
    /\ At(t, "store")
    /\ files' = files \cup {FileOf(t, job[t].stored + 1)}
    /\ job' = [job EXCEPT ![t].stored = @ + 1,
                          ![t].pc = IF job[t].stored + 1 = Parts THEN "lock" ELSE @]
    /\ UNCHANGED <<held, faults, mails, unsure, classify>>

\* Mutant of Refuse: the clean-up covers the transaction only.
RefuseAndLeave(t) ==
    /\ At(t, "store")
    /\ GoTo(t, Failed(t))
    /\ UNCHANGED <<files, held, faults, mails, unsure, classify>>

\* ... unless the storage refuses one (size, name, MIME type, full disk).
Refuse(t) ==
    /\ At(t, "store")
    /\ GoTo(t, "drop")
    /\ UNCHANGED <<files, held, faults, mails, unsure, classify>>

\* begin_guarded.
Lock(t) ==
    /\ At(t, "lock")
    /\ Locks!TakeNext(t, Guards(t))
    /\ IF Locks!IsLast(t, Guards(t))
       THEN GoTo(t, "find") ELSE UNCHANGED job
    /\ UNCHANGED <<files, faults, mails, unsure, classify>>

\* find_duplicate: by the identity on the server first, then by content.
Duplicates(t) ==
    LET byServer  == {r \in mails : r.key = SourceOf(t).key}
        byContent == {r \in mails : r.content = SourceOf(t).content}
    IN  IF byServer # {} THEN byServer ELSE byContent

Find(t) ==
    /\ At(t, "find")
    /\ IF Duplicates(t) = {}
       THEN GoTo(t, "insert") /\ UNCHANGED held
       ELSE /\ \E r \in Duplicates(t) :
                  job' = [job EXCEPT ![t].pc = "drop", ![t].found = r.content]
            /\ Locks!LetGo(t)
    /\ UNCHANGED <<files, faults, mails, unsure, classify>>

\* The unique constraints of the table.
Conflicts(t) == {r \in mails : \/ r.key = SourceOf(t).key
                               \/ r.content = SourceOf(t).content
                               \/ r.place = SourceOf(t).key}

NewRow(t) == [key |-> SourceOf(t).key, content |-> SourceOf(t).content,
              place |-> SourceOf(t).key, files |-> StoredBy(t)]

\* insert and commit: the files are retained, ...
Insert(t) ==
    /\ At(t, "insert")
    /\ Conflicts(t) = {}
    /\ mails' = mails \cup {NewRow(t)}
    /\ job' = [job EXCEPT ![t].pc = "enqueue", ![t].found = SourceOf(t).content]
    /\ Locks!LetGo(t)
    /\ UNCHANGED <<files, faults, unsure, classify>>

\* ... or a constraint refuses the row, ...
Clash(t) ==
    /\ At(t, "insert")
    /\ Conflicts(t) # {}
    /\ GoTo(t, "drop")
    /\ Locks!LetGo(t)
    /\ UNCHANGED <<files, faults, mails, unsure, classify>>

\* ... or it was committed and the connection broke before the client knew:
\* commit raises, and the code takes the files for unreferenced.
LoseCommit(t) ==
    /\ At(t, "insert")
    /\ Conflicts(t) = {}
    /\ Fault
    /\ mails' = mails \cup {NewRow(t)}
    /\ unsure' = unsure \cup {SourceOf(t).content}
    /\ GoTo(t, "drop")
    /\ Locks!LetGo(t)
    /\ UNCHANGED <<files, classify>>

\* A transaction that fails is rolled back.
LoseTransaction(t) ==
    /\ job[t].pc \in {"lock", "find", "insert"}
    /\ Fault
    /\ GoTo(t, "drop")
    /\ Locks!LetGo(t)
    /\ UNCHANGED <<files, mails, unsure, classify>>

\* Mutant of Drop: a duplicate is taken for something already handed on.
DropAndReturn(t) ==
    /\ At(t, "drop")
    /\ IF job[t].stored > 0
       THEN /\ files' = files \ {FileOf(t, job[t].stored)}
            /\ job' = [job EXCEPT ![t].stored = @ - 1]
       ELSE /\ GoTo(t, IF job[t].found = "none" THEN Failed(t) ELSE "SUCCEEDED")
            /\ UNCHANGED files
    /\ UNCHANGED <<held, faults, mails, unsure, classify>>

\* _delete_unreferenced, the last file first; then the exception goes on, or the
\* duplicate is reported.
Drop(t) ==
    /\ At(t, "drop")
    /\ IF job[t].stored > 0
       THEN /\ files' = files \ {FileOf(t, job[t].stored)}
            /\ job' = [job EXCEPT ![t].stored = @ - 1]
       ELSE /\ GoTo(t, IF job[t].found = "none" THEN Failed(t) ELSE "enqueue")
            /\ UNCHANGED files
    /\ UNCHANGED <<held, faults, mails, unsure, classify>>

\* The job handler enqueues the classification and returns.
Enqueue(t) ==
    /\ At(t, "enqueue")
    /\ classify' = classify \cup {job[t].found}
    /\ GoTo(t, "SUCCEEDED")
    /\ UNCHANGED <<files, held, faults, mails, unsure>>

\* The worker dies, or the storage or the queue raises where nothing cleans up
\* after it: the attempt is over, its transaction is rolled back.
Break(t) ==
    /\ job[t].pc \notin {"queued", "SUCCEEDED", "FAILED"}
    /\ Fault
    /\ GoTo(t, Failed(t))
    /\ Locks!LetGo(t)
    /\ UNCHANGED <<files, mails, unsure, classify>>

\* mark_moved of the classification: the row follows the mail to another UID.
FollowMove(r, k) ==
    /\ r.content \in classify
    /\ \A other \in mails : other.place # k
    /\ mails' = (mails \ {r}) \cup {[r EXCEPT !.place = k]}
    /\ UNCHANGED <<files, held, faults, unsure, classify, job>>

-----------------------------------------------------------------------------
Progress(t) == \/ Fetch(t) \/ Store(t) \/ Lock(t) \/ Find(t) \/ Insert(t)
               \/ Clash(t) \/ Drop(t) \/ Enqueue(t)

Next == \/ \E t \in Tasks : \/ Progress(t) \/ Refuse(t) \/ LoseCommit(t)
                            \/ LoseTransaction(t) \/ Break(t)
        \/ \E r \in mails, k \in ServerKeys : FollowMove(r, k)
=============================================================================
