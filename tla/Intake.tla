------------------------------- MODULE Intake -------------------------------
(***************************************************************************)
(* How originals enter the system: MailIngestion and InvoiceIntake over    *)
(* the storage, the database and the advisory locks they share.  A mail's  *)
(* files become the files of the submission made from it; everybody who    *)
(* stores a file also deletes it when the database does not need it.       *)
(***************************************************************************)
EXTENDS Naturals, FiniteSets

CONSTANTS Tasks, ServerKeys, Fingerprints, SourceOf(_), Parts, MaxAttempts,
          Clients, Imports, IdemKeys, Hashes, Uploads,
          PartnerOf(_), NoPartner, NoDocument,
          MaxFaults, AdvisoryKey(_),
          MaxKey,     \* the largest advisory key, counted from the least 64-bit number
          MaxActive   \* bound on how many of the jobs and callers ever start

VARIABLES files, held, faults,
          mails, unsure, classify, job,
          submissions, partners, selection, request

Ingestion == INSTANCE MailIngestion
Invoices  == INSTANCE InvoiceIntake

vars == <<files, held, faults, mails, unsure, classify, job,
          submissions, partners, selection, request>>

Callers == Clients \cup Imports

\* Idempotency keys and content hashes of submissions, and the partners that
\* they name.
Keys     == ({"manual"} \X (IdemKeys \cup Hashes)) \cup ({"imap"} \X Fingerprints)
Contents == Hashes \cup Fingerprints
Partners == {PartnerOf(content) : content \in Contents} \ {NoPartner}

\* The two locks of one transaction have different keys.  (A lock is known by
\* its key to PostgreSQL: two names with one key would be the same lock.)
ASSUME IntakeAssumption ==
    /\ \A t \in Tasks : SourceOf(t) \in Ingestion!Source
    /\ {Parts, MaxAttempts, Uploads} \subseteq Nat \ {0}
    /\ {MaxFaults, MaxActive, MaxKey} \subseteq Nat
    /\ Tasks \cap Callers = {} /\ Clients \cap Imports = {}
    /\ "none" \notin Contents
    /\ \A lock \in ({"server"} \X ServerKeys) \cup ({"content"} \X Fingerprints)
               \cup ({"submission-key"} \X Keys) \cup ({"submission-content"} \X Contents) :
          AdvisoryKey(lock) \in 0..MaxKey
    /\ \A k \in ServerKeys, f \in Fingerprints :
          AdvisoryKey(<<"server", k>>) # AdvisoryKey(<<"content", f>>)
    /\ \A k \in Keys, f \in Contents :
          AdvisoryKey(<<"submission-key", k>>) # AdvisoryKey(<<"submission-content", f>>)

Init == Ingestion!Init /\ Invoices!Init

Started == {t \in Tasks : job[t].tries > 0}
           \cup {c \in Clients : ~Invoices!At(c, "idle")}

Bounded == Cardinality(Started') <= MaxActive

Ingest(A) == A /\ UNCHANGED <<submissions, partners, selection, request>> /\ Bounded
Submit(A) == A /\ UNCHANGED <<unsure, classify, job>> /\ Bounded

Next == Ingest(Ingestion!Next) \/ Submit(Invoices!Next)

Spec == Init /\ [][Next]_vars

\* Every call has a timeout and a lock that is free is granted; a failed attempt
\* is followed by another (JobQueue's EveryJobSettles).  Nothing makes a client
\* send or repeat a request.
FairSpec == /\ Spec
            /\ \A t \in Tasks : WF_vars(Ingest(Ingestion!Progress(t)))
            /\ \A c \in Callers : WF_vars(Submit(Invoices!Progress(c)))

-----------------------------------------------------------------------------
(* Properties.                                                             *)

Files == Ingestion!File \cup (Clients \X {1} \X (1..Uploads))

Request == [pc : Invoices!Labels, key : Keys \cup {<<>>}, content : Contents \cup {"none"},
            files : SUBSET Files, stored : 0..Uploads, partner : Partners \cup {NoPartner},
            found : Contents \cup {"none"}, outcome : Invoices!Endings \cup {"none"}]

\* What the processes have in hand, files and locks included, has its type.
TypeOK ==
    /\ files \subseteq Files
    /\ job \in [Tasks -> Ingestion!Job]
    /\ mails \subseteq Ingestion!Row
    /\ unsure \cup classify \subseteq Fingerprints
    /\ request \in [Callers -> Request]
    /\ submissions \subseteq [key : Keys, content : Contents, files : SUBSET Files,
                              partner : Partners \cup {NoPartner}]
    /\ partners \subseteq Partners
    /\ selection \subseteq Contents
    /\ \A h \in held : h[1] \in Tasks \cup Callers
    /\ faults \in 0..MaxFaults

WaitingTasks    == {t \in Tasks : Ingestion!At(t, "lock")}
WaitingCallers  == {c \in Callers : Invoices!At(c, "lock")}
WaitingPartners == {c \in Callers : /\ Invoices!At(c, "partner")
                                    /\ ~Invoices!Locks!Has(c, Invoices!PartnerGuards(c))}

Wanted == [p \in WaitingTasks \cup WaitingCallers \cup WaitingPartners |->
             CASE p \in WaitingTasks   -> Ingestion!Locks!NextOf(p, Ingestion!Guards(p))
               [] p \in WaitingCallers -> Invoices!Locks!NextOf(p, Invoices!SubmissionGuards(p))
               [] OTHER                -> Invoices!NextPartnerLock(p)]

\* Transactions that take several advisory locks, those of a message, of a
\* submission and of its partner, never wait for one another in a circle.
NoWaitCycle == Ingestion!Locks!NoCycle(DOMAIN Wanted, Wanted)

\* Between the search for a duplicate and the insert nobody adds one, although
\* another transaction may be about the same mail under another identity, the
\* same content under another key, or the same partner under another name: no
\* ingestion and no submission fails on a unique constraint for such a race.
FreshUnderLocks ==
    /\ \A t \in Tasks : Ingestion!At(t, "insert") => Ingestion!Duplicates(t) = {}
    /\ \A c \in Callers : Invoices!At(c, "insert")
         => /\ Invoices!Matches(c) = {}
            /\ \/ request[c].partner \in partners \cup {NoPartner}
               \/ Invoices!Known(request[c].partner) = {}

Referenced == UNION {r.files : r \in mails \cup submissions}

\* The files a process has in hand: it stored them and has not finished.
UploadsOf(c) == {Invoices!Upload(c, i) : i \in 1..request[c].stored}

InWork == (UNION {Ingestion!StoredBy(t) :
                    t \in {u \in Tasks : job[u].pc \notin {"SUCCEEDED", "FAILED"}}})
          \cup (UNION {UploadsOf(c) :
                    c \in {d \in Clients : request[d].pc \notin Invoices!Endings}})

\* As long as no process died and no database or disk failed, the compensations
\* leave exactly the files that rows refer to, whatever was refused, duplicate
\* or conflicting, and however the deletions of one interleave with the others.
NothingStrays == faults = 0 => /\ files \subseteq Referenced \cup InWork
                               /\ Referenced \subseteq files

\* "o original continua recuperavel pelo hash" (IMPLEMENTATION_PLAN.md:566): the
\* files of every row exist.
OriginalsAreKept == Referenced \subseteq files

\* The same where it does hold: a compensation deletes files of a row only when
\* the row's commit was never acknowledged, and those of a submission only
\* when it shares them with such a row.
LossNeedsAnUnsureCommit ==
    \A r \in mails \cup submissions : r.files \subseteq files \/ r.content \in unsure

\* An ingestion that succeeded, in whatever attempt, leaves a row for the mail's
\* UID or content, and the classification of that row is enqueued, although
\* the two are committed one after the other.
SucceededIsHandedOn ==
    \A t \in Tasks : Ingestion!At(t, "SUCCEEDED")
      => \E r \in mails : /\ r.key = SourceOf(t).key \/ r.content = SourceOf(t).content
                          /\ r.content \in classify

\* A caller that is told "created" or "duplicate" is told of an invoice made of
\* exactly what it sent, whose tariff selection is enqueued: a key that was
\* used for something else never answers with that other invoice.
AnswersMatch ==
    \A c \in Callers : request[c].pc \in {"created", "duplicate"}
      => /\ request[c].found = request[c].content
         /\ request[c].found \in selection
         /\ \E s \in submissions : s.content = request[c].content

\* Every ingestion that was begun settles and every call is answered: nobody
\* waits for a lock for ever, whoever dies with one in hand.
EverythingEnds ==
    []<>(/\ \A t \in Tasks : job[t].tries > 0 => job[t].pc \in {"SUCCEEDED", "FAILED"}
         /\ \A c \in Callers : ~Invoices!At(c, "idle") => request[c].pc \in Invoices!Endings)

-----------------------------------------------------------------------------
(* Both doors implement Ledger.                                            *)

StageOfJob(t) ==
    IF job[t].pc = "queued" THEN "idle"
    ELSE IF job[t].pc \in {"store", "lock", "find", "insert"} THEN "asked"
    ELSE IF job[t].pc \in {"drop", "enqueue"} THEN "decided"
    ELSE IF job[t].pc = "SUCCEEDED" THEN "answered" ELSE "failed"

\* An attempt that made the row keeps its files.  One that failed may be
\* refused, one that succeeded never.
VerdictOfJob(t) ==
    IF StageOfJob(t) \notin {"decided", "answered"} THEN "none"
    ELSE IF job[t].pc # "SUCCEEDED" /\ job[t].found = "none" THEN "refused"
    ELSE IF job[t].pc # "drop" /\ job[t].stored > 0 THEN "created" ELSE "duplicate"

AskOfJob(t) ==
    [stage   |-> StageOfJob(t),
     wish    |-> IF StageOfJob(t) \in {"idle", "failed"} THEN <<>>
                 ELSE <<SourceOf(t).key, SourceOf(t).content>>,
     verdict |-> VerdictOfJob(t),
     told    |-> IF VerdictOfJob(t) \in {"created", "duplicate"} THEN job[t].found ELSE "none"]

\* The ledger of mails: a UID of the server is one mail.
Inbox == INSTANCE Ledger WITH
            Askers <- Tasks, Keys <- ServerKeys, Contents <- Fingerprints, KeyIsName <- TRUE,
            entries <- {<<r.key, r.content>> : r \in mails}, handed <- classify,
            ask <- [t \in Tasks |-> AskOfJob(t)]

StageOfRequest(c) ==
    IF request[c].pc = "idle" THEN "idle"
    ELSE IF request[c].pc \in {"store", "lock", "find", "partner", "insert"} THEN "asked"
    ELSE IF request[c].pc \in {"drop", "enqueue"} THEN "decided"
    ELSE IF request[c].pc = "error" THEN "failed" ELSE "answered"

VerdictOfRequest(c) ==
    LET outcome == IF StageOfRequest(c) = "decided" THEN request[c].outcome ELSE request[c].pc
    IN  IF StageOfRequest(c) \notin {"decided", "answered"} THEN "none"
        ELSE IF outcome = "rejected" THEN "refused" ELSE outcome

AskOfRequest(c) ==
    [stage   |-> StageOfRequest(c),
     wish    |-> IF StageOfRequest(c) \in {"idle", "failed"} THEN <<>>
                 ELSE <<request[c].key, request[c].content>>,
     verdict |-> VerdictOfRequest(c),
     told    |-> IF VerdictOfRequest(c) \in {"created", "duplicate"}
                 THEN request[c].found ELSE "none"]

\* The ledger of invoices: an idempotency key may be used for another content.
Register == INSTANCE Ledger WITH
               Askers <- Callers, Keys <- Keys, Contents <- Contents, KeyIsName <- FALSE,
               entries <- {<<s.key, s.content>> : s \in submissions}, handed <- selection,
               ask <- [c \in Callers |-> AskOfRequest(c)]

\* Search and insert of an ingestion, and of a submission, are one step for
\* everybody else, although locks, queries, file operations and the handing on
\* are steps of their own that interleave, fail and are repeated.
ImplementsLedgers == Inbox!Spec /\ Register!Spec

-----------------------------------------------------------------------------
(* The inductive invariant behind the safety properties.                   *)

LocksOf(p) == Ingestion!Locks!LocksOf(p)

\* `mine` are the first locks of S in the order of their keys.
Taking(mine, S) == /\ mine \subseteq S
                   /\ \A l \in mine, m \in S : AdvisoryKey(l) <= AdvisoryKey(m)

\* A lock has one holder, and the label of a process says which locks it holds.
Exclusive == \A g, h \in held : g[2] = h[2] => g[1] = h[1]

TaskLocks(t) ==
    /\ job[t].pc = "lock" => Taking(LocksOf(t), Ingestion!Guards(t))
    /\ job[t].pc \in {"find", "insert"} => LocksOf(t) = Ingestion!Guards(t)
    /\ job[t].pc \notin {"lock", "find", "insert"} => LocksOf(t) = {}

CallerLocks(c) ==
    /\ request[c].pc = "lock" => Taking(LocksOf(c), Invoices!SubmissionGuards(c))
    /\ request[c].pc = "find" => LocksOf(c) = Invoices!SubmissionGuards(c)
    /\ request[c].pc \in {"partner", "insert"} => Invoices!SubmissionGuards(c) \subseteq LocksOf(c)
    /\ request[c].pc = "partner" =>
          /\ LocksOf(c) \subseteq Invoices!SubmissionGuards(c) \cup Invoices!PartnerGuards(c)
          /\ (\E l \in LocksOf(c) : l[1] = "partner-name")
                => Invoices!PartnerGuards(c) \subseteq LocksOf(c)
    /\ request[c].pc \notin {"lock", "find", "partner", "insert"} => LocksOf(c) = {}

\* What was looked for under the locks and not found is still not there.
TaskFresh(t) ==
    job[t].pc = "insert" => \A r \in mails : /\ r.key # SourceOf(t).key
                                            /\ r.content # SourceOf(t).content

CallerFresh(c) ==
    LET partner == request[c].partner
    IN  /\ request[c].pc \in {"store", "lock", "find", "partner", "insert"} =>
              request[c].key \in Keys /\ request[c].content \in Contents
        /\ request[c].pc \in {"store", "lock", "find"} => partner = NoPartner
        /\ request[c].pc \in {"partner", "insert"} => Invoices!Matches(c) = {}
        /\ request[c].pc = "partner" => Invoices!Mentioned(c) # NoPartner
        /\ request[c].pc = "insert" =>
              \/ partner \in partners \cup {NoPartner}
              \/ /\ partner = Invoices!Mentioned(c)
                 /\ Invoices!PartnerGuards(c) \subseteq LocksOf(c)
                 /\ Invoices!Known(partner) = {}

\* What a job has found is in the table, and it succeeds with something found
\* and handed on.
Found(t) ==
    /\ job[t].found # "none" =>
          \E r \in mails : /\ r.key = SourceOf(t).key \/ r.content = SourceOf(t).content
                          /\ r.content = job[t].found
    /\ job[t].pc \in {"enqueue", "SUCCEEDED"} => job[t].found # "none"
    /\ job[t].pc = "SUCCEEDED" => job[t].found \in classify

\* What a caller will be answered, from the moment it is known.
Answered(c) ==
    LET r == request[c]
    IN  /\ r.outcome \in {"created", "duplicate"} =>
              r.found = r.content /\ \E s \in submissions : s.content = r.content
        /\ r.pc \in {"idle", "store", "lock", "find", "partner", "insert"} => r.outcome = "none"
        /\ r.pc = "enqueue" => r.outcome \in {"created", "duplicate"}
        /\ r.pc = "drop" => r.outcome \in {"rejected", "conflict", "duplicate"}
        /\ r.pc \in {"created", "duplicate"} => r.outcome \in {"created", "duplicate"}
        /\ r.pc \in {"created", "duplicate"} \/ (r.pc = "drop" /\ r.outcome = "duplicate")
              => r.found \in selection

\* The files of an attempt that may still drop them belong to no row, or to one
\* whose commit was not acknowledged.
Dropping == {"store", "lock", "find", "insert", "drop"}

Disowned(fs, content) ==
    \A t \in Tasks, n \in 1..MaxAttempts, i \in 1..Parts :
       <<t, n, i>> \in fs =>
          /\ n <= job[t].tries
          /\ n = job[t].tries /\ job[t].pc \in Dropping => content \in unsure

\* How far an attempt is says which of its files there are.
Attempt(t) ==
    /\ job[t].pc # "queued" => job[t].tries > 0
    /\ job[t].pc = "queued" => job[t].tries < MaxAttempts
    /\ job[t].pc = "store" => job[t].stored < Parts
    /\ job[t].pc \in {"store", "lock", "find", "insert"} => Ingestion!StoredBy(t) \subseteq files
    /\ job[t].pc = "enqueue" => Ingestion!StoredBy(t) \subseteq Referenced
    /\ faults = 0 /\ job[t].pc \in {"queued", "FAILED"} => job[t].stored = 0

\* An import has the files of its mail in hand ...
Importing(c) ==
    /\ request[c].files \subseteq Ingestion!File
    /\ request[c].stored = 0 /\ request[c].pc # "store"
    /\ Disowned(request[c].files, request[c].content)
    /\ request[c].files \subseteq files \/ request[c].content \in unsure

\* ... and a manual request those it has stored, which it drops only if no
\* submission was made of them.
Handed(c) == request[c].pc = "enqueue" /\ request[c].outcome = "created"

Uploading(c) ==
    LET r == request[c]
    IN  /\ r.files \subseteq {c} \X {1} \X (1..Uploads)
        /\ r.pc = "idle" => r.stored = 0
        /\ r.pc = "store" => r.stored < Uploads
        /\ r.pc \in {"store", "lock", "find", "partner", "insert"} =>
              r.files = UploadsOf(c) /\ r.files \subseteq files
        /\ Handed(c) => UploadsOf(c) \subseteq Referenced
        /\ \A s \in submissions, i \in 1..Uploads :
              Invoices!Upload(c, i) \in s.files => r.pc \in {"created", "error"} \/ Handed(c)

\* An attempt finds nothing before it searches, which it does with files in hand.
Searching(t) ==
    /\ job[t].pc \in {"store", "lock", "find", "insert"} => job[t].found = "none"
    /\ job[t].pc \in {"lock", "find", "insert"} => job[t].stored > 0

LockInv == /\ Exclusive
           /\ \A t \in Tasks : TaskLocks(t)
           /\ \A c \in Callers : CallerLocks(c)

RowInv  == /\ \A t \in Tasks : TaskFresh(t) /\ Found(t)
           /\ \A c \in Callers : CallerFresh(c) /\ Answered(c)

FileInv == /\ \A t \in Tasks : Attempt(t)
           /\ \A c \in Imports : Importing(c)
           /\ \A c \in Clients : Uploading(c)
           /\ \A r \in mails \cup submissions : Disowned(r.files, r.content)
           /\ faults = 0 => unsure = {}

IInv == TypeOK /\ LockInv /\ RowInv /\ FileInv /\ LossNeedsAnUnsureCommit /\ NothingStrays
====
