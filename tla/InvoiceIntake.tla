---------------------------- MODULE InvoiceIntake ----------------------------
(***************************************************************************)
(* One door for invoices: InvoiceIntakeService.submit, called by the route *)
(* for manual uploads and, through IMAPInvoiceIntakeAdapter, by the handler*)
(* of `email.classify` jobs.  create_or_get writes submission, invoice and *)
(* partner in one transaction behind advisory locks; then the tariff       *)
(* selection of the invoice is enqueued.  The route stores the uploads     *)
(* first and deletes them when no submission needs them.                   *)
(***************************************************************************)
EXTENDS Naturals

CONSTANTS Clients,        \* manual requests, each made once
          Imports,        \* calls by the classification handler, each made once
          IdemKeys,       \* values of the Idempotency-Key header
          Hashes,         \* canonical hashes of manual submissions
          Uploads,        \* files of a manual request
          PartnerOf(_),   \* the partner's name and document id in a submission
          NoPartner,      \* a submission that names none
          NoDocument,     \* a partner without a document id
          MaxFaults,
          AdvisoryKey(_)

VARIABLES files, held, faults, mails, classify,  \* as in MailIngestion
          submissions,  \* invoice_submissions, each with its invoice
          partners,     \* the partners table
          selection,    \* invoices whose `invoice.select-tariffs` job is enqueued
          request       \* what each caller is doing


Locks   == INSTANCE TransactionLocks
Callers == Clients \cup Imports

Endings == {"created", "duplicate", "conflict", "rejected", "error"}
Labels  == {"idle", "store", "lock", "find", "partner", "insert", "enqueue",
            "drop"} \cup Endings

\* A request is answered with the invoice of the submission whose content is
\* `found`; `outcome` is what it will answer after the uploads are dropped.
Resting == [pc |-> "idle", key |-> <<>>, content |-> "none", files |-> {},
            stored |-> 0, partner |-> NoPartner, found |-> "none", outcome |-> "none"]

Init == /\ submissions = {} /\ partners = {} /\ selection = {}
        /\ request = [c \in Callers |-> Resting]

At(c, label)   == request[c].pc = label
GoTo(c, label) == request' = [request EXCEPT ![c].pc = label]
Upload(c, i)   == <<c, 1, i>>
Content(c)     == request[c].content

Fault == faults < MaxFaults /\ faults' = faults + 1

\* Mutant of PartnerGuards: only the name is locked.
PartnerNameGuard(c) == {<<"partner-name", PartnerOf(Content(c)).name>>}

\* create_or_get locks the submission's key and content, _partner_id the
\* partner's name and document id.
SubmissionGuards(c) == {<<"submission-key", request[c].key>>,
                        <<"submission-content", Content(c)>>}
PartnerGuards(c) ==
    LET p == PartnerOf(Content(c))
    IN  {<<"partner-name", p.name>>}
        \cup (IF p.document = NoDocument THEN {}
              ELSE {<<"partner-document", p.document>>})

-----------------------------------------------------------------------------
\* A manual request.  The key is the header's or, without one, the content; the
\* content hash covers the uploads and the metadata.
Arrive(c) ==
    /\ c \in Clients
    /\ At(c, "idle")
    /\ \E h \in Hashes : \E k \in IdemKeys \cup {h} :
          request' = [request EXCEPT ![c] = [Resting EXCEPT
                         !.pc = "store", !.key = <<"manual", k>>, !.content = h]]
    /\ UNCHANGED <<files, held, faults, mails, submissions, partners, selection>>

\* source_files: the raw message and every attachment of the mail.
SourceFiles(m) == m.files

\* submit_invoice_email, for a mail classified INVOICE, whose classification job runs.
Import(c) ==
    /\ c \in Imports
    /\ At(c, "idle")
    /\ \E m \in {r \in mails : r.content \in classify} :
          request' = [request EXCEPT ![c] = [Resting EXCEPT
                         !.pc = "lock", !.key = <<"imap", m.content>>,
                         !.content = m.content, !.files = SourceFiles(m)]]
    /\ UNCHANGED <<files, held, faults, mails, submissions, partners, selection>>

Store(c) ==
    /\ At(c, "store")
    /\ LET upload == Upload(c, request[c].stored + 1)
       IN  /\ files' = files \cup {upload}
           /\ request' = [request EXCEPT
                 ![c].stored = @ + 1,
                 ![c].files  = @ \cup {upload},
                 ![c].pc     = IF request[c].stored + 1 = Uploads THEN "lock" ELSE @]
    /\ UNCHANGED <<held, faults, mails, submissions, partners, selection>>

\* UploadValidationError: what was stored before is deleted.
Reject(c) ==
    /\ At(c, "store")
    /\ request' = [request EXCEPT ![c].pc = "drop", ![c].outcome = "rejected"]
    /\ UNCHANGED <<files, held, faults, mails, submissions, partners, selection>>

Lock(c) ==
    /\ At(c, "lock")
    /\ Locks!TakeNext(c, SubmissionGuards(c))
    /\ IF Locks!IsLast(c, SubmissionGuards(c))
       THEN GoTo(c, "find") ELSE UNCHANGED request
    /\ UNCHANGED <<files, faults, mails, submissions, partners, selection>>

\* The submissions with the key or with the content; with one of each, the
\* database returns either first.
Matches(c) == {s \in submissions : s.key = request[c].key \/ s.content = Content(c)}

\* Mutant of Conflict: the content of a repeated key is not compared.
NeverAConflict(c, s) == FALSE

\* A submission that exists is the answer, unless its key was used for another
\* content.
Conflict(c, s) == s.key = request[c].key /\ s.content # Content(c)

Find(c) ==
    /\ At(c, "find")
    /\ \/ /\ Matches(c) = {}
          /\ GoTo(c, IF PartnerOf(Content(c)) = NoPartner THEN "insert" ELSE "partner")
          /\ UNCHANGED held
       \/ \E s \in Matches(c) :
             /\ request' = [request EXCEPT
                   ![c].pc      = IF Conflict(c, s) THEN "drop" ELSE "enqueue",
                   ![c].outcome = IF Conflict(c, s) THEN "conflict" ELSE "duplicate",
                   ![c].found   = IF Conflict(c, s) THEN "none" ELSE s.content]
             /\ Locks!LetGo(c)
    /\ UNCHANGED <<files, faults, mails, submissions, partners, selection>>

\* Mutant of NextPartnerLock: each caller's locks in the order it lists them.
NextPartnerLockAsListed(c) ==
    CHOOSE l \in PartnerGuards(c) \ Locks!LocksOf(c) :
       \/ l[1] = IF c \in Imports THEN "partner-name" ELSE "partner-document"
       \/ PartnerGuards(c) \ Locks!LocksOf(c) = {l}

\* The partner's locks are sorted by name: "partner-document" comes first.
NextPartnerLock(c) ==
    CHOOSE l \in PartnerGuards(c) \ Locks!LocksOf(c) :
       l[1] = "partner-document" \/ PartnerGuards(c) \ Locks!LocksOf(c) = {l}

LockPartner(c) ==
    /\ At(c, "partner")
    /\ ~Locks!Has(c, PartnerGuards(c))
    /\ ~Locks!Taken(NextPartnerLock(c))
    /\ held' = held \cup {<<c, NextPartnerLock(c)>>}
    /\ UNCHANGED <<files, faults, mails, submissions, partners, selection, request>>

\* A known partner is one with the name or with the document id; the query
\* returns one of them, whichever comes first.
SamePartner(p, q) == \/ p.name = q.name
                     \/ p.document = q.document /\ p.document # NoDocument
Known(p)    == {q \in partners : SamePartner(p, q)}
Mentioned(c) == PartnerOf(Content(c))

FindPartner(c) ==
    /\ At(c, "partner")
    /\ Locks!Has(c, PartnerGuards(c))
    /\ \E p \in IF Known(Mentioned(c)) = {} THEN {Mentioned(c)} ELSE Known(Mentioned(c)) :
          request' = [request EXCEPT ![c].pc = "insert", ![c].partner = p]
    /\ UNCHANGED <<files, held, faults, mails, submissions, partners, selection>>

\* Submission, files, invoice, documents and partner, all or none.  The locks
\* see to it that no unique constraint is ever in the way (FreshUnderLocks).
Written(c) ==
    /\ partners' = (partners \cup {request[c].partner}) \ {NoPartner}
    /\ submissions' = submissions \cup
          {[key |-> request[c].key, content |-> Content(c),
            files |-> request[c].files, partner |-> request[c].partner]}
    /\ Locks!LetGo(c)

Insert(c) ==
    /\ At(c, "insert")
    /\ Written(c)
    /\ request' = [request EXCEPT ![c].pc = "enqueue", ![c].outcome = "created",
                                  ![c].found = Content(c)]
    /\ UNCHANGED <<files, faults, mails, selection>>

\* Mutant of LoseCommit: every exception deletes the uploads.
LoseCommitAndCleanUp(c) ==
    /\ At(c, "insert")
    /\ Fault
    /\ Written(c)
    /\ request' = [request EXCEPT ![c].pc = "drop", ![c].outcome = "error"]
    /\ UNCHANGED <<files, mails, selection>>

\* Committed, and the caller sees an exception: the uploads stay where they are.
LoseCommit(c) ==
    /\ At(c, "insert")
    /\ Fault
    /\ Written(c)
    /\ GoTo(c, "error")
    /\ UNCHANGED <<files, mails, selection>>

\* Mutant of Fail: the transaction stays open.
FailWithoutRollback(c) ==
    /\ request[c].pc \notin {"idle"} \cup Endings
    /\ Fault
    /\ GoTo(c, "error")
    /\ UNCHANGED <<files, held, mails, submissions, partners, selection>>

\* The database or the storage raises: nothing is cleaned up.
Fail(c) ==
    /\ request[c].pc \notin {"idle"} \cup Endings
    /\ Fault
    /\ GoTo(c, "error")
    /\ Locks!LetGo(c)
    /\ UNCHANGED <<files, mails, submissions, partners, selection>>

Enqueue(c) ==
    /\ At(c, "enqueue")
    /\ selection' = selection \cup {request[c].found}
    /\ GoTo(c, IF request[c].outcome = "duplicate" THEN "drop" ELSE "created")
    /\ UNCHANGED <<files, held, faults, mails, submissions, partners>>

\* _delete_unreferenced, the last upload first; an import has no uploads.
Drop(c) ==
    /\ At(c, "drop")
    /\ IF request[c].stored > 0
       THEN /\ files' = files \ {Upload(c, request[c].stored)}
            /\ request' = [request EXCEPT ![c].stored = @ - 1]
       ELSE GoTo(c, request[c].outcome) /\ UNCHANGED files
    /\ UNCHANGED <<held, faults, mails, submissions, partners, selection>>

-----------------------------------------------------------------------------
Progress(c) == \/ Store(c) \/ Lock(c) \/ Find(c) \/ LockPartner(c) \/ FindPartner(c)
               \/ Insert(c) \/ Enqueue(c) \/ Drop(c)

Next == \E c \in Callers : \/ Arrive(c) \/ Import(c) \/ Reject(c) \/ Progress(c)
                           \/ LoseCommit(c) \/ Fail(c)
=============================================================================
