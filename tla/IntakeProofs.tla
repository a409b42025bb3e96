--------------------------- MODULE IntakeProofs ----------------------------
(***************************************************************************)
(* Proofs about Intake, for any number of ingestion jobs, manual requests  *)
(* and imports, any order of the advisory keys and any number of faults.   *)
(***************************************************************************)
EXTENDS Intake, FiniteSetTheorems, WellFoundedInduction, TLAPS

-----------------------------------------------------------------------------
(* Advisory locks.                                                         *)

LEMMA LocksOfBoth == \A p : Invoices!Locks!LocksOf(p) = LocksOf(p)
BY DEF LocksOf, Invoices!Locks!LocksOf, Ingestion!Locks!LocksOf

LEMMA LocksMember ==
    ASSUME NEW p, NEW l
    PROVE  /\ l \in LocksOf(p) <=> \E h \in held : h[1] = p /\ h[2] = l
           /\ l \in LocksOf(p)' <=> \E h \in held' : h[1] = p /\ h[2] = l
BY DEF LocksOf, Ingestion!Locks!LocksOf

\* Nobody but p gets or loses a lock.
OnlyLocksOf(p) == /\ \A q : q # p => LocksOf(q)' = LocksOf(q)
                  /\ Exclusive'
                  /\ \A h \in held' : h[1] \in Tasks \cup Callers

LEMMA SameHolder ==
    ASSUME Exclusive, NEW p, NEW q, NEW l, l \in LocksOf(p), l \in LocksOf(q)
    PROVE  p = q
BY LocksMember DEF Exclusive

LEMMA HeldKept ==
    ASSUME TypeOK, Exclusive, held' = held, NEW p
    PROVE  OnlyLocksOf(p) /\ LocksOf(p)' = LocksOf(p)
BY DEF OnlyLocksOf, LocksOf, Ingestion!Locks!LocksOf, Exclusive, TypeOK

LEMMA LetGoEffect ==
    ASSUME TypeOK, Exclusive, NEW p, held' = {h \in held : h[1] # p}
    PROVE  OnlyLocksOf(p) /\ LocksOf(p)' = {}
<1>1. LocksOf(p)' = {}
  BY LocksMember
<1>2. \A q : q # p => LocksOf(q)' = LocksOf(q)
  BY DEF LocksOf, Ingestion!Locks!LocksOf
<1> QED BY <1>1, <1>2 DEF OnlyLocksOf, Exclusive, TypeOK

LEMMA TakeEffect ==
    ASSUME TypeOK, Exclusive, NEW p \in Tasks \cup Callers, NEW l,
           \A h \in held : h[2] # l, held' = held \cup {<<p, l>>}
    PROVE  OnlyLocksOf(p) /\ LocksOf(p)' = LocksOf(p) \cup {l}
<1>1. LocksOf(p)' = LocksOf(p) \cup {l}
  <2>1. <<p, l>>[1] = p /\ <<p, l>>[2] = l /\ <<p, l>> \in held'
    OBVIOUS
  <2>2. ASSUME NEW x, x \in LocksOf(p)' PROVE x \in LocksOf(p) \cup {l}
    <3>1. PICK h \in held' : h[1] = p /\ h[2] = x
      BY <2>2, LocksMember
    <3> QED BY <2>1, <3>1, LocksMember
  <2>3. ASSUME NEW x, x \in LocksOf(p) \cup {l} PROVE x \in LocksOf(p)'
    <3>1. x \in LocksOf(p) => \E h \in held : h[1] = p /\ h[2] = x
      BY LocksMember
    <3>2. \E h \in held' : h[1] = p /\ h[2] = x
      BY <2>1, <2>3, <3>1
    <3> QED BY <3>2, LocksMember
  <2> QED BY <2>2, <2>3
<1>2. \A q : q # p => LocksOf(q)' = LocksOf(q)
  BY DEF LocksOf, Ingestion!Locks!LocksOf
<1> QED BY <1>1, <1>2 DEF OnlyLocksOf, Exclusive, TypeOK

\* A process that takes two locks in the order of their keys has none, then the
\* one with the smaller key, then both; it goes on when it has both.
LEMMA TakeNextEffect ==
    ASSUME TypeOK, Exclusive, NEW p \in Tasks \cup Callers, NEW a, NEW b, NEW S, S = {a, b},
           AdvisoryKey(a) \in Nat, AdvisoryKey(b) \in Nat, AdvisoryKey(a) # AdvisoryKey(b),
           Taking(LocksOf(p), S), Ingestion!Locks!TakeNext(p, S)
    PROVE  /\ OnlyLocksOf(p)
           /\ \/ /\ ~Ingestion!Locks!IsLast(p, S)
                 /\ Taking(LocksOf(p)', S)
              \/ /\ Ingestion!Locks!IsLast(p, S)
                 /\ LocksOf(p)' = S
<1> DEFINE R == S \ LocksOf(p)
           l == Ingestion!Locks!NextOf(p, S)
<1>2. /\ l = CHOOSE x \in R : \A y \in R : AdvisoryKey(x) <= AdvisoryKey(y)
      /\ R # {} /\ \A h \in held : h[2] # l
      /\ held' = held \cup {<<p, l>>}
  BY DEF Ingestion!Locks!TakeNext, Ingestion!Locks!NextOf, Ingestion!Locks!Has,
         Ingestion!Locks!Taken, LocksOf
<1>3. l \in R /\ \A y \in R : AdvisoryKey(l) <= AdvisoryKey(y)
  <2>1. \E x \in R : \A y \in R : AdvisoryKey(x) <= AdvisoryKey(y)
    BY <1>2
  <2> HIDE DEF R
  <2> QED BY <1>2, <2>1
<1> HIDE DEF l
<1>4. OnlyLocksOf(p) /\ LocksOf(p)' = LocksOf(p) \cup {l}
  BY <1>2, TakeEffect
<1>5. Ingestion!Locks!IsLast(p, S) <=> R = {l}
  BY DEF Ingestion!Locks!IsLast, LocksOf, l
<1>6. R = {l} => LocksOf(p)' = S
  BY <1>3, <1>4 DEF Taking
<1>7. R # {l} => Taking(LocksOf(p)', S)
  <2> HAVE R # {l}
  <2>1. R = S
    BY <1>3 DEF Taking
  <2> QED BY <1>3, <1>4, <2>1 DEF Taking
<1> QED BY <1>4, <1>5, <1>6, <1>7

\* The keys of the two locks of a job, and of a submission.
LEMMA GuardKeys ==
    /\ \A t \in Tasks : /\ SourceOf(t).key \in ServerKeys /\ SourceOf(t).content \in Fingerprints
                        /\ AdvisoryKey(<<"server", SourceOf(t).key>>) \in 0..MaxKey
                        /\ AdvisoryKey(<<"content", SourceOf(t).content>>) \in 0..MaxKey
                        /\ AdvisoryKey(<<"server", SourceOf(t).key>>)
                             # AdvisoryKey(<<"content", SourceOf(t).content>>)
    /\ \A k \in Keys, f \in Contents :
          /\ AdvisoryKey(<<"submission-key", k>>) \in 0..MaxKey
          /\ AdvisoryKey(<<"submission-content", f>>) \in 0..MaxKey
          /\ AdvisoryKey(<<"submission-key", k>>) # AdvisoryKey(<<"submission-content", f>>)
<1>1. \A t \in Tasks : SourceOf(t).key \in ServerKeys /\ SourceOf(t).content \in Fingerprints
  BY IntakeAssumption DEF Ingestion!Source
<1>2. /\ \A k \in ServerKeys : AdvisoryKey(<<"server", k>>) \in 0..MaxKey
      /\ \A f \in Fingerprints : AdvisoryKey(<<"content", f>>) \in 0..MaxKey
      /\ \A k \in Keys : AdvisoryKey(<<"submission-key", k>>) \in 0..MaxKey
      /\ \A f \in Contents : AdvisoryKey(<<"submission-content", f>>) \in 0..MaxKey
  BY IntakeAssumption
<1> QED BY <1>1, <1>2, IntakeAssumption

-----------------------------------------------------------------------------
(* What one step changes of its own process.                               *)

\* t is now at l, in attempt n with k files stored, having found f.
JobIs(t, l, n, k, f) ==
    /\ job' \in [Tasks -> Ingestion!Job]
    /\ job'[t].pc = l /\ job'[t].tries = n /\ job'[t].stored = k /\ job'[t].found = f
    /\ \A u \in Tasks : u # t => job'[u] = job[u]

LEMMA JobIsIntro ==
    ASSUME TypeOK, NEW t \in Tasks, NEW j \in Ingestion!Job, job' = [job EXCEPT ![t] = j]
    PROVE  JobIs(t, j.pc, j.tries, j.stored, j.found)
BY DEF JobIs, TypeOK

LEMMA TaskGoTo ==
    ASSUME TypeOK, NEW t \in Tasks, NEW l \in Ingestion!Labels, Ingestion!GoTo(t, l)
    PROVE  JobIs(t, l, job[t].tries, job[t].stored, job[t].found)
<1> DEFINE j == [job[t] EXCEPT !.pc = l]
<1>1. /\ j \in Ingestion!Job /\ j.pc = l /\ j.tries = job[t].tries
      /\ j.stored = job[t].stored /\ j.found = job[t].found
  BY DEF TypeOK, Ingestion!Job
<1>2. job' = [job EXCEPT ![t] = j]
  BY DEF Ingestion!GoTo
<1> HIDE DEF j
<1> QED BY <1>1, <1>2, JobIsIntro

LEMMA TaskStoredGoTo ==
    ASSUME TypeOK, NEW t \in Tasks, NEW k \in 0..Parts, NEW l \in Ingestion!Labels,
           job' = [job EXCEPT ![t].stored = k, ![t].pc = l]
    PROVE  JobIs(t, l, job[t].tries, k, job[t].found)
<1> DEFINE h == [job[t] EXCEPT !.stored = k]
<1>1. /\ h \in Ingestion!Job /\ h.tries = job[t].tries
      /\ h.stored = k /\ h.found = job[t].found
  BY DEF TypeOK, Ingestion!Job
<1> HIDE DEF h
<1> DEFINE j == [h EXCEPT !.pc = l]
<1>2. /\ j \in Ingestion!Job /\ j.pc = l /\ j.tries = job[t].tries
      /\ j.stored = k /\ j.found = job[t].found
  BY <1>1 DEF Ingestion!Job
<1>3. job' = [job EXCEPT ![t] = j]
  BY DEF h, TypeOK
<1> HIDE DEF j
<1> QED BY <1>2, <1>3, JobIsIntro

LEMMA TaskFoundGoTo ==
    ASSUME TypeOK, NEW t \in Tasks, NEW f \in Fingerprints, NEW l \in Ingestion!Labels,
           job' = [job EXCEPT ![t].pc = l, ![t].found = f]
    PROVE  JobIs(t, l, job[t].tries, job[t].stored, f)
<1> DEFINE h == [job[t] EXCEPT !.pc = l]
<1>1. /\ h \in Ingestion!Job /\ h.tries = job[t].tries
      /\ h.stored = job[t].stored /\ h.pc = l
  BY DEF TypeOK, Ingestion!Job
<1> HIDE DEF h
<1> DEFINE j == [h EXCEPT !.found = f]
<1>2. /\ j \in Ingestion!Job /\ j.pc = l /\ j.tries = job[t].tries
      /\ j.stored = job[t].stored /\ j.found = f
  BY <1>1 DEF Ingestion!Job
<1>3. job' = [job EXCEPT ![t] = j]
  BY DEF h, TypeOK
<1> HIDE DEF j
<1> QED BY <1>2, <1>3, JobIsIntro

LEMMA JobTypes ==
    ASSUME TypeOK, NEW t \in Tasks
    PROVE  /\ job[t] \in Ingestion!Job
           /\ job[t].pc \in Ingestion!Labels /\ job[t].tries \in 0..MaxAttempts
           /\ job[t].stored \in 0..Parts /\ job[t].found \in Fingerprints \cup {"none"}
BY DEF TypeOK, Ingestion!Job

\* The caller is now at l, about the given key, content and files, and so on.
RequestIs(c, l, key, content, fs, k, p, f, o) ==
    /\ request' \in [Callers -> Request]
    /\ request'[c].pc = l /\ request'[c].key = key /\ request'[c].content = content
    /\ request'[c].files = fs /\ request'[c].stored = k /\ request'[c].partner = p
    /\ request'[c].found = f /\ request'[c].outcome = o
    /\ \A d \in Callers : d # c => request'[d] = request[d]

LEMMA RequestIsIntro ==
    ASSUME TypeOK, NEW c \in Callers, NEW r \in Request, request' = [request EXCEPT ![c] = r]
    PROVE  RequestIs(c, r.pc, r.key, r.content, r.files, r.stored, r.partner, r.found, r.outcome)
BY DEF RequestIs, TypeOK

LEMMA RequestTypes ==
    ASSUME TypeOK, NEW c \in Callers
    PROVE  /\ request[c] \in Request
           /\ request[c].pc \in Invoices!Labels
           /\ request[c].key \in Keys \cup {<<>>}
           /\ request[c].content \in Contents \cup {"none"}
           /\ request[c].files \subseteq Files
           /\ request[c].stored \in 0..Uploads
           /\ request[c].partner \in Partners \cup {NoPartner}
           /\ request[c].found \in Contents \cup {"none"}
           /\ request[c].outcome \in Invoices!Endings \cup {"none"}
BY DEF TypeOK, Request

LEMMA CallerGoTo ==
    ASSUME TypeOK, NEW c \in Callers, NEW l \in Invoices!Labels, Invoices!GoTo(c, l)
    PROVE  RequestIs(c, l, request[c].key, request[c].content, request[c].files,
                     request[c].stored, request[c].partner, request[c].found,
                     request[c].outcome)
<1> DEFINE r == [request[c] EXCEPT !.pc = l]
<1>1. /\ r \in Request /\ r.pc = l /\ r.key = request[c].key
      /\ r.content = request[c].content /\ r.files = request[c].files
      /\ r.stored = request[c].stored /\ r.partner = request[c].partner
      /\ r.found = request[c].found /\ r.outcome = request[c].outcome
  BY DEF TypeOK, Request
<1>2. request' = [request EXCEPT ![c] = r]
  BY DEF Invoices!GoTo
<1> HIDE DEF r
<1> QED BY <1>1, <1>2, RequestIsIntro

-----------------------------------------------------------------------------
(* What each step of an ingestion does.                                    *)

LEMMA Numbers ==
    /\ Parts \in Nat \ {0} /\ MaxAttempts \in Nat \ {0} /\ Uploads \in Nat \ {0}
    /\ MaxFaults \in Nat /\ MaxKey \in Nat
    /\ Tasks \cap Callers = {} /\ Callers = Clients \cup Imports
    /\ Clients \cap Imports = {} /\ "none" \notin Contents
    /\ Fingerprints \subseteq Contents /\ Hashes \subseteq Contents
BY IntakeAssumption DEF Callers, Contents

\* The locks a task holds where it holds none or all of them.
LEMMA TaskAtRest ==
    ASSUME IInv, NEW t \in Tasks
    PROVE  /\ Exclusive /\ TypeOK
           /\ job[t].pc \notin {"lock", "find", "insert"} => LocksOf(t) = {}
           /\ job[t].pc \in {"find", "insert"} => LocksOf(t) = Ingestion!Guards(t)
BY DEF IInv, LockInv, TaskLocks

Untouched == UNCHANGED <<submissions, partners, selection, request>>

LEMMA FetchEffect ==
    ASSUME IInv, NEW t \in Tasks, Ingestion!Fetch(t)
    PROVE  /\ job[t].pc = "queued" /\ UNCHANGED <<files, held, faults, mails, unsure, classify>>
           /\ \E l \in {"store", "queued", "FAILED"} :
                 /\ JobIs(t, l, job[t].tries + 1, 0, "none")
                 /\ l = "queued" => job[t].tries + 1 < MaxAttempts
<1>1. job[t].pc = "queued" /\ UNCHANGED <<files, held, faults, mails, unsure, classify>>
  BY DEF Ingestion!Fetch, Ingestion!At
<1>2. PICK l \in {"store"} \cup (IF job[t].tries + 1 < MaxAttempts
                                 THEN {"queued"} ELSE {"FAILED"}) :
         job' = [job EXCEPT ![t] = [pc |-> l, tries |-> @.tries + 1,
                                    stored |-> 0, found |-> "none"]]
  BY DEF Ingestion!Fetch
<1> DEFINE j == [pc |-> l, tries |-> job[t].tries + 1, stored |-> 0, found |-> "none"]
<1>3. job' = [job EXCEPT ![t] = j]
  BY <1>2
<1>4. /\ j \in Ingestion!Job /\ j.pc = l /\ j.tries = job[t].tries + 1
      /\ j.stored = 0 /\ j.found = "none"
  <2>1. job[t].tries \in 0..MaxAttempts /\ job[t].tries < MaxAttempts
    BY <1>1 DEF IInv, FileInv, Attempt, TypeOK, Ingestion!Job
  <2> QED BY <1>2, <2>1, Numbers DEF Ingestion!Job, Ingestion!Labels
<1> HIDE DEF j
<1>5. JobIs(t, l, job[t].tries + 1, 0, "none")
  BY <1>3, <1>4, JobIsIntro DEF IInv
<1>6. l \in {"store", "queued", "FAILED"} /\ (l = "queued" => job[t].tries + 1 < MaxAttempts)
  BY <1>2
<1> QED BY <1>1, <1>5, <1>6

LEMMA StoreEffect ==
    ASSUME IInv, NEW t \in Tasks, Ingestion!Store(t)
    PROVE  /\ job[t].pc = "store" /\ UNCHANGED <<held, faults, mails, unsure, classify>>
           /\ job[t].stored + 1 \in 1..Parts
           /\ files' = files \cup {<<t, job[t].tries, job[t].stored + 1>>}
           /\ \E l \in {"store", "lock"} :
                 /\ JobIs(t, l, job[t].tries, job[t].stored + 1, job[t].found)
                 /\ l = "store" => job[t].stored + 1 < Parts
<1>1. /\ job[t].pc = "store" /\ UNCHANGED <<held, faults, mails, unsure, classify>>
      /\ files' = files \cup {<<t, job[t].tries, job[t].stored + 1>>}
  BY DEF Ingestion!Store, Ingestion!At, Ingestion!FileOf
<1>2. /\ job[t].stored + 1 \in 1..Parts
      /\ job[t].stored + 1 # Parts => job[t].stored + 1 < Parts
  <2>1. job[t].stored \in 0..Parts /\ job[t].stored < Parts
    BY <1>1 DEF IInv, FileInv, Attempt, TypeOK, Ingestion!Job
  <2> QED BY <2>1, Numbers
<1> DEFINE l == IF job[t].stored + 1 = Parts THEN "lock" ELSE "store"
<1>3. job[t].stored + 1 \in 0..Parts /\ l \in Ingestion!Labels
  BY <1>2, Numbers DEF Ingestion!Labels
<1>4. job' = [job EXCEPT ![t].stored = job[t].stored + 1, ![t].pc = l]
  BY <1>1 DEF Ingestion!Store
<1>5. l \in {"store", "lock"} /\ (l = "store" => job[t].stored + 1 < Parts)
  BY <1>2
<1> HIDE DEF l
<1>6. JobIs(t, l, job[t].tries, job[t].stored + 1, job[t].found)
  BY <1>3, <1>4, TaskStoredGoTo DEF IInv
<1> QED BY <1>1, <1>2, <1>5, <1>6

LEMMA RefuseEffect ==
    ASSUME IInv, NEW t \in Tasks, Ingestion!Refuse(t)
    PROVE  /\ job[t].pc = "store" /\ UNCHANGED <<files, held, faults, mails, unsure, classify>>
           /\ JobIs(t, "drop", job[t].tries, job[t].stored, job[t].found)
BY TaskGoTo DEF Ingestion!Refuse, Ingestion!At, Ingestion!Labels, IInv

LEMMA TaskGuards ==
    ASSUME NEW t \in Tasks
    PROVE  /\ AdvisoryKey(<<"server", SourceOf(t).key>>) \in Nat
           /\ AdvisoryKey(<<"content", SourceOf(t).content>>) \in Nat
           /\ AdvisoryKey(<<"server", SourceOf(t).key>>)
                # AdvisoryKey(<<"content", SourceOf(t).content>>)
           /\ Ingestion!Guards(t) = {<<"server", SourceOf(t).key>>,
                                     <<"content", SourceOf(t).content>>}
           /\ SourceOf(t).key \in ServerKeys /\ SourceOf(t).content \in Fingerprints
BY GuardKeys, Numbers DEF Ingestion!Guards

LEMMA LockEffect ==
    ASSUME IInv, NEW t \in Tasks, Ingestion!Lock(t)
    PROVE  /\ job[t].pc = "lock" /\ UNCHANGED <<files, faults, mails, unsure, classify>>
           /\ OnlyLocksOf(t)
           /\ \/ /\ Taking(LocksOf(t)', Ingestion!Guards(t))
                 /\ JobIs(t, "lock", job[t].tries, job[t].stored, job[t].found)
              \/ /\ LocksOf(t)' = Ingestion!Guards(t)
                 /\ JobIs(t, "find", job[t].tries, job[t].stored, job[t].found)
<1>1. /\ job[t].pc = "lock" /\ UNCHANGED <<files, faults, mails, unsure, classify>>
      /\ Ingestion!Locks!TakeNext(t, Ingestion!Guards(t))
      /\ IF Ingestion!Locks!IsLast(t, Ingestion!Guards(t))
         THEN Ingestion!GoTo(t, "find") ELSE UNCHANGED job
  BY DEF Ingestion!Lock, Ingestion!At, LocksOf
<1>2. TypeOK /\ Exclusive /\ Taking(LocksOf(t), Ingestion!Guards(t))
  BY <1>1 DEF IInv, LockInv, TaskLocks
<1> DEFINE G == Ingestion!Guards(t)
           a == <<"server", SourceOf(t).key>>
           b == <<"content", SourceOf(t).content>>
<1>3. /\ G = {a, b} /\ AdvisoryKey(a) \in Nat /\ AdvisoryKey(b) \in Nat
      /\ AdvisoryKey(a) # AdvisoryKey(b)
  BY TaskGuards
<1>4. Ingestion!Locks!TakeNext(t, G) /\ Taking(LocksOf(t), G) /\ t \in Tasks \cup Callers
  BY <1>1, <1>2
<1> HIDE DEF a, b, G
<1>5. /\ OnlyLocksOf(t)
      /\ \/ /\ ~Ingestion!Locks!IsLast(t, G)
            /\ Taking(LocksOf(t)', G)
         \/ /\ Ingestion!Locks!IsLast(t, G)
            /\ LocksOf(t)' = G
  BY <1>2, <1>3, <1>4, TakeNextEffect
<1>6. CASE Ingestion!Locks!IsLast(t, G)
  <2>1. Ingestion!GoTo(t, "find")
    BY <1>1, <1>6 DEF G
  <2>2. JobIs(t, "find", job[t].tries, job[t].stored, job[t].found)
    BY <1>2, <2>1, TaskGoTo DEF Ingestion!Labels
  <2> QED BY <1>1, <1>5, <1>6, <2>2 DEF G
<1>7. CASE ~Ingestion!Locks!IsLast(t, G)
  <2>1. job' = job
    BY <1>1, <1>7 DEF G
  <2>2. JobIs(t, "lock", job[t].tries, job[t].stored, job[t].found)
    BY <1>1, <1>2, <2>1 DEF JobIs, TypeOK
  <2> QED BY <1>1, <1>5, <1>7, <2>2 DEF G
<1> QED BY <1>6, <1>7

\* Its transaction, if it had one, is over.
LEMMA TaskLetsGo ==
    ASSUME IInv, NEW t, Ingestion!Locks!LetGo(t)
    PROVE  OnlyLocksOf(t) /\ LocksOf(t)' = {}
BY LetGoEffect DEF Ingestion!Locks!LetGo, IInv, LockInv

LEMMA DuplicateRow ==
    ASSUME NEW t \in Tasks, NEW r \in Ingestion!Duplicates(t)
    PROVE  r \in mails /\ (r.key = SourceOf(t).key \/ r.content = SourceOf(t).content)
BY DEF Ingestion!Duplicates

LEMMA RowTypes ==
    ASSUME TypeOK, NEW r \in mails
    PROVE  /\ r \in Ingestion!Row /\ r.content \in Fingerprints /\ r.files \subseteq Ingestion!File
           /\ r.content \in Contents /\ r.key \in ServerKeys
BY DEF TypeOK, Ingestion!Row, Contents

LEMMA FindEffect ==
    ASSUME IInv, NEW t \in Tasks, Ingestion!Find(t)
    PROVE  /\ job[t].pc = "find" /\ UNCHANGED <<files, faults, mails, unsure, classify>>
           /\ \/ /\ held' = held
                 /\ JobIs(t, "insert", job[t].tries, job[t].stored, job[t].found)
                 /\ \A r \in mails : /\ r.key # SourceOf(t).key
                                     /\ r.content # SourceOf(t).content
              \/ /\ OnlyLocksOf(t) /\ LocksOf(t)' = {}
                 /\ \E r \in mails : /\ r.key = SourceOf(t).key \/ r.content = SourceOf(t).content
                                     /\ JobIs(t, "drop", job[t].tries, job[t].stored, r.content)
<1>1. job[t].pc = "find" /\ UNCHANGED <<files, faults, mails, unsure, classify>>
  BY DEF Ingestion!Find, Ingestion!At
<1>2. CASE Ingestion!Duplicates(t) = {}
  <2>1. Ingestion!GoTo(t, "insert") /\ held' = held
    BY <1>2 DEF Ingestion!Find
  <2>2. JobIs(t, "insert", job[t].tries, job[t].stored, job[t].found)
    BY <2>1, TaskGoTo DEF IInv, Ingestion!Labels
  <2>3. \A r \in mails : r.key # SourceOf(t).key /\ r.content # SourceOf(t).content
    BY <1>2 DEF Ingestion!Duplicates
  <2> QED BY <1>1, <2>1, <2>2, <2>3
<1>3. CASE Ingestion!Duplicates(t) # {}
  <2>1. PICK r \in Ingestion!Duplicates(t) :
           job' = [job EXCEPT ![t].pc = "drop", ![t].found = r.content]
    BY <1>3 DEF Ingestion!Find
  <2>2. /\ r \in mails /\ (r.key = SourceOf(t).key \/ r.content = SourceOf(t).content)
        /\ r.content \in Fingerprints
    BY <2>1, DuplicateRow, RowTypes DEF IInv
  <2>3. JobIs(t, "drop", job[t].tries, job[t].stored, r.content)
    BY <2>1, <2>2, TaskFoundGoTo DEF IInv, Ingestion!Labels
  <2>4. OnlyLocksOf(t) /\ LocksOf(t)' = {}
    BY <1>3, TaskLetsGo DEF Ingestion!Find
  <2> QED BY <1>1, <2>2, <2>3, <2>4
<1> QED BY <1>2, <1>3

LEMMA InsertEffect ==
    ASSUME IInv, NEW t \in Tasks, Ingestion!Insert(t)
    PROVE  /\ job[t].pc = "insert" /\ UNCHANGED <<files, faults, unsure, classify>>
           /\ mails' = mails \cup {Ingestion!NewRow(t)}
           /\ OnlyLocksOf(t) /\ LocksOf(t)' = {}
           /\ JobIs(t, "enqueue", job[t].tries, job[t].stored, SourceOf(t).content)
<1>1. JobIs(t, "enqueue", job[t].tries, job[t].stored, SourceOf(t).content)
  BY TaskFoundGoTo, TaskGuards DEF IInv, Ingestion!Insert, Ingestion!Labels
<1> QED BY <1>1, TaskLetsGo DEF Ingestion!Insert, Ingestion!At

LEMMA ClashEffect ==
    ASSUME IInv, NEW t \in Tasks, Ingestion!Clash(t)
    PROVE  /\ job[t].pc = "insert" /\ UNCHANGED <<files, faults, mails, unsure, classify>>
           /\ OnlyLocksOf(t) /\ LocksOf(t)' = {}
           /\ JobIs(t, "drop", job[t].tries, job[t].stored, job[t].found)
BY TaskGoTo, TaskLetsGo DEF IInv, Ingestion!Clash, Ingestion!At, Ingestion!Labels

LEMMA TaskFault ==
    ASSUME IInv, Ingestion!Fault
    PROVE  faults' \in 0..MaxFaults /\ faults' # 0
BY Numbers DEF IInv, TypeOK, Ingestion!Fault

LEMMA LoseCommitEffect ==
    ASSUME IInv, NEW t \in Tasks, Ingestion!LoseCommit(t)
    PROVE  /\ job[t].pc = "insert" /\ UNCHANGED <<files, classify>>
           /\ mails' = mails \cup {Ingestion!NewRow(t)}
           /\ unsure' = unsure \cup {SourceOf(t).content}
           /\ OnlyLocksOf(t) /\ LocksOf(t)' = {}
           /\ JobIs(t, "drop", job[t].tries, job[t].stored, job[t].found)
           /\ faults' \in 0..MaxFaults /\ faults' # 0
BY TaskGoTo, TaskLetsGo, TaskFault DEF IInv, Ingestion!LoseCommit, Ingestion!At, Ingestion!Labels

LEMMA LoseTransactionEffect ==
    ASSUME IInv, NEW t \in Tasks, Ingestion!LoseTransaction(t)
    PROVE  /\ job[t].pc \in {"lock", "find", "insert"} /\ UNCHANGED <<files, mails, unsure, classify>>
           /\ OnlyLocksOf(t) /\ LocksOf(t)' = {}
           /\ JobIs(t, "drop", job[t].tries, job[t].stored, job[t].found)
           /\ faults' \in 0..MaxFaults /\ faults' # 0
BY TaskGoTo, TaskLetsGo, TaskFault DEF IInv, Ingestion!LoseTransaction, Ingestion!Labels

LEMMA DropEffect ==
    ASSUME IInv, NEW t \in Tasks, Ingestion!Drop(t)
    PROVE  /\ job[t].pc = "drop" /\ UNCHANGED <<held, faults, mails, unsure, classify>>
           /\ \/ /\ job[t].stored \in 1..Parts
                 /\ files' = files \ {<<t, job[t].tries, job[t].stored>>}
                 /\ JobIs(t, "drop", job[t].tries, job[t].stored - 1, job[t].found)
              \/ /\ job[t].stored = 0 /\ files' = files
                 /\ \/ /\ job[t].found = "none"
                       /\ JobIs(t, Ingestion!Failed(t), job[t].tries, job[t].stored, job[t].found)
                    \/ /\ job[t].found # "none"
                       /\ JobIs(t, "enqueue", job[t].tries, job[t].stored, job[t].found)
<1>1. job[t].pc = "drop" /\ UNCHANGED <<held, faults, mails, unsure, classify>>
  BY DEF Ingestion!Drop, Ingestion!At
<1>2. TypeOK /\ job[t].stored \in 0..Parts /\ Ingestion!Failed(t) \in Ingestion!Labels
  BY JobTypes DEF IInv, Ingestion!Failed, Ingestion!Labels
<1>3. CASE job[t].stored > 0
  <2>1. /\ files' = files \ {<<t, job[t].tries, job[t].stored>>}
        /\ job' = [job EXCEPT ![t].stored = job[t].stored - 1]
    BY <1>3 DEF Ingestion!Drop, Ingestion!FileOf
  <2>2. job[t].stored \in 1..Parts /\ job[t].stored - 1 \in 0..Parts
    BY <1>2, <1>3, Numbers
  <2> DEFINE j == [job[t] EXCEPT !.stored = job[t].stored - 1]
  <2>3. /\ j \in Ingestion!Job /\ j.pc = "drop" /\ j.tries = job[t].tries
        /\ j.stored = job[t].stored - 1 /\ j.found = job[t].found
    BY <1>1, <1>2, <2>2 DEF TypeOK, Ingestion!Job
  <2>4. job' = [job EXCEPT ![t] = j]
    BY <2>1
  <2> HIDE DEF j
  <2>5. JobIs(t, "drop", job[t].tries, job[t].stored - 1, job[t].found)
    BY <1>2, <2>3, <2>4, JobIsIntro
  <2> QED BY <1>1, <2>1, <2>2, <2>5
<1>4. CASE ~(job[t].stored > 0)
  <2>1. /\ files' = files
        /\ Ingestion!GoTo(t, IF job[t].found = "none" THEN Ingestion!Failed(t) ELSE "enqueue")
    BY <1>4 DEF Ingestion!Drop
  <2>2. job[t].stored = 0
    BY <1>2, <1>4, Numbers
  <2>3. job[t].found = "none" =>
           JobIs(t, Ingestion!Failed(t), job[t].tries, job[t].stored, job[t].found)
    BY <1>2, <2>1, TaskGoTo
  <2>4. job[t].found # "none" =>
           JobIs(t, "enqueue", job[t].tries, job[t].stored, job[t].found)
    BY <1>2, <2>1, TaskGoTo DEF Ingestion!Labels
  <2> QED BY <1>1, <2>1, <2>2, <2>3, <2>4
<1> QED BY <1>3, <1>4

LEMMA EnqueueEffect ==
    ASSUME IInv, NEW t \in Tasks, Ingestion!Enqueue(t)
    PROVE  /\ job[t].pc = "enqueue" /\ UNCHANGED <<files, held, faults, mails, unsure>>
           /\ classify' = classify \cup {job[t].found}
           /\ JobIs(t, "SUCCEEDED", job[t].tries, job[t].stored, job[t].found)
BY TaskGoTo DEF IInv, Ingestion!Enqueue, Ingestion!At, Ingestion!Labels

LEMMA BreakEffect ==
    ASSUME IInv, NEW t \in Tasks, Ingestion!Break(t)
    PROVE  /\ job[t].pc \notin {"queued", "SUCCEEDED", "FAILED"}
           /\ UNCHANGED <<files, mails, unsure, classify>>
           /\ OnlyLocksOf(t) /\ LocksOf(t)' = {}
           /\ JobIs(t, Ingestion!Failed(t), job[t].tries, job[t].stored, job[t].found)
           /\ faults' \in 0..MaxFaults /\ faults' # 0
<1>1. Ingestion!Failed(t) \in Ingestion!Labels
  BY DEF Ingestion!Failed, Ingestion!Labels
<1> QED BY <1>1, TaskGoTo, TaskLetsGo, TaskFault DEF IInv, Ingestion!Break

LEMMA FailedLabel ==
    ASSUME IInv, NEW t \in Tasks
    PROVE  \/ Ingestion!Failed(t) = "queued" /\ job[t].tries < MaxAttempts
           \/ Ingestion!Failed(t) = "FAILED"
BY DEF Ingestion!Failed

-----------------------------------------------------------------------------
(* What each step of a submission does.                                    *)

LEMMA CallerLetsGo ==
    ASSUME IInv, NEW c, Invoices!Locks!LetGo(c)
    PROVE  OnlyLocksOf(c) /\ LocksOf(c)' = {}
BY LetGoEffect DEF Invoices!Locks!LetGo, IInv, LockInv

LEMMA CallerFault ==
    ASSUME IInv, Invoices!Fault
    PROVE  faults' \in 0..MaxFaults /\ faults' # 0
BY Numbers DEF IInv, TypeOK, Invoices!Fault

\* A transaction is about a key and a content.
LEMMA CallerAbout ==
    ASSUME IInv, NEW c \in Callers,
           request[c].pc \in {"store", "lock", "find", "partner", "insert"}
    PROVE  /\ request[c].key \in Keys /\ request[c].content \in Contents
           /\ AdvisoryKey(<<"submission-key", request[c].key>>) \in Nat
           /\ AdvisoryKey(<<"submission-content", request[c].content>>) \in Nat
           /\ AdvisoryKey(<<"submission-key", request[c].key>>)
                # AdvisoryKey(<<"submission-content", request[c].content>>)
           /\ Invoices!SubmissionGuards(c) = {<<"submission-key", request[c].key>>,
                                              <<"submission-content", request[c].content>>}
<1>1. request[c].key \in Keys /\ request[c].content \in Contents
  BY DEF IInv, RowInv, CallerFresh
<1> QED BY <1>1, GuardKeys, Numbers DEF Invoices!SubmissionGuards, Invoices!Content

\* A new request: a manual one has stored nothing yet.
Manual(h, k)  == [Invoices!Resting EXCEPT !.pc = "store", !.key = <<"manual", k>>, !.content = h]
Imported(m)   == [Invoices!Resting EXCEPT !.pc = "lock", !.key = <<"imap", m.content>>,
                                          !.content = m.content, !.files = m.files]

LEMMA ManualRequest ==
    ASSUME NEW h \in Contents, NEW k, <<"manual", k>> \in Keys, NEW r, r = Manual(h, k)
    PROVE  /\ r \in Request /\ r.pc = "store" /\ r.key = <<"manual", k>>
           /\ r.content = h /\ r.files = {}
           /\ r.stored = 0 /\ r.partner = NoPartner /\ r.found = "none" /\ r.outcome = "none"
<1> DEFINE key == <<"manual", k>>
<1>0. key \in Keys
  OBVIOUS
<1> DEFINE r0 == Invoices!Resting
<1>1. /\ r0 \in Request /\ r0.files = {}
      /\ r0.stored = 0 /\ r0.partner = NoPartner /\ r0.found = "none" /\ r0.outcome = "none"
  BY Numbers DEF Invoices!Resting, Request, Invoices!Labels
<1> HIDE DEF r0
<1> DEFINE r1 == [r0 EXCEPT !.pc = "store"]
<1>2. /\ r1 \in Request /\ r1.pc = "store" /\ r1.files = {}
      /\ r1.stored = 0 /\ r1.partner = NoPartner /\ r1.found = "none" /\ r1.outcome = "none"
  BY <1>1 DEF Request, Invoices!Labels
<1> HIDE DEF r1
<1> DEFINE r2 == [r1 EXCEPT !.key = key]
<1>3. /\ r2 \in Request /\ r2.pc = "store" /\ r2.key = key /\ r2.files = {}
      /\ r2.stored = 0 /\ r2.partner = NoPartner /\ r2.found = "none" /\ r2.outcome = "none"
  BY <1>2, <1>0 DEF Request
<1> HIDE DEF r2
<1> DEFINE r3 == [r2 EXCEPT !.content = h]
<1>4. /\ r3 \in Request /\ r3.pc = "store" /\ r3.key = key
      /\ r3.content = h /\ r3.files = {}
      /\ r3.stored = 0 /\ r3.partner = NoPartner /\ r3.found = "none" /\ r3.outcome = "none"
  BY <1>3, <1>0 DEF Request
<1> HIDE DEF r3
<1>5. Manual(h, k) = r3
  BY DEF Manual, r0, r1, r2, r3
<1> QED BY <1>4, <1>5 DEF key

LEMMA ImportedRequest ==
    ASSUME NEW m, m.content \in Contents, m.files \subseteq Files, <<"imap", m.content>> \in Keys,
           NEW r, r = Imported(m)
    PROVE  /\ r \in Request /\ r.pc = "lock" /\ r.key = <<"imap", m.content>>
           /\ r.content = m.content /\ r.files = m.files
           /\ r.stored = 0 /\ r.partner = NoPartner /\ r.found = "none" /\ r.outcome = "none"
<1> DEFINE key == <<"imap", m.content>>
<1>0. key \in Keys /\ m.content \in Contents /\ m.files \in SUBSET Files
  OBVIOUS
<1> DEFINE r0 == Invoices!Resting
<1>1. /\ r0 \in Request /\ r0.files = {}
      /\ r0.stored = 0 /\ r0.partner = NoPartner /\ r0.found = "none" /\ r0.outcome = "none"
  BY Numbers DEF Invoices!Resting, Request, Invoices!Labels
<1> HIDE DEF r0
<1> DEFINE r1 == [r0 EXCEPT !.pc = "lock"]
<1>2. /\ r1 \in Request /\ r1.pc = "lock" /\ r1.files = {}
      /\ r1.stored = 0 /\ r1.partner = NoPartner /\ r1.found = "none" /\ r1.outcome = "none"
  BY <1>1 DEF Request, Invoices!Labels
<1> HIDE DEF r1
<1> DEFINE r2 == [r1 EXCEPT !.key = key]
<1>3. /\ r2 \in Request /\ r2.pc = "lock" /\ r2.key = key /\ r2.files = {}
      /\ r2.stored = 0 /\ r2.partner = NoPartner /\ r2.found = "none" /\ r2.outcome = "none"
  BY <1>2, <1>0 DEF Request
<1> HIDE DEF r2
<1> DEFINE r3 == [r2 EXCEPT !.content = m.content]
<1>4. /\ r3 \in Request /\ r3.pc = "lock" /\ r3.key = key
      /\ r3.content = m.content /\ r3.files = {}
      /\ r3.stored = 0 /\ r3.partner = NoPartner /\ r3.found = "none" /\ r3.outcome = "none"
  BY <1>3, <1>0 DEF Request
<1> HIDE DEF r3
<1> DEFINE r4 == [r3 EXCEPT !.files = m.files]
<1>5. /\ r4 \in Request /\ r4.pc = "lock" /\ r4.key = key
      /\ r4.content = m.content /\ r4.files = m.files
      /\ r4.stored = 0 /\ r4.partner = NoPartner /\ r4.found = "none" /\ r4.outcome = "none"
  BY <1>4, <1>0 DEF Request
<1> HIDE DEF r4
<1>6. Imported(m) = r4
  BY DEF Imported, r0, r1, r2, r3, r4
<1> QED BY <1>5, <1>6 DEF key

LEMMA ArriveEffect ==
    ASSUME IInv, NEW c \in Callers, Invoices!Arrive(c)
    PROVE  /\ c \in Clients /\ request[c].pc = "idle"
           /\ UNCHANGED <<files, held, faults, mails, submissions, partners, selection>>
           /\ \E k \in Keys, h \in Contents :
                 RequestIs(c, "store", k, h, {}, 0, NoPartner, "none", "none")
<1>1. /\ c \in Clients /\ request[c].pc = "idle"
      /\ UNCHANGED <<files, held, faults, mails, submissions, partners, selection>>
  BY DEF Invoices!Arrive, Invoices!At
<1>2. PICK h \in Hashes : \E k \in IdemKeys \cup {h} :
         request' = [request EXCEPT ![c] = [Invoices!Resting EXCEPT
                        !.pc = "store", !.key = <<"manual", k>>, !.content = h]]
  BY DEF Invoices!Arrive
<1>3. PICK k \in IdemKeys \cup {h} :
         request' = [request EXCEPT ![c] = [Invoices!Resting EXCEPT
                        !.pc = "store", !.key = <<"manual", k>>, !.content = h]]
  BY <1>2
<1>4. <<"manual", k>> \in Keys /\ h \in Contents
  BY <1>2, <1>3 DEF Keys, Contents
<1> DEFINE r == Manual(h, k)
<1>5. /\ r \in Request /\ r.pc = "store" /\ r.key = <<"manual", k>> /\ r.content = h
      /\ r.files = {} /\ r.stored = 0 /\ r.partner = NoPartner
      /\ r.found = "none" /\ r.outcome = "none"
  BY <1>4, ManualRequest
<1>6. request' = [request EXCEPT ![c] = r]
  BY <1>3 DEF Manual
<1> HIDE DEF r
<1>8. RequestIs(c, "store", <<"manual", k>>, h, {}, 0, NoPartner, "none", "none")
  BY <1>5, <1>6, RequestIsIntro DEF IInv
<1> QED BY <1>1, <1>4, <1>8

LEMMA ImportEffect ==
    ASSUME IInv, NEW c \in Callers, Invoices!Import(c)
    PROVE  /\ c \in Imports /\ request[c].pc = "idle"
           /\ UNCHANGED <<files, held, faults, mails, submissions, partners, selection>>
           /\ \E m \in mails : \E k \in Keys :
                 RequestIs(c, "lock", k, m.content, m.files, 0, NoPartner, "none", "none")
<1>1. /\ c \in Imports /\ request[c].pc = "idle"
      /\ UNCHANGED <<files, held, faults, mails, submissions, partners, selection>>
  BY DEF Invoices!Import, Invoices!At
<1>2. PICK m \in mails :
         request' = [request EXCEPT ![c] = [Invoices!Resting EXCEPT
                        !.pc = "lock", !.key = <<"imap", m.content>>,
                        !.content = m.content, !.files = Invoices!SourceFiles(m)]]
  BY DEF Invoices!Import
<1>4. <<"imap", m.content>> \in Keys /\ m.content \in Contents /\ m.files \subseteq Files
  BY RowTypes DEF Keys, Files, IInv
<1> DEFINE r == Imported(m)
<1>5. /\ r \in Request /\ r.pc = "lock" /\ r.key = <<"imap", m.content>>
      /\ r.content = m.content /\ r.files = m.files /\ r.stored = 0
      /\ r.partner = NoPartner /\ r.found = "none" /\ r.outcome = "none"
  BY <1>4, ImportedRequest
<1>6. request' = [request EXCEPT ![c] = r]
  BY <1>2 DEF Imported, Invoices!SourceFiles
<1> HIDE DEF r
<1>8. RequestIs(c, "lock", <<"imap", m.content>>, m.content, m.files, 0, NoPartner, "none", "none")
  BY <1>5, <1>6, RequestIsIntro DEF IInv
<1> QED BY <1>1, <1>4, <1>8

LEMMA CallerStores ==
    ASSUME TypeOK, NEW c \in Callers, NEW k \in 0..Uploads, NEW fs \in SUBSET Files, NEW l \in Invoices!Labels,
           request' = [request EXCEPT ![c].stored = k, ![c].files = fs, ![c].pc = l]
    PROVE  RequestIs(c, l, request[c].key, request[c].content, fs, k, request[c].partner, request[c].found, request[c].outcome)
<1> DEFINE r1 == [request[c] EXCEPT !.stored = k]
<1>1. /\ r1 \in Request /\ r1.pc = request[c].pc /\ r1.key = request[c].key /\ r1.content = request[c].content
      /\ r1.files = request[c].files /\ r1.stored = k /\ r1.partner = request[c].partner
      /\ r1.found = request[c].found /\ r1.outcome = request[c].outcome
  BY DEF TypeOK, Request
<1> HIDE DEF r1
<1> DEFINE r2 == [r1 EXCEPT !.files = fs]
<1>2. /\ r2 \in Request /\ r2.pc = request[c].pc /\ r2.key = request[c].key /\ r2.content = request[c].content
      /\ r2.files = fs /\ r2.stored = k /\ r2.partner = request[c].partner
      /\ r2.found = request[c].found /\ r2.outcome = request[c].outcome
  BY <1>1 DEF Request
<1> HIDE DEF r2
<1> DEFINE r == [r2 EXCEPT !.pc = l]
<1>3. /\ r \in Request /\ r.pc = l /\ r.key = request[c].key /\ r.content = request[c].content
      /\ r.files = fs /\ r.stored = k /\ r.partner = request[c].partner
      /\ r.found = request[c].found /\ r.outcome = request[c].outcome
  BY <1>2 DEF Request
<1> HIDE DEF r
<1>4. request' = [request EXCEPT ![c] = r]
  BY DEF r1, r2, r, TypeOK
<1> QED BY <1>3, <1>4, RequestIsIntro

LEMMA CallerSettles ==
    ASSUME TypeOK, NEW c \in Callers, NEW l \in Invoices!Labels, NEW o \in Invoices!Endings,
           request' = [request EXCEPT ![c].pc = l, ![c].outcome = o]
    PROVE  RequestIs(c, l, request[c].key, request[c].content, request[c].files, request[c].stored, request[c].partner, request[c].found, o)
<1> DEFINE r1 == [request[c] EXCEPT !.pc = l]
<1>1. /\ r1 \in Request /\ r1.pc = l /\ r1.key = request[c].key /\ r1.content = request[c].content
      /\ r1.files = request[c].files /\ r1.stored = request[c].stored /\ r1.partner = request[c].partner
      /\ r1.found = request[c].found /\ r1.outcome = request[c].outcome
  BY DEF TypeOK, Request
<1> HIDE DEF r1
<1> DEFINE r == [r1 EXCEPT !.outcome = o]
<1>2. /\ r \in Request /\ r.pc = l /\ r.key = request[c].key /\ r.content = request[c].content
      /\ r.files = request[c].files /\ r.stored = request[c].stored /\ r.partner = request[c].partner
      /\ r.found = request[c].found /\ r.outcome = o
  BY <1>1 DEF Request
<1> HIDE DEF r
<1>3. request' = [request EXCEPT ![c] = r]
  BY DEF r1, r, TypeOK
<1> QED BY <1>2, <1>3, RequestIsIntro

LEMMA CallerFinds ==
    ASSUME TypeOK, NEW c \in Callers, NEW l \in Invoices!Labels, NEW o \in Invoices!Endings,
           NEW f \in Contents \cup {"none"},
           request' = [request EXCEPT ![c].pc = l, ![c].outcome = o, ![c].found = f]
    PROVE  RequestIs(c, l, request[c].key, request[c].content, request[c].files, request[c].stored, request[c].partner, f, o)
<1> DEFINE r1 == [request[c] EXCEPT !.pc = l]
<1>1. /\ r1 \in Request /\ r1.pc = l /\ r1.key = request[c].key /\ r1.content = request[c].content
      /\ r1.files = request[c].files /\ r1.stored = request[c].stored /\ r1.partner = request[c].partner
      /\ r1.found = request[c].found /\ r1.outcome = request[c].outcome
  BY DEF TypeOK, Request
<1> HIDE DEF r1
<1> DEFINE r2 == [r1 EXCEPT !.outcome = o]
<1>2. /\ r2 \in Request /\ r2.pc = l /\ r2.key = request[c].key /\ r2.content = request[c].content
      /\ r2.files = request[c].files /\ r2.stored = request[c].stored /\ r2.partner = request[c].partner
      /\ r2.found = request[c].found /\ r2.outcome = o
  BY <1>1 DEF Request
<1> HIDE DEF r2
<1> DEFINE r == [r2 EXCEPT !.found = f]
<1>3. /\ r \in Request /\ r.pc = l /\ r.key = request[c].key /\ r.content = request[c].content
      /\ r.files = request[c].files /\ r.stored = request[c].stored /\ r.partner = request[c].partner
      /\ r.found = f /\ r.outcome = o
  BY <1>2 DEF Request
<1> HIDE DEF r
<1>4. request' = [request EXCEPT ![c] = r]
  BY DEF r1, r2, r, TypeOK
<1> QED BY <1>3, <1>4, RequestIsIntro

LEMMA CallerTakesPartner ==
    ASSUME TypeOK, NEW c \in Callers, NEW l \in Invoices!Labels, NEW p \in Partners \cup {NoPartner},
           request' = [request EXCEPT ![c].pc = l, ![c].partner = p]
    PROVE  RequestIs(c, l, request[c].key, request[c].content, request[c].files, request[c].stored, p, request[c].found, request[c].outcome)
<1> DEFINE r1 == [request[c] EXCEPT !.pc = l]
<1>1. /\ r1 \in Request /\ r1.pc = l /\ r1.key = request[c].key /\ r1.content = request[c].content
      /\ r1.files = request[c].files /\ r1.stored = request[c].stored /\ r1.partner = request[c].partner
      /\ r1.found = request[c].found /\ r1.outcome = request[c].outcome
  BY DEF TypeOK, Request
<1> HIDE DEF r1
<1> DEFINE r == [r1 EXCEPT !.partner = p]
<1>2. /\ r \in Request /\ r.pc = l /\ r.key = request[c].key /\ r.content = request[c].content
      /\ r.files = request[c].files /\ r.stored = request[c].stored /\ r.partner = p
      /\ r.found = request[c].found /\ r.outcome = request[c].outcome
  BY <1>1 DEF Request
<1> HIDE DEF r
<1>3. request' = [request EXCEPT ![c] = r]
  BY DEF r1, r, TypeOK
<1> QED BY <1>2, <1>3, RequestIsIntro

LEMMA CallerUnstores ==
    ASSUME TypeOK, NEW c \in Callers, NEW k \in 0..Uploads,
           request' = [request EXCEPT ![c].stored = k]
    PROVE  RequestIs(c, request[c].pc, request[c].key, request[c].content, request[c].files, k, request[c].partner, request[c].found, request[c].outcome)
<1> DEFINE r == [request[c] EXCEPT !.stored = k]
<1>1. /\ r \in Request /\ r.pc = request[c].pc /\ r.key = request[c].key /\ r.content = request[c].content
      /\ r.files = request[c].files /\ r.stored = k /\ r.partner = request[c].partner
      /\ r.found = request[c].found /\ r.outcome = request[c].outcome
  BY DEF TypeOK, Request
<1> HIDE DEF r
<1>2. request' = [request EXCEPT ![c] = r]
  BY DEF r, TypeOK
<1> QED BY <1>1, <1>2, RequestIsIntro


\* Only manual requests store and drop files.
LEMMA OnlyClientsStore ==
    ASSUME IInv, NEW c \in Callers, request[c].pc = "store" \/ request[c].stored # 0
    PROVE  c \in Clients
BY Numbers DEF IInv, FileInv, Importing

LEMMA CallerStoreEffect ==
    ASSUME IInv, NEW c \in Callers, Invoices!Store(c)
    PROVE  /\ request[c].pc = "store" /\ c \in Clients
           /\ UNCHANGED <<held, faults, mails, submissions, partners, selection>>
           /\ request[c].stored + 1 \in 1..Uploads
           /\ files' = files \cup {<<c, 1, request[c].stored + 1>>}
           /\ \E l \in {"store", "lock"} :
                 /\ l = "store" => request[c].stored + 1 < Uploads
                 /\ RequestIs(c, l, request[c].key, request[c].content,
                              request[c].files \cup {<<c, 1, request[c].stored + 1>>},
                              request[c].stored + 1, request[c].partner,
                              request[c].found, request[c].outcome)
<1>1. /\ request[c].pc = "store"
      /\ UNCHANGED <<held, faults, mails, submissions, partners, selection>>
      /\ files' = files \cup {<<c, 1, request[c].stored + 1>>}
  BY DEF Invoices!Store, Invoices!At, Invoices!Upload
<1>2. c \in Clients
  BY <1>1, OnlyClientsStore
<1>3. /\ request[c].stored + 1 \in 1..Uploads
      /\ request[c].stored + 1 # Uploads => request[c].stored + 1 < Uploads
  <2>1. request[c].stored \in 0..Uploads /\ request[c].stored < Uploads
    BY <1>1, <1>2, RequestTypes DEF IInv, FileInv, Uploading
  <2> QED BY <2>1, Numbers
<1> DEFINE l == IF request[c].stored + 1 = Uploads THEN "lock" ELSE "store"
           k == request[c].stored + 1
           fs == request[c].files \cup {<<c, 1, k>>}
<1>4. request' = [request EXCEPT ![c].stored = k, ![c].files = fs, ![c].pc = l]
  BY <1>1 DEF Invoices!Store, Invoices!Upload
<1>5. k \in 0..Uploads /\ fs \in SUBSET Files /\ l \in Invoices!Labels
  <2>1. <<c, 1, k>> \in Files /\ request[c].files \subseteq Files
    BY <1>2, <1>3, RequestTypes DEF Files, IInv
  <2> QED BY <1>3, <2>1, Numbers DEF Invoices!Labels
<1>6. l \in {"store", "lock"} /\ (l = "store" => request[c].stored + 1 < Uploads)
  BY <1>3
<1> HIDE DEF l, fs, k
<1>7. RequestIs(c, l, request[c].key, request[c].content, fs, k, request[c].partner,
                request[c].found, request[c].outcome)
  BY <1>4, <1>5, CallerStores DEF IInv
<1> QED BY <1>1, <1>2, <1>3, <1>6, <1>7 DEF fs, k

LEMMA RejectEffect ==
    ASSUME IInv, NEW c \in Callers, Invoices!Reject(c)
    PROVE  /\ request[c].pc = "store"
           /\ UNCHANGED <<files, held, faults, mails, submissions, partners, selection>>
           /\ RequestIs(c, "drop", request[c].key, request[c].content, request[c].files,
                        request[c].stored, request[c].partner, request[c].found, "rejected")
<1>1. "drop" \in Invoices!Labels /\ "rejected" \in Invoices!Endings
  BY DEF Invoices!Labels, Invoices!Endings
<1>2. request' = [request EXCEPT ![c].pc = "drop", ![c].outcome = "rejected"]
  BY DEF Invoices!Reject
<1> QED BY <1>1, <1>2, CallerSettles DEF IInv, Invoices!Reject, Invoices!At

LEMMA CallerLockEffect ==
    ASSUME IInv, NEW c \in Callers, Invoices!Lock(c)
    PROVE  /\ request[c].pc = "lock"
           /\ UNCHANGED <<files, faults, mails, submissions, partners, selection>>
           /\ OnlyLocksOf(c)
           /\ \E l \in {"lock", "find"} :
                 /\ l = "lock" => Taking(LocksOf(c)', Invoices!SubmissionGuards(c))
                 /\ l = "find" => LocksOf(c)' = Invoices!SubmissionGuards(c)
                 /\ RequestIs(c, l, request[c].key, request[c].content, request[c].files,
                              request[c].stored, request[c].partner, request[c].found,
                              request[c].outcome)
<1> DEFINE G == Invoices!SubmissionGuards(c)
           a == <<"submission-key", request[c].key>>
           b == <<"submission-content", request[c].content>>
<1>1. /\ request[c].pc = "lock"
      /\ UNCHANGED <<files, faults, mails, submissions, partners, selection>>
      /\ Ingestion!Locks!TakeNext(c, G)
      /\ IF Ingestion!Locks!IsLast(c, G) THEN Invoices!GoTo(c, "find") ELSE UNCHANGED request
  BY DEF Invoices!Lock, Invoices!At, Invoices!Locks!TakeNext, Ingestion!Locks!TakeNext,
         Invoices!Locks!IsLast, Ingestion!Locks!IsLast, Invoices!Locks!Has, Ingestion!Locks!Has,
         Invoices!Locks!Taken, Ingestion!Locks!Taken, Invoices!Locks!NextOf,
         Ingestion!Locks!NextOf, Invoices!Locks!LocksOf, Ingestion!Locks!LocksOf
<1>2. TypeOK /\ Exclusive /\ Taking(LocksOf(c), G)
  BY <1>1 DEF IInv, LockInv, CallerLocks
<1>3. /\ G = {a, b} /\ AdvisoryKey(a) \in Nat /\ AdvisoryKey(b) \in Nat
      /\ AdvisoryKey(a) # AdvisoryKey(b)
  BY <1>1, CallerAbout
<1>4. c \in Tasks \cup Callers
  OBVIOUS
<1> HIDE DEF a, b, G
<1>5. /\ OnlyLocksOf(c)
      /\ \/ /\ ~Ingestion!Locks!IsLast(c, G)
            /\ Taking(LocksOf(c)', G)
         \/ /\ Ingestion!Locks!IsLast(c, G)
            /\ LocksOf(c)' = G
  BY <1>1, <1>2, <1>3, <1>4, TakeNextEffect
<1>6. CASE Ingestion!Locks!IsLast(c, G)
  <2>1. RequestIs(c, "find", request[c].key, request[c].content, request[c].files,
                  request[c].stored, request[c].partner, request[c].found, request[c].outcome)
    BY <1>1, <1>2, <1>6, CallerGoTo DEF Invoices!Labels
  <2> QED BY <1>1, <1>5, <1>6, <2>1 DEF G
<1>7. CASE ~Ingestion!Locks!IsLast(c, G)
  <2>1. RequestIs(c, "lock", request[c].key, request[c].content, request[c].files,
                  request[c].stored, request[c].partner, request[c].found, request[c].outcome)
    BY <1>1, <1>2, <1>7 DEF RequestIs, TypeOK
  <2> QED BY <1>1, <1>5, <1>7, <2>1 DEF G
<1> QED BY <1>6, <1>7

LEMMA SubmissionTypes ==
    ASSUME TypeOK, NEW s \in submissions
    PROVE  /\ s.key \in Keys /\ s.content \in Contents /\ s.files \subseteq Files
           /\ s.partner \in Partners \cup {NoPartner}
BY DEF TypeOK

LEMMA CallerFindEffect ==
    ASSUME IInv, NEW c \in Callers, Invoices!Find(c)
    PROVE  /\ request[c].pc = "find"
           /\ UNCHANGED <<files, faults, mails, submissions, partners, selection>>
           /\ \/ /\ held' = held /\ Invoices!Matches(c) = {}
                 /\ \E l \in {"partner", "insert"} :
                       /\ l = "partner" <=> Invoices!Mentioned(c) # NoPartner
                       /\ RequestIs(c, l, request[c].key, request[c].content, request[c].files,
                                    request[c].stored, request[c].partner, request[c].found,
                                    request[c].outcome)
              \/ /\ OnlyLocksOf(c) /\ LocksOf(c)' = {}
                 /\ \E s \in submissions :
                       s.key = request[c].key /\ s.content # request[c].content
                 /\ RequestIs(c, "drop", request[c].key, request[c].content, request[c].files,
                              request[c].stored, request[c].partner, "none", "conflict")
              \/ /\ OnlyLocksOf(c) /\ LocksOf(c)' = {}
                 /\ \E s \in submissions :
                       /\ s.content = request[c].content
                       /\ RequestIs(c, "enqueue", request[c].key, request[c].content,
                                    request[c].files, request[c].stored, request[c].partner,
                                    s.content, "duplicate")
<1>1. /\ request[c].pc = "find"
      /\ UNCHANGED <<files, faults, mails, submissions, partners, selection>>
  BY DEF Invoices!Find, Invoices!At
<1>2. CASE /\ Invoices!Matches(c) = {}
           /\ Invoices!GoTo(c, IF PartnerOf(Invoices!Content(c)) = NoPartner
                               THEN "insert" ELSE "partner")
           /\ held' = held
  <2> DEFINE l == IF PartnerOf(Invoices!Content(c)) = NoPartner THEN "insert" ELSE "partner"
  <2>1. l \in {"partner", "insert"} /\ (l = "partner" <=> Invoices!Mentioned(c) # NoPartner)
    BY DEF Invoices!Mentioned
  <2>2. Invoices!GoTo(c, l) /\ l \in Invoices!Labels
    BY <1>2 DEF Invoices!Labels
  <2> HIDE DEF l
  <2>3. RequestIs(c, l, request[c].key, request[c].content, request[c].files,
                  request[c].stored, request[c].partner, request[c].found, request[c].outcome)
    BY <2>2, CallerGoTo DEF IInv
  <2> QED BY <1>1, <1>2, <2>1, <2>3
<1>3. ASSUME NEW s \in Invoices!Matches(c),
             request' = [request EXCEPT
                   ![c].pc      = IF Invoices!Conflict(c, s) THEN "drop" ELSE "enqueue",
                   ![c].outcome = IF Invoices!Conflict(c, s) THEN "conflict" ELSE "duplicate",
                   ![c].found   = IF Invoices!Conflict(c, s) THEN "none" ELSE s.content],
             Invoices!Locks!LetGo(c)
      PROVE  \/ /\ s \in submissions
                /\ s.key = request[c].key /\ s.content # request[c].content
                /\ RequestIs(c, "drop", request[c].key, request[c].content, request[c].files,
                             request[c].stored, request[c].partner, "none", "conflict")
             \/ /\ s \in submissions /\ s.content = request[c].content
                /\ RequestIs(c, "enqueue", request[c].key, request[c].content,
                             request[c].files, request[c].stored, request[c].partner,
                             s.content, "duplicate")
  <2>1. /\ s \in submissions /\ s.content \in Contents
        /\ ~Invoices!Conflict(c, s) => s.content = request[c].content
    BY SubmissionTypes DEF Invoices!Matches, Invoices!Conflict, Invoices!Content, IInv
  <2>2. CASE Invoices!Conflict(c, s)
    <3>1. request' = [request EXCEPT ![c].pc = "drop", ![c].outcome = "conflict",
                                     ![c].found = "none"]
      BY <1>3, <2>2
    <3>2. s.key = request[c].key /\ s.content # request[c].content
      BY <2>2 DEF Invoices!Conflict, Invoices!Content
    <3>3. RequestIs(c, "drop", request[c].key, request[c].content, request[c].files,
                    request[c].stored, request[c].partner, "none", "conflict")
      BY <3>1, CallerFinds DEF IInv, Invoices!Labels, Invoices!Endings
    <3> QED BY <2>1, <3>2, <3>3
  <2>3. CASE ~Invoices!Conflict(c, s)
    <3>1. request' = [request EXCEPT ![c].pc = "enqueue", ![c].outcome = "duplicate",
                                     ![c].found = s.content]
      BY <1>3, <2>3
    <3>2. RequestIs(c, "enqueue", request[c].key, request[c].content,
                    request[c].files, request[c].stored, request[c].partner,
                    s.content, "duplicate")
      BY <2>1, <3>1, CallerFinds DEF IInv, Invoices!Labels, Invoices!Endings
    <3> QED BY <2>1, <2>3, <3>2
  <2> QED BY <2>2, <2>3
<1>4. CASE \E s \in Invoices!Matches(c) :
             /\ request' = [request EXCEPT
                   ![c].pc      = IF Invoices!Conflict(c, s) THEN "drop" ELSE "enqueue",
                   ![c].outcome = IF Invoices!Conflict(c, s) THEN "conflict" ELSE "duplicate",
                   ![c].found   = IF Invoices!Conflict(c, s) THEN "none" ELSE s.content]
             /\ Invoices!Locks!LetGo(c)
  BY <1>1, <1>3, <1>4, CallerLetsGo
<1> QED BY <1>2, <1>4 DEF Invoices!Find

\* The partner's locks: its name's, and its document id's if it has one.
LEMMA PartnerLocks ==
    ASSUME NEW c
    PROVE  /\ <<"partner-name", Invoices!Mentioned(c).name>> \in Invoices!PartnerGuards(c)
           /\ Invoices!Mentioned(c).document # NoDocument =>
                 <<"partner-document", Invoices!Mentioned(c).document>>
                    \in Invoices!PartnerGuards(c)
           /\ \A l \in Invoices!PartnerGuards(c) :
                 \/ l = <<"partner-name", Invoices!Mentioned(c).name>>
                 \/ l = <<"partner-document", Invoices!Mentioned(c).document>>
BY DEF Invoices!PartnerGuards, Invoices!Mentioned

LEMMA PartnerLockOrder ==
    ASSUME NEW c, ~Invoices!Locks!Has(c, Invoices!PartnerGuards(c))
    PROVE  /\ Invoices!NextPartnerLock(c) \in Invoices!PartnerGuards(c) \ LocksOf(c)
           /\ Invoices!NextPartnerLock(c)[1] = "partner-document"
              \/ Invoices!PartnerGuards(c) \ LocksOf(c) = {Invoices!NextPartnerLock(c)}
<1> DEFINE R == Invoices!PartnerGuards(c) \ LocksOf(c)
           N == <<"partner-name", Invoices!Mentioned(c).name>>
           D == <<"partner-document", Invoices!Mentioned(c).document>>
<1>1. /\ Invoices!NextPartnerLock(c)
           = CHOOSE l \in R : l[1] = "partner-document" \/ R = {l}
      /\ R # {}
  BY LocksOfBoth DEF Invoices!NextPartnerLock, Invoices!Locks!Has
<1>2. \A l \in R : l = N \/ l = D
  BY PartnerLocks
<1>3. D[1] = "partner-document"
  OBVIOUS
<1> HIDE DEF R, N, D
<1>4. \E l \in R : l[1] = "partner-document" \/ R = {l}
  BY <1>1, <1>2, <1>3
<1> QED BY <1>1, <1>4 DEF R

LEMMA LockPartnerEffect ==
    ASSUME IInv, NEW c \in Callers, Invoices!LockPartner(c)
    PROVE  /\ request[c].pc = "partner"
           /\ UNCHANGED <<files, faults, mails, submissions, partners, selection, request>>
           /\ OnlyLocksOf(c)
           /\ \E l \in Invoices!PartnerGuards(c) \ LocksOf(c) :
                 /\ LocksOf(c)' = LocksOf(c) \cup {l}
                 /\ \/ l[1] = "partner-document"
                    \/ Invoices!PartnerGuards(c) \ LocksOf(c) = {l}
<1> DEFINE l == Invoices!NextPartnerLock(c)
<1>1. /\ request[c].pc = "partner"
      /\ UNCHANGED <<files, faults, mails, submissions, partners, selection, request>>
      /\ held' = held \cup {<<c, l>>} /\ \A h \in held : h[2] # l
  BY DEF Invoices!LockPartner, Invoices!At, Invoices!Locks!Taken
<1>2. /\ l \in Invoices!PartnerGuards(c) \ LocksOf(c)
      /\ l[1] = "partner-document" \/ Invoices!PartnerGuards(c) \ LocksOf(c) = {l}
  BY PartnerLockOrder DEF Invoices!LockPartner
<1> HIDE DEF l
<1>3. OnlyLocksOf(c) /\ LocksOf(c)' = LocksOf(c) \cup {l}
  BY <1>1, TakeEffect DEF IInv, LockInv
<1> QED BY <1>1, <1>2, <1>3

LEMMA FindPartnerEffect ==
    ASSUME IInv, NEW c \in Callers, Invoices!FindPartner(c)
    PROVE  /\ request[c].pc = "partner"
           /\ UNCHANGED <<files, held, faults, mails, submissions, partners, selection>>
           /\ Invoices!PartnerGuards(c) \subseteq LocksOf(c)
           /\ \E p \in Partners :
                 /\ p \in partners \/ (p = Invoices!Mentioned(c) /\ Invoices!Known(p) = {})
                 /\ RequestIs(c, "insert", request[c].key, request[c].content,
                              request[c].files, request[c].stored, p, request[c].found,
                              request[c].outcome)
<1>1. /\ request[c].pc = "partner"
      /\ UNCHANGED <<files, held, faults, mails, submissions, partners, selection>>
      /\ Invoices!PartnerGuards(c) \subseteq LocksOf(c)
  BY LocksOfBoth DEF Invoices!FindPartner, Invoices!At, Invoices!Locks!Has
<1> DEFINE m == Invoices!Mentioned(c)
<1>2. PICK p \in IF Invoices!Known(m) = {} THEN {m} ELSE Invoices!Known(m) :
         request' = [request EXCEPT ![c].pc = "insert", ![c].partner = p]
  BY DEF Invoices!FindPartner
<1>3. m \in Partners
  BY <1>1, CallerAbout DEF IInv, RowInv, CallerFresh, Partners, Invoices!Mentioned, Invoices!Content
<1>4. p \in partners \/ (p = m /\ Invoices!Known(p) = {})
  BY <1>2 DEF Invoices!Known
<1>5. p \in Partners
  BY <1>3, <1>4 DEF IInv, TypeOK
<1>6. RequestIs(c, "insert", request[c].key, request[c].content, request[c].files,
                request[c].stored, p, request[c].found, request[c].outcome)
  BY <1>2, <1>5, CallerTakesPartner DEF IInv, Invoices!Labels
<1> QED BY <1>1, <1>4, <1>5, <1>6

\* The row that a submission writes.
SubmissionOf(c) == [key |-> request[c].key, content |-> request[c].content,
                    files |-> request[c].files, partner |-> request[c].partner]

LEMMA WrittenEffect ==
    ASSUME IInv, NEW c, Invoices!Written(c)
    PROVE  /\ partners' = (partners \cup {request[c].partner}) \ {NoPartner}
           /\ submissions' = submissions \cup {SubmissionOf(c)}
           /\ OnlyLocksOf(c) /\ LocksOf(c)' = {}
BY CallerLetsGo DEF Invoices!Written, Invoices!Content, SubmissionOf

LEMMA CallerInsertEffect ==
    ASSUME IInv, NEW c \in Callers, Invoices!Insert(c)
    PROVE  /\ request[c].pc = "insert"
           /\ UNCHANGED <<files, faults, mails, selection>>
           /\ partners' = (partners \cup {request[c].partner}) \ {NoPartner}
           /\ submissions' = submissions \cup {SubmissionOf(c)}
           /\ OnlyLocksOf(c) /\ LocksOf(c)' = {}
           /\ RequestIs(c, "enqueue", request[c].key, request[c].content, request[c].files,
                        request[c].stored, request[c].partner, request[c].content, "created")
<1>1. /\ request[c].pc = "insert" /\ Invoices!Written(c)
      /\ UNCHANGED <<files, faults, mails, selection>>
      /\ request' = [request EXCEPT ![c].pc = "enqueue", ![c].outcome = "created",
                                    ![c].found = request[c].content]
  BY DEF Invoices!Insert, Invoices!At, Invoices!Content
<1>2. RequestIs(c, "enqueue", request[c].key, request[c].content, request[c].files,
                request[c].stored, request[c].partner, request[c].content, "created")
  BY <1>1, CallerAbout, CallerFinds DEF IInv, Invoices!Labels, Invoices!Endings
<1> QED BY <1>1, <1>2, WrittenEffect

LEMMA CallerLoseCommitEffect ==
    ASSUME IInv, NEW c \in Callers, Invoices!LoseCommit(c)
    PROVE  /\ request[c].pc = "insert"
           /\ UNCHANGED <<files, mails, selection>>
           /\ faults' \in 0..MaxFaults /\ faults' # 0
           /\ partners' = (partners \cup {request[c].partner}) \ {NoPartner}
           /\ submissions' = submissions \cup {SubmissionOf(c)}
           /\ OnlyLocksOf(c) /\ LocksOf(c)' = {}
           /\ RequestIs(c, "error", request[c].key, request[c].content, request[c].files,
                        request[c].stored, request[c].partner, request[c].found,
                        request[c].outcome)
<1>1. /\ request[c].pc = "insert" /\ Invoices!Written(c) /\ Invoices!Fault
      /\ UNCHANGED <<files, mails, selection>> /\ Invoices!GoTo(c, "error")
  BY DEF Invoices!LoseCommit, Invoices!At
<1>2. "error" \in Invoices!Labels
  BY DEF Invoices!Labels, Invoices!Endings
<1>3. TypeOK
  BY DEF IInv
<1> QED BY <1>1, <1>2, <1>3, WrittenEffect, CallerFault, CallerGoTo

LEMMA FailEffect ==
    ASSUME IInv, NEW c \in Callers, Invoices!Fail(c)
    PROVE  /\ request[c].pc \notin {"idle"} \cup Invoices!Endings
           /\ UNCHANGED <<files, mails, submissions, partners, selection>>
           /\ faults' \in 0..MaxFaults /\ faults' # 0
           /\ OnlyLocksOf(c) /\ LocksOf(c)' = {}
           /\ RequestIs(c, "error", request[c].key, request[c].content, request[c].files,
                        request[c].stored, request[c].partner, request[c].found,
                        request[c].outcome)
<1>1. "error" \in Invoices!Labels /\ TypeOK
  BY DEF IInv, Invoices!Labels, Invoices!Endings
<1> QED BY <1>1, CallerLetsGo, CallerFault, CallerGoTo DEF Invoices!Fail

LEMMA CallerEnqueueEffect ==
    ASSUME IInv, NEW c \in Callers, Invoices!Enqueue(c)
    PROVE  /\ request[c].pc = "enqueue"
           /\ UNCHANGED <<files, held, faults, mails, submissions, partners>>
           /\ selection' = selection \cup {request[c].found}
           /\ \E l \in {"drop", "created"} :
                 /\ l = "drop" <=> request[c].outcome = "duplicate"
                 /\ RequestIs(c, l, request[c].key, request[c].content, request[c].files,
                              request[c].stored, request[c].partner, request[c].found,
                              request[c].outcome)
<1> DEFINE l == IF request[c].outcome = "duplicate" THEN "drop" ELSE "created"
<1>1. /\ request[c].pc = "enqueue" /\ Invoices!GoTo(c, l)
      /\ UNCHANGED <<files, held, faults, mails, submissions, partners>>
      /\ selection' = selection \cup {request[c].found}
  BY DEF Invoices!Enqueue, Invoices!At
<1>2. l \in Invoices!Labels /\ l \in {"drop", "created"} /\ TypeOK
      /\ (l = "drop" <=> request[c].outcome = "duplicate")
  BY DEF IInv, Invoices!Labels, Invoices!Endings
<1> HIDE DEF l
<1> QED BY <1>1, <1>2, CallerGoTo

LEMMA CallerDropEffect ==
    ASSUME IInv, NEW c \in Callers, Invoices!Drop(c)
    PROVE  /\ request[c].pc = "drop"
           /\ UNCHANGED <<held, faults, mails, submissions, partners, selection>>
           /\ \/ /\ request[c].stored \in 1..Uploads /\ c \in Clients
                 /\ files' = files \ {<<c, 1, request[c].stored>>}
                 /\ RequestIs(c, "drop", request[c].key, request[c].content, request[c].files,
                              request[c].stored - 1, request[c].partner, request[c].found,
                              request[c].outcome)
              \/ /\ request[c].stored = 0 /\ files' = files
                 /\ request[c].outcome \in {"rejected", "conflict", "duplicate"}
                 /\ RequestIs(c, request[c].outcome, request[c].key, request[c].content,
                              request[c].files, request[c].stored, request[c].partner,
                              request[c].found, request[c].outcome)
<1>1. /\ request[c].pc = "drop"
      /\ UNCHANGED <<held, faults, mails, submissions, partners, selection>>
  BY DEF Invoices!Drop, Invoices!At
<1>2. TypeOK /\ request[c].stored \in 0..Uploads
  BY RequestTypes DEF IInv
<1>3. CASE request[c].stored > 0
  <2>1. /\ files' = files \ {<<c, 1, request[c].stored>>}
        /\ request' = [request EXCEPT ![c].stored = request[c].stored - 1]
    BY <1>3 DEF Invoices!Drop, Invoices!Upload
  <2>2. request[c].stored \in 1..Uploads /\ request[c].stored - 1 \in 0..Uploads
    BY <1>2, <1>3, Numbers
  <2>3. c \in Clients
    BY <2>2, OnlyClientsStore, Numbers
  <2>4. RequestIs(c, "drop", request[c].key, request[c].content, request[c].files,
                  request[c].stored - 1, request[c].partner, request[c].found,
                  request[c].outcome)
    BY <1>1, <1>2, <2>1, <2>2, CallerUnstores
  <2> QED BY <1>1, <2>1, <2>2, <2>3, <2>4
<1>4. CASE ~(request[c].stored > 0)
  <2>1. files' = files /\ Invoices!GoTo(c, request[c].outcome) /\ request[c].stored = 0
    BY <1>2, <1>4, Numbers DEF Invoices!Drop
  <2>2. request[c].outcome \in {"rejected", "conflict", "duplicate"}
    BY <1>1 DEF IInv, RowInv, Answered
  <2>3. request[c].outcome \in Invoices!Labels
    BY <2>2 DEF Invoices!Labels, Invoices!Endings
  <2> QED BY <1>1, <1>2, <2>1, <2>2, <2>3, CallerGoTo
<1> QED BY <1>3, <1>4

-----------------------------------------------------------------------------
(* Locks: who holds which, at which label.                                 *)

LEMMA GuardsStay ==
    /\ \A t : Ingestion!Guards(t)' = Ingestion!Guards(t)
    /\ \A c : request'[c].key = request[c].key /\ request'[c].content = request[c].content
         => /\ Invoices!SubmissionGuards(c)' = Invoices!SubmissionGuards(c)
            /\ Invoices!PartnerGuards(c)' = Invoices!PartnerGuards(c)
            /\ Invoices!Mentioned(c)' = Invoices!Mentioned(c)
BY DEF Ingestion!Guards, Invoices!SubmissionGuards, Invoices!PartnerGuards, Invoices!Content,
       Invoices!Mentioned

LEMMA TaskLocksStay ==
    ASSUME IInv, NEW t \in Tasks, LocksOf(t)' = LocksOf(t), job'[t] = job[t]
    PROVE  TaskLocks(t)'
BY GuardsStay DEF TaskLocks, IInv, LockInv, Taking

LEMMA CallerLocksStay ==
    ASSUME IInv, NEW c \in Callers, LocksOf(c)' = LocksOf(c), request'[c] = request[c]
    PROVE  CallerLocks(c)'
BY GuardsStay DEF CallerLocks, IInv, LockInv, Taking

LEMMA TaskLockFrame ==
    ASSUME IInv, NEW t \in Tasks, OnlyLocksOf(t), request' = request,
           \A u \in Tasks : u # t => job'[u] = job[u], TaskLocks(t)'
    PROVE  LockInv'
<1>1. \A u \in Tasks : TaskLocks(u)'
  <2> TAKE u \in Tasks
  <2> QED BY TaskLocksStay DEF OnlyLocksOf
<1>2. \A c \in Callers : CallerLocks(c)'
  <2> TAKE c \in Callers
  <2>1. c # t
    BY Numbers
  <2> QED BY <2>1, CallerLocksStay DEF OnlyLocksOf
<1> QED BY <1>1, <1>2 DEF LockInv, OnlyLocksOf

LEMMA CallerLockFrame ==
    ASSUME IInv, NEW c \in Callers, OnlyLocksOf(c), job' = job,
           \A d \in Callers : d # c => request'[d] = request[d], CallerLocks(c)'
    PROVE  LockInv'
<1>1. \A d \in Callers : CallerLocks(d)'
  <2> TAKE d \in Callers
  <2> QED BY CallerLocksStay DEF OnlyLocksOf
<1>2. \A t \in Tasks : TaskLocks(t)'
  <2> TAKE t \in Tasks
  <2>1. c # t
    BY Numbers
  <2> QED BY <2>1, TaskLocksStay DEF OnlyLocksOf
<1> QED BY <1>1, <1>2 DEF LockInv, OnlyLocksOf

\* The steps of a job, and those of a caller.
TaskStep(t) == \/ Ingestion!Progress(t) \/ Ingestion!Refuse(t) \/ Ingestion!LoseCommit(t)
               \/ Ingestion!LoseTransaction(t) \/ Ingestion!Break(t)

CallerStep(c) == \/ Invoices!Arrive(c) \/ Invoices!Import(c) \/ Invoices!Reject(c)
                 \/ Invoices!Progress(c) \/ Invoices!LoseCommit(c) \/ Invoices!Fail(c)

\* A process has no locks where its label says so.
LEMMA TaskWithout ==
    ASSUME NEW t, LocksOf(t)' = {}, job'[t].pc \notin {"lock", "find", "insert"}
    PROVE  TaskLocks(t)'
BY DEF TaskLocks

LEMMA CallerWithout ==
    ASSUME NEW c, LocksOf(c)' = {}, request'[c].pc \notin {"lock", "find", "partner", "insert"}
    PROVE  CallerLocks(c)'
BY DEF CallerLocks

LEMMA KeptLocks ==
    ASSUME IInv, held' = held, NEW p
    PROVE  OnlyLocksOf(p) /\ LocksOf(p)' = LocksOf(p)
BY HeldKept DEF IInv, LockInv

LEMMA TaskStepLocks ==
    ASSUME IInv, NEW t \in Tasks, TaskStep(t), request' = request
    PROVE  LockInv' /\ OnlyLocksOf(t)
<1> SUFFICES /\ OnlyLocksOf(t) /\ TaskLocks(t)'
             /\ \A u \in Tasks : u # t => job'[u] = job[u]
  BY TaskLockFrame DEF OnlyLocksOf
<1>1. CASE Ingestion!Fetch(t)
  BY <1>1, FetchEffect, KeptLocks, TaskAtRest, TaskWithout DEF JobIs
<1>2. CASE Ingestion!Store(t)
  <2>1. LocksOf(t)' = {} /\ OnlyLocksOf(t)
    BY <1>2, StoreEffect, KeptLocks, TaskAtRest
  <2>2. Taking(LocksOf(t)', Ingestion!Guards(t)')
    BY <2>1 DEF Taking
  <2>3. /\ job'[t].pc \in {"store", "lock"}
        /\ \A u \in Tasks : u # t => job'[u] = job[u]
    BY <1>2, StoreEffect DEF JobIs
  <2> QED BY <2>1, <2>2, <2>3 DEF TaskLocks
<1>3. CASE Ingestion!Refuse(t)
  BY <1>3, RefuseEffect, KeptLocks, TaskAtRest, TaskWithout DEF JobIs
<1>4. CASE Ingestion!Lock(t)
  BY <1>4, LockEffect, GuardsStay DEF JobIs, TaskLocks
<1>5. CASE Ingestion!Find(t)
  <2>1. CASE held' = held /\ JobIs(t, "insert", job[t].tries, job[t].stored, job[t].found)
    BY <1>5, <2>1, FindEffect, KeptLocks, TaskAtRest, GuardsStay DEF JobIs, TaskLocks
  <2>2. CASE /\ OnlyLocksOf(t) /\ LocksOf(t)' = {}
             /\ \E r \in mails : JobIs(t, "drop", job[t].tries, job[t].stored, r.content)
    BY <2>2, TaskWithout DEF JobIs
  <2> QED BY <1>5, <2>1, <2>2, FindEffect
<1>6. CASE Ingestion!Insert(t)
  BY <1>6, InsertEffect, TaskWithout DEF JobIs
<1>7. CASE Ingestion!Clash(t)
  BY <1>7, ClashEffect, TaskWithout DEF JobIs
<1>8. CASE Ingestion!LoseCommit(t)
  BY <1>8, LoseCommitEffect, TaskWithout DEF JobIs
<1>9. CASE Ingestion!LoseTransaction(t)
  BY <1>9, LoseTransactionEffect, TaskWithout DEF JobIs
<1>10. CASE Ingestion!Drop(t)
  <2>1. LocksOf(t)' = {} /\ OnlyLocksOf(t)
    BY <1>10, DropEffect, KeptLocks, TaskAtRest
  <2>2. /\ job'[t].pc \in {"drop", "enqueue", "queued", "FAILED"}
        /\ \A u \in Tasks : u # t => job'[u] = job[u]
    BY <1>10, DropEffect, FailedLabel DEF JobIs
  <2> QED BY <2>1, <2>2, TaskWithout
<1>11. CASE Ingestion!Enqueue(t)
  BY <1>11, EnqueueEffect, KeptLocks, TaskAtRest, TaskWithout DEF JobIs
<1>12. CASE Ingestion!Break(t)
  BY <1>12, BreakEffect, FailedLabel, TaskWithout DEF JobIs
<1> QED BY <1>1, <1>2, <1>3, <1>4, <1>5, <1>6, <1>7, <1>8, <1>9, <1>10, <1>11, <1>12
        DEF TaskStep, Ingestion!Progress

LEMMA CallerStepLocks ==
    ASSUME IInv, NEW c \in Callers, CallerStep(c), job' = job
    PROVE  LockInv' /\ OnlyLocksOf(c)
<1> SUFFICES /\ OnlyLocksOf(c) /\ CallerLocks(c)'
             /\ \A d \in Callers : d # c => request'[d] = request[d]
  BY CallerLockFrame DEF OnlyLocksOf
<1>0. CallerLocks(c)
  BY DEF IInv, LockInv
<1>1. CASE Invoices!Arrive(c)
  <2>1. LocksOf(c)' = {} /\ OnlyLocksOf(c)
    BY <1>0, <1>1, ArriveEffect, KeptLocks DEF CallerLocks
  <2>2. request'[c].pc = "store" /\ \A d \in Callers : d # c => request'[d] = request[d]
    BY <1>1, ArriveEffect DEF RequestIs
  <2> QED BY <2>1, <2>2, CallerWithout
<1>2. CASE Invoices!Import(c)
  <2>1. LocksOf(c)' = {} /\ OnlyLocksOf(c)
    BY <1>0, <1>2, ImportEffect, KeptLocks DEF CallerLocks
  <2>2. request'[c].pc = "lock" /\ \A d \in Callers : d # c => request'[d] = request[d]
    BY <1>2, ImportEffect DEF RequestIs
  <2> QED BY <2>1, <2>2 DEF CallerLocks, Taking
<1>3. CASE Invoices!Store(c)
  <2>1. LocksOf(c)' = {} /\ OnlyLocksOf(c)
    BY <1>0, <1>3, CallerStoreEffect, KeptLocks DEF CallerLocks
  <2>2. /\ request'[c].pc \in {"store", "lock"}
        /\ \A d \in Callers : d # c => request'[d] = request[d]
    BY <1>3, CallerStoreEffect DEF RequestIs
  <2> QED BY <2>1, <2>2 DEF CallerLocks, Taking
<1>4. CASE Invoices!Reject(c)
  <2>1. LocksOf(c)' = {} /\ OnlyLocksOf(c)
    BY <1>0, <1>4, RejectEffect, KeptLocks DEF CallerLocks
  <2> QED BY <1>4, <2>1, RejectEffect, CallerWithout DEF RequestIs
<1>5. CASE Invoices!Lock(c)
  BY <1>5, CallerLockEffect, GuardsStay DEF RequestIs, CallerLocks
<1>6. CASE Invoices!Find(c)
  <2>0. LocksOf(c) = Invoices!SubmissionGuards(c)
    BY <1>0, <1>6, CallerFindEffect DEF CallerLocks
  <2>1. CASE /\ held' = held
             /\ \E l \in {"partner", "insert"} :
                   RequestIs(c, l, request[c].key, request[c].content, request[c].files,
                             request[c].stored, request[c].partner, request[c].found,
                             request[c].outcome)
    <3>1. OnlyLocksOf(c) /\ LocksOf(c)' = Invoices!SubmissionGuards(c)
      BY <2>0, <2>1, KeptLocks
    <3>2. /\ request'[c].pc \in {"partner", "insert"}
          /\ Invoices!SubmissionGuards(c)' = Invoices!SubmissionGuards(c)
          /\ \A d \in Callers : d # c => request'[d] = request[d]
      BY <2>1, GuardsStay DEF RequestIs
    <3>3. \A l \in LocksOf(c)' : l[1] # "partner-name"
      BY <3>1 DEF Invoices!SubmissionGuards
    <3> QED BY <3>1, <3>2, <3>3 DEF CallerLocks
  <2>2. CASE /\ OnlyLocksOf(c) /\ LocksOf(c)' = {}
             /\ RequestIs(c, "drop", request[c].key, request[c].content, request[c].files,
                          request[c].stored, request[c].partner, "none", "conflict")
    BY <2>2, CallerWithout DEF RequestIs
  <2>3. CASE /\ OnlyLocksOf(c) /\ LocksOf(c)' = {}
             /\ \E s \in submissions :
                   RequestIs(c, "enqueue", request[c].key, request[c].content,
                             request[c].files, request[c].stored, request[c].partner,
                             s.content, "duplicate")
    BY <2>3, CallerWithout DEF RequestIs
  <2> QED BY <1>6, <2>1, <2>2, <2>3, CallerFindEffect
<1>7. CASE Invoices!LockPartner(c)
  <2>1. /\ request[c].pc = "partner" /\ request' = request /\ OnlyLocksOf(c)
    BY <1>7, LockPartnerEffect
  <2>2. PICK l \in Invoices!PartnerGuards(c) \ LocksOf(c) :
           /\ LocksOf(c)' = LocksOf(c) \cup {l}
           /\ l[1] = "partner-document" \/ Invoices!PartnerGuards(c) \ LocksOf(c) = {l}
    BY <1>7, LockPartnerEffect
  <2>3. /\ Invoices!SubmissionGuards(c)' = Invoices!SubmissionGuards(c)
        /\ Invoices!PartnerGuards(c)' = Invoices!PartnerGuards(c)
    BY <2>1, GuardsStay
  <2>4. (\E x \in LocksOf(c)' : x[1] = "partner-name")
           => Invoices!PartnerGuards(c) \subseteq LocksOf(c)'
    BY <1>0, <2>1, <2>2 DEF CallerLocks
  <2>5. /\ Invoices!SubmissionGuards(c) \subseteq LocksOf(c)'
        /\ LocksOf(c)' \subseteq Invoices!SubmissionGuards(c) \cup Invoices!PartnerGuards(c)
    BY <1>0, <2>1, <2>2 DEF CallerLocks
  <2> QED BY <2>1, <2>3, <2>4, <2>5 DEF CallerLocks
<1>8. CASE Invoices!FindPartner(c)
  <2>1. /\ request'[c].pc = "insert" /\ \A d \in Callers : d # c => request'[d] = request[d]
        /\ Invoices!SubmissionGuards(c)' = Invoices!SubmissionGuards(c)
    BY <1>8, FindPartnerEffect, GuardsStay DEF RequestIs
  <2> QED BY <1>0, <1>8, <2>1, FindPartnerEffect, KeptLocks DEF CallerLocks
<1>9. CASE Invoices!Insert(c)
  BY <1>9, CallerInsertEffect, CallerWithout DEF RequestIs
<1>10. CASE Invoices!LoseCommit(c)
  BY <1>10, CallerLoseCommitEffect, CallerWithout DEF RequestIs
<1>11. CASE Invoices!Fail(c)
  BY <1>11, FailEffect, CallerWithout DEF RequestIs
<1>12. CASE Invoices!Enqueue(c)
  <2>1. LocksOf(c)' = {} /\ OnlyLocksOf(c)
    BY <1>0, <1>12, CallerEnqueueEffect, KeptLocks DEF CallerLocks
  <2>2. /\ request'[c].pc \in {"drop", "created"}
        /\ \A d \in Callers : d # c => request'[d] = request[d]
    BY <1>12, CallerEnqueueEffect DEF RequestIs
  <2> QED BY <2>1, <2>2, CallerWithout
<1>13. CASE Invoices!Drop(c)
  <2>1. LocksOf(c)' = {} /\ OnlyLocksOf(c)
    BY <1>0, <1>13, CallerDropEffect, KeptLocks DEF CallerLocks
  <2>2. /\ request'[c].pc \in {"drop", "rejected", "conflict", "duplicate"}
        /\ \A d \in Callers : d # c => request'[d] = request[d]
    BY <1>13, CallerDropEffect DEF RequestIs
  <2> QED BY <2>1, <2>2, CallerWithout
<1> QED BY <1>1, <1>2, <1>3, <1>4, <1>5, <1>6, <1>7, <1>8, <1>9, <1>10, <1>11, <1>12, <1>13
        DEF CallerStep, Invoices!Progress

-----------------------------------------------------------------------------
(* Types.                                                                  *)

\* What a step of an ingestion may do to anything but its own job.
TaskReach(t) ==
    /\ job' \in [Tasks -> Ingestion!Job]
    /\ \A u \in Tasks : u # t => job'[u] = job[u]
    /\ files' \subseteq files \cup Ingestion!File
    /\ mails' = mails \/ mails' = mails \cup {Ingestion!NewRow(t)}
    /\ unsure' = unsure \/ unsure' = unsure \cup {SourceOf(t).content}
    /\ classify' = classify \/ classify' = classify \cup ({job[t].found} \ {"none"})
    /\ faults' \in 0..MaxFaults

LEMMA AttemptNumber ==
    ASSUME IInv, NEW t \in Tasks, job[t].pc # "queued"
    PROVE  /\ job[t].tries \in 1..MaxAttempts
           /\ \A i \in 1..Parts : <<t, job[t].tries, i>> \in Ingestion!File
           /\ Ingestion!StoredBy(t) = {<<t, job[t].tries, i>> : i \in 1..job[t].stored}
           /\ Ingestion!StoredBy(t) \subseteq Ingestion!File
<1>1. /\ job[t].tries \in 0..MaxAttempts /\ job[t].tries > 0
      /\ job[t].stored \in 0..Parts
  BY JobTypes DEF IInv, FileInv, Attempt
<1>2. job[t].tries \in 1..MaxAttempts
  BY <1>1, Numbers
<1>3. \A i \in 1..Parts : <<t, job[t].tries, i>> \in Ingestion!File
  BY <1>2 DEF Ingestion!File
<1>4. Ingestion!StoredBy(t) = {<<t, job[t].tries, i>> : i \in 1..job[t].stored}
  BY DEF Ingestion!StoredBy, Ingestion!FileOf
<1>5. \A i \in 1..job[t].stored : i \in 1..Parts
  BY <1>1, Numbers
<1> QED BY <1>2, <1>3, <1>4, <1>5

LEMMA NewRowTypes ==
    ASSUME IInv, NEW t \in Tasks, job[t].pc = "insert"
    PROVE  /\ Ingestion!NewRow(t) \in Ingestion!Row
           /\ Ingestion!NewRow(t).key = SourceOf(t).key
           /\ Ingestion!NewRow(t).content = SourceOf(t).content
           /\ Ingestion!NewRow(t).files = Ingestion!StoredBy(t)
BY AttemptNumber, TaskGuards DEF Ingestion!NewRow, Ingestion!Row

LEMMA EnqueuedFound ==
    ASSUME IInv, NEW t \in Tasks, job[t].pc = "enqueue"
    PROVE  job[t].found \in Fingerprints
BY JobTypes DEF IInv, RowInv, Found

LEMMA TaskStepReach ==
    ASSUME IInv, NEW t \in Tasks, TaskStep(t)
    PROVE  TaskReach(t)
<1>0. faults \in 0..MaxFaults
  BY DEF IInv, TypeOK
<1>1. CASE Ingestion!Fetch(t)
  BY <1>0, <1>1, FetchEffect DEF JobIs, TaskReach
<1>2. CASE Ingestion!Store(t)
  <2>1. files' \subseteq files \cup Ingestion!File
    BY <1>2, StoreEffect, AttemptNumber
  <2> QED BY <1>0, <1>2, <2>1, StoreEffect DEF JobIs, TaskReach
<1>3. CASE Ingestion!Refuse(t)
  BY <1>0, <1>3, RefuseEffect DEF JobIs, TaskReach
<1>4. CASE Ingestion!Lock(t)
  BY <1>0, <1>4, LockEffect DEF JobIs, TaskReach
<1>5. CASE Ingestion!Find(t)
  BY <1>0, <1>5, FindEffect DEF JobIs, TaskReach
<1>6. CASE Ingestion!Insert(t)
  BY <1>0, <1>6, InsertEffect DEF JobIs, TaskReach
<1>7. CASE Ingestion!Clash(t)
  BY <1>0, <1>7, ClashEffect DEF JobIs, TaskReach
<1>8. CASE Ingestion!LoseCommit(t)
  BY <1>8, LoseCommitEffect DEF JobIs, TaskReach
<1>9. CASE Ingestion!LoseTransaction(t)
  BY <1>9, LoseTransactionEffect DEF JobIs, TaskReach
<1>10. CASE Ingestion!Drop(t)
  <2>1. files' \subseteq files \cup Ingestion!File
    BY <1>10, DropEffect
  <2> QED BY <1>0, <1>10, <2>1, DropEffect DEF JobIs, TaskReach
<1>11. CASE Ingestion!Enqueue(t)
  <2>1. job[t].found # "none"
    BY <1>11, EnqueueEffect DEF IInv, RowInv, Found
  <2> QED BY <1>0, <1>11, <2>1, EnqueueEffect DEF JobIs, TaskReach
<1>12. CASE Ingestion!Break(t)
  BY <1>12, BreakEffect DEF JobIs, TaskReach
<1> QED BY <1>1, <1>2, <1>3, <1>4, <1>5, <1>6, <1>7, <1>8, <1>9, <1>10, <1>11, <1>12
        DEF TaskStep, Ingestion!Progress

LEMMA TaskInsertsAt ==
    ASSUME IInv, NEW t \in Tasks, TaskStep(t)
    PROVE  \/ /\ mails' = mails /\ unsure' = unsure
           \/ /\ job[t].pc = "insert" /\ mails' = mails \cup {Ingestion!NewRow(t)}
              /\ \/ /\ unsure' = unsure /\ job'[t].pc = "enqueue"
                    /\ job'[t].stored = job[t].stored /\ job'[t].tries = job[t].tries
                 \/ /\ unsure' = unsure \cup {SourceOf(t).content}
                    /\ faults' # 0
BY FetchEffect, StoreEffect, RefuseEffect, LockEffect, FindEffect, InsertEffect, ClashEffect,
   LoseCommitEffect, LoseTransactionEffect, DropEffect, EnqueueEffect, BreakEffect
   DEF TaskStep, Ingestion!Progress, JobIs

LEMMA TaskStepTypes ==
    ASSUME IInv, NEW t \in Tasks, TaskStep(t), Untouched
    PROVE  TypeOK'
<1>1. TaskReach(t) /\ \A h \in held' : h[1] \in Tasks \cup Callers
  BY TaskStepReach, TaskStepLocks DEF Untouched, OnlyLocksOf
<1>2. /\ files \subseteq Files /\ mails \subseteq Ingestion!Row
      /\ unsure \cup classify \subseteq Fingerprints
  BY DEF IInv, TypeOK
<1>3. mails' \subseteq Ingestion!Row
  BY <1>2, TaskInsertsAt, NewRowTypes
<1>4. files' \subseteq Files
  BY <1>1, <1>2 DEF Files, TaskReach
<1>5. unsure' \cup classify' \subseteq Fingerprints
  BY <1>1, <1>2, JobTypes, TaskGuards DEF TaskReach, IInv
<1>6. /\ job' \in [Tasks -> Ingestion!Job] /\ faults' \in 0..MaxFaults
  BY <1>1 DEF TaskReach
<1>7. /\ request' \in [Callers -> Request]
      /\ submissions' \subseteq [key : Keys, content : Contents, files : SUBSET Files,
                                 partner : Partners \cup {NoPartner}]
      /\ partners' \subseteq Partners
      /\ selection' \subseteq Contents
  BY DEF Untouched, IInv, TypeOK
<1> QED BY <1>1, <1>3, <1>4, <1>5, <1>6, <1>7 DEF TypeOK

CallerReach(c) ==
    /\ request' \in [Callers -> Request]
    /\ \A d \in Callers : d # c => request'[d] = request[d]
    /\ files' \subseteq files \cup (Clients \X {1} \X (1..Uploads))
    /\ \/ submissions' = submissions /\ partners' = partners
       \/ /\ submissions' = submissions \cup {SubmissionOf(c)} /\ request[c].pc = "insert"
          /\ partners' = (partners \cup {request[c].partner}) \ {NoPartner}
          /\ Invoices!SubmissionGuards(c) \subseteq LocksOf(c)
    /\ selection' = selection \/ selection' = selection \cup ({request[c].found} \ {"none"})
    /\ faults' \in 0..MaxFaults

LEMMA CallerStepReach ==
    ASSUME IInv, NEW c \in Callers, CallerStep(c)
    PROVE  CallerReach(c)
<1>0. faults \in 0..MaxFaults
  BY DEF IInv, TypeOK
<1>14. request[c].pc = "insert" => Invoices!SubmissionGuards(c) \subseteq LocksOf(c)
  BY DEF IInv, LockInv, CallerLocks
<1>1. CASE Invoices!Arrive(c)
  BY <1>0, <1>1, ArriveEffect DEF RequestIs, CallerReach
<1>2. CASE Invoices!Import(c)
  BY <1>0, <1>2, ImportEffect DEF RequestIs, CallerReach
<1>3. CASE Invoices!Store(c)
  <2> DEFINE k == request[c].stored + 1
  <2>0. k \in 1..Uploads /\ c \in Clients /\ files' = files \cup {<<c, 1, k>>}
    BY <1>3, CallerStoreEffect
  <2> HIDE DEF k
  <2>1. files' \subseteq files \cup (Clients \X {1} \X (1..Uploads))
    BY <2>0
  <2> QED BY <1>0, <1>3, <2>1, CallerStoreEffect DEF RequestIs, CallerReach
<1>4. CASE Invoices!Reject(c)
  BY <1>0, <1>4, RejectEffect DEF RequestIs, CallerReach
<1>5. CASE Invoices!Lock(c)
  BY <1>0, <1>5, CallerLockEffect DEF RequestIs, CallerReach
<1>6. CASE Invoices!Find(c)
  BY <1>0, <1>6, CallerFindEffect DEF RequestIs, CallerReach
<1>7. CASE Invoices!LockPartner(c)
  <2>1. request' = request /\ request \in [Callers -> Request]
    BY <1>7, LockPartnerEffect DEF IInv, TypeOK
  <2> QED BY <1>0, <1>7, <2>1, LockPartnerEffect DEF CallerReach
<1>8. CASE Invoices!FindPartner(c)
  BY <1>0, <1>8, FindPartnerEffect DEF RequestIs, CallerReach
<1>9. CASE Invoices!Insert(c)
  BY <1>0, <1>9, <1>14, CallerInsertEffect DEF RequestIs, CallerReach
<1>10. CASE Invoices!LoseCommit(c)
  BY <1>10, <1>14, CallerLoseCommitEffect DEF RequestIs, CallerReach
<1>11. CASE Invoices!Fail(c)
  BY <1>11, FailEffect DEF RequestIs, CallerReach
<1>12. CASE Invoices!Enqueue(c)
  <2>1. request[c].found # "none"
    <3>1. request[c].outcome \in {"created", "duplicate"} /\ request[c].pc = "enqueue"
      BY <1>12, CallerEnqueueEffect DEF IInv, RowInv, Answered
    <3>2. PICK s \in submissions : s.content = request[c].content
      BY <3>1 DEF IInv, RowInv, Answered
    <3>3. s.content \in Contents /\ request[c].found = request[c].content
      BY <3>1, SubmissionTypes DEF IInv, RowInv, Answered
    <3> QED BY <3>2, <3>3, Numbers
  <2> QED BY <1>0, <1>12, <2>1, CallerEnqueueEffect DEF RequestIs, CallerReach
<1>13. CASE Invoices!Drop(c)
  <2>1. files' \subseteq files
    BY <1>13, CallerDropEffect
  <2> QED BY <1>0, <1>13, <2>1, CallerDropEffect DEF RequestIs, CallerReach
<1> QED BY <1>1, <1>2, <1>3, <1>4, <1>5, <1>6, <1>7, <1>8, <1>9, <1>10, <1>11, <1>12, <1>13
        DEF CallerStep, Invoices!Progress

LEMMA CallerStepTypes ==
    ASSUME IInv, NEW c \in Callers, CallerStep(c), UNCHANGED <<mails, unsure, classify, job>>
    PROVE  TypeOK'
<1>1. CallerReach(c) /\ \A h \in held' : h[1] \in Tasks \cup Callers
  BY CallerStepReach, CallerStepLocks DEF OnlyLocksOf
<1>2. /\ files \subseteq Files /\ partners \subseteq Partners /\ selection \subseteq Contents
      /\ submissions \subseteq [key : Keys, content : Contents, files : SUBSET Files,
                                partner : Partners \cup {NoPartner}]
      /\ NoPartner \notin Partners
  BY DEF IInv, TypeOK, Partners
<1>3. files' \subseteq Files
  BY <1>1, <1>2 DEF Files, CallerReach
<1>4. request[c].pc = "insert" =>
         SubmissionOf(c) \in [key : Keys, content : Contents, files : SUBSET Files,
                              partner : Partners \cup {NoPartner}]
  BY CallerAbout, RequestTypes DEF SubmissionOf, IInv
<1>5. submissions' \subseteq [key : Keys, content : Contents, files : SUBSET Files,
                              partner : Partners \cup {NoPartner}]
  BY <1>1, <1>2, <1>4 DEF CallerReach
<1>6. partners' \subseteq Partners
  BY <1>1, <1>2, RequestTypes DEF CallerReach, IInv
<1>7. selection' \subseteq Contents
  BY <1>1, <1>2, RequestTypes DEF CallerReach, IInv
<1>8. request' \in [Callers -> Request] /\ faults' \in 0..MaxFaults
  BY <1>1 DEF CallerReach
<1>9. /\ job' \in [Tasks -> Ingestion!Job] /\ mails' \subseteq Ingestion!Row
      /\ unsure' \cup classify' \subseteq Fingerprints
  BY DEF IInv, TypeOK
<1> QED BY <1>1, <1>3, <1>5, <1>6, <1>7, <1>8, <1>9 DEF TypeOK

-----------------------------------------------------------------------------
(* Rows: what was looked for, found and answered.                          *)

LEMMA FollowMoveEffect ==
    ASSUME IInv, NEW r \in mails, NEW k \in ServerKeys, Ingestion!FollowMove(r, k)
    PROVE  /\ UNCHANGED <<files, held, faults, unsure, classify, job>>
           /\ \E n \in Ingestion!Row :
                 /\ n.key = r.key /\ n.content = r.content /\ n.files = r.files
                 /\ mails' = (mails \ {r}) \cup {n}
<1> DEFINE n == [r EXCEPT !.place = k]
<1>1. n \in Ingestion!Row /\ n.key = r.key /\ n.content = r.content /\ n.files = r.files
  BY RowTypes DEF IInv, Ingestion!Row
<1>2. /\ UNCHANGED <<files, held, faults, unsure, classify, job>>
      /\ mails' = (mails \ {r}) \cup {n}
  BY DEF Ingestion!FollowMove
<1> HIDE DEF n
<1> QED BY <1>1, <1>2

\* Every row has the key, the content and the files of an earlier one, and back.
LEMMA MovedRows ==
    ASSUME IInv, NEW r \in mails, NEW k \in ServerKeys, Ingestion!FollowMove(r, k)
    PROVE  /\ \A x \in mails' : \E y \in mails :
                 x.key = y.key /\ x.content = y.content /\ x.files = y.files
           /\ \A y \in mails : \E x \in mails' :
                 x.key = y.key /\ x.content = y.content /\ x.files = y.files
           /\ mails' \subseteq Ingestion!Row
<1>1. PICK n \in Ingestion!Row :
         /\ n.key = r.key /\ n.content = r.content /\ n.files = r.files
         /\ mails' = (mails \ {r}) \cup {n}
  BY FollowMoveEffect
<1>2. mails \subseteq Ingestion!Row
  BY DEF IInv, TypeOK
<1> QED BY <1>1, <1>2

\* Whoever is about to insert a mail has its two locks.
LEMMA InsertersDiffer ==
    ASSUME IInv, NEW t \in Tasks, NEW u \in Tasks, t # u,
           job[t].pc = "insert", job[u].pc = "insert"
    PROVE  SourceOf(t).key # SourceOf(u).key /\ SourceOf(t).content # SourceOf(u).content
<1>1. /\ <<"server", SourceOf(t).key>> \in LocksOf(t)
      /\ <<"content", SourceOf(t).content>> \in LocksOf(t)
      /\ <<"server", SourceOf(u).key>> \in LocksOf(u)
      /\ <<"content", SourceOf(u).content>> \in LocksOf(u)
  BY TaskAtRest, TaskGuards
<1> QED BY <1>1, SameHolder, TaskAtRest

LEMMA TaskStepFresh ==
    ASSUME IInv, NEW t \in Tasks, TaskStep(t), NEW u \in Tasks
    PROVE  TaskFresh(u)'
<1>1. TaskFresh(u) /\ TaskReach(t)
  BY TaskStepReach DEF IInv, RowInv
<1>2. CASE u = t
  <2>1. job'[t].pc # "insert" \/ (Ingestion!Find(t) /\ job'[t].pc = "insert")
        \/ job[t].pc = "insert"
    BY FetchEffect, StoreEffect, RefuseEffect, LockEffect, InsertEffect, ClashEffect,
       LoseCommitEffect, LoseTransactionEffect, DropEffect, EnqueueEffect, BreakEffect,
       FailedLabel DEF TaskStep, Ingestion!Progress, JobIs
  <2>2. CASE Ingestion!Find(t) /\ job'[t].pc = "insert"
    <3>1. mails' = mails /\ \A r \in mails : r.key # SourceOf(t).key
                                            /\ r.content # SourceOf(t).content
      BY <2>2, FindEffect DEF JobIs
    <3> QED BY <1>2, <3>1 DEF TaskFresh
  <2>3. CASE job[t].pc = "insert"
    <3>1. job'[t].pc # "insert"
      BY <2>3, FetchEffect, StoreEffect, RefuseEffect, LockEffect, FindEffect, InsertEffect,
         ClashEffect, LoseCommitEffect, LoseTransactionEffect, DropEffect, EnqueueEffect,
         BreakEffect, FailedLabel DEF TaskStep, Ingestion!Progress, JobIs
    <3> QED BY <1>2, <3>1 DEF TaskFresh
  <2> QED BY <1>2, <2>1, <2>2, <2>3 DEF TaskFresh
<1>3. CASE u # t
  <2>1. job'[u] = job[u]
    BY <1>1, <1>3 DEF TaskReach
  <2>2. CASE mails' = mails
    BY <1>1, <2>1, <2>2 DEF TaskFresh
  <2>3. CASE job[t].pc = "insert" /\ mails' = mails \cup {Ingestion!NewRow(t)}
    BY <1>1, <1>3, <2>1, <2>3, InsertersDiffer, NewRowTypes DEF TaskFresh
  <2> QED BY <2>2, <2>3, TaskInsertsAt
<1> QED BY <1>2, <1>3

LEMMA TaskStepFound ==
    ASSUME IInv, NEW t \in Tasks, TaskStep(t), NEW u \in Tasks
    PROVE  Found(u)'
<1>1. Found(u) /\ Found(t) /\ TaskReach(t)
  BY TaskStepReach DEF IInv, RowInv
<1>2. mails \subseteq mails' /\ classify \subseteq classify'
  BY <1>1 DEF TaskReach
<1>3. CASE u # t
  <2>1. job'[u] = job[u]
    BY <1>1, <1>3 DEF TaskReach
  <2> QED BY <1>1, <1>2, <2>1 DEF Found
<1> DEFINE There(f) == \E r \in mails : /\ r.key = SourceOf(t).key \/ r.content = SourceOf(t).content
                                        /\ r.content = f
           ThereNow(f) == \E r \in mails' : /\ r.key = SourceOf(t).key
                                                  \/ r.content = SourceOf(t).content
                                            /\ r.content = f
<1>4. /\ job[t].found # "none" => There(job[t].found)
      /\ \A f : There(f) => ThereNow(f)
      /\ (/\ job'[t].found # "none" => ThereNow(job'[t].found)
          /\ job'[t].pc \in {"enqueue", "SUCCEEDED"} => job'[t].found # "none"
          /\ job'[t].pc = "SUCCEEDED" => job'[t].found \in classify') => Found(t)'
  BY <1>1, <1>2 DEF Found
<1>5. Found(t)'
  <2> HIDE DEF There, ThereNow
  <2>1. CASE Ingestion!Fetch(t)
    BY <1>4, <2>1, FetchEffect DEF JobIs
  <2>2. CASE Ingestion!Store(t)
    BY <1>4, <2>2, StoreEffect DEF JobIs
  <2>3. CASE Ingestion!Refuse(t)
    BY <1>4, <2>3, RefuseEffect DEF JobIs
  <2>4. CASE Ingestion!Lock(t)
    BY <1>4, <2>4, LockEffect DEF JobIs
  <2>5. CASE Ingestion!Find(t)
    <3>1. CASE JobIs(t, "insert", job[t].tries, job[t].stored, job[t].found)
      BY <1>4, <3>1 DEF JobIs
    <3>2. CASE \E r \in mails :
                 /\ r.key = SourceOf(t).key \/ r.content = SourceOf(t).content
                 /\ JobIs(t, "drop", job[t].tries, job[t].stored, r.content)
      BY <1>4, <3>2 DEF JobIs, There
    <3> QED BY <2>5, <3>1, <3>2, FindEffect
  <2>6. CASE Ingestion!Insert(t)
    <3>1. /\ job'[t].pc = "enqueue" /\ job'[t].found = SourceOf(t).content
          /\ mails' = mails \cup {Ingestion!NewRow(t)} /\ job[t].pc = "insert"
      BY <2>6, InsertEffect DEF JobIs
    <3>2. ThereNow(SourceOf(t).content)
      BY <3>1, NewRowTypes DEF ThereNow
    <3>3. SourceOf(t).content # "none"
      BY TaskGuards, Numbers
    <3> QED BY <1>4, <3>1, <3>2, <3>3
  <2>7. CASE Ingestion!Clash(t)
    BY <1>4, <2>7, ClashEffect DEF JobIs
  <2>8. CASE Ingestion!LoseCommit(t)
    BY <1>4, <2>8, LoseCommitEffect DEF JobIs
  <2>9. CASE Ingestion!LoseTransaction(t)
    BY <1>4, <2>9, LoseTransactionEffect DEF JobIs
  <2>10. CASE Ingestion!Drop(t)
    BY <1>4, <2>10, DropEffect, FailedLabel DEF JobIs
  <2>11. CASE Ingestion!Enqueue(t)
    <3>1. job[t].found # "none"
      BY <1>1, <2>11, EnqueueEffect DEF Found
    <3> QED BY <1>4, <2>11, <3>1, EnqueueEffect DEF JobIs
  <2>12. CASE Ingestion!Break(t)
    BY <1>4, <2>12, BreakEffect, FailedLabel DEF JobIs
  <2> QED BY <2>1, <2>2, <2>3, <2>4, <2>5, <2>6, <2>7, <2>8, <2>9, <2>10, <2>11, <2>12
          DEF TaskStep, Ingestion!Progress
<1> QED BY <1>3, <1>5

\* Nothing changes for a caller whose request, locks and tables stay as they are.
LEMMA CallerRowsStay ==
    ASSUME IInv, NEW c \in Callers, LocksOf(c)' = LocksOf(c), request'[c] = request[c],
           UNCHANGED <<submissions, partners, selection>>
    PROVE  CallerFresh(c)' /\ Answered(c)'
<1>1. CallerFresh(c) /\ Answered(c)
  BY DEF IInv, RowInv
<1>2. /\ Invoices!Matches(c)' = Invoices!Matches(c)
      /\ Invoices!Mentioned(c)' = Invoices!Mentioned(c)
      /\ Invoices!PartnerGuards(c)' = Invoices!PartnerGuards(c)
      /\ Invoices!Known(request[c].partner)' = Invoices!Known(request[c].partner)
  BY GuardsStay DEF Invoices!Matches, Invoices!Content, Invoices!Known, Invoices!SamePartner
<1>3. CallerFresh(c)'
  BY <1>1, <1>2 DEF CallerFresh
<1>4. Answered(c)'
  BY <1>1 DEF Answered
<1> QED BY <1>3, <1>4

LEMMA TaskStepRows ==
    ASSUME IInv, NEW t \in Tasks, TaskStep(t), Untouched
    PROVE  RowInv'
<1>1. \A u \in Tasks : TaskFresh(u)' /\ Found(u)'
  BY TaskStepFresh, TaskStepFound
<1>2. \A c \in Callers : CallerFresh(c)' /\ Answered(c)'
  <2> TAKE c \in Callers
  <2>1. c # t
    BY Numbers
  <2>2. \A q : q # t => LocksOf(q)' = LocksOf(q)
    BY TaskStepLocks DEF Untouched, OnlyLocksOf
  <2> QED BY <2>1, <2>2, CallerRowsStay DEF Untouched
<1> QED BY <1>1, <1>2 DEF RowInv

LEMMA TaskRowsStay ==
    ASSUME IInv, UNCHANGED <<mails, classify, job>>, NEW t \in Tasks
    PROVE  TaskFresh(t)' /\ Found(t)'
BY DEF IInv, RowInv, TaskFresh, Found

\* Whoever is past the search for a submission has the locks of its key and of
\* its content: nobody else is at that of the same key or content.
LEMMA SubmittersDiffer ==
    ASSUME IInv, NEW c \in Callers, NEW d \in Callers, c # d,
           request[c].pc = "insert", request[d].pc \in {"partner", "insert"}
    PROVE  request[c].key # request[d].key /\ request[c].content # request[d].content
<1>1. /\ Invoices!SubmissionGuards(c) \subseteq LocksOf(c)
      /\ Invoices!SubmissionGuards(d) \subseteq LocksOf(d)
      /\ Exclusive
  BY DEF IInv, LockInv, CallerLocks
<1>2. /\ <<"submission-key", request[c].key>> \in LocksOf(c)
      /\ <<"submission-content", request[c].content>> \in LocksOf(c)
      /\ <<"submission-key", request[d].key>> \in LocksOf(d)
      /\ <<"submission-content", request[d].content>> \in LocksOf(d)
  BY <1>1, CallerAbout
<1> QED BY <1>1, <1>2, SameHolder

\* The same for partners that somebody is about to add.
LEMMA PartnersDiffer ==
    ASSUME IInv, NEW c \in Callers, NEW d \in Callers, c # d,
           Invoices!PartnerGuards(c) \subseteq LocksOf(c),
           Invoices!PartnerGuards(d) \subseteq LocksOf(d)
    PROVE  ~Invoices!SamePartner(Invoices!Mentioned(d), Invoices!Mentioned(c))
<1>1. Exclusive
  BY DEF IInv, LockInv
<1>2. \A l \in Invoices!PartnerGuards(c) : l \notin Invoices!PartnerGuards(d)
  BY <1>1, SameHolder
<1>3. Invoices!Mentioned(d).name # Invoices!Mentioned(c).name
  BY <1>2, PartnerLocks
<1>4. ~(/\ Invoices!Mentioned(d).document = Invoices!Mentioned(c).document
        /\ Invoices!Mentioned(d).document # NoDocument)
  BY <1>2, PartnerLocks
<1> QED BY <1>3, <1>4 DEF Invoices!SamePartner

LEMMA OtherCallerFresh ==
    ASSUME IInv, NEW c \in Callers, NEW d \in Callers, c # d, CallerReach(c), OnlyLocksOf(c)
    PROVE  CallerFresh(d)'
<1>1. CallerFresh(d) /\ CallerFresh(c) /\ request'[d] = request[d] /\ LocksOf(d)' = LocksOf(d)
  BY DEF IInv, RowInv, CallerReach, OnlyLocksOf
<1>2. CASE submissions' = submissions /\ partners' = partners
  <2>1. /\ Invoices!Matches(d)' = Invoices!Matches(d)
        /\ Invoices!Mentioned(d)' = Invoices!Mentioned(d)
        /\ Invoices!PartnerGuards(d)' = Invoices!PartnerGuards(d)
        /\ Invoices!Known(request[d].partner)' = Invoices!Known(request[d].partner)
    BY <1>1, <1>2, GuardsStay DEF Invoices!Matches, Invoices!Content, Invoices!Known,
       Invoices!SamePartner
  <2> QED BY <1>1, <1>2, <2>1 DEF CallerFresh
<1>3. CASE /\ submissions' = submissions \cup {SubmissionOf(c)} /\ request[c].pc = "insert"
           /\ partners' = (partners \cup {request[c].partner}) \ {NoPartner}
  <2>1. /\ Invoices!Mentioned(d)' = Invoices!Mentioned(d)
        /\ Invoices!PartnerGuards(d)' = Invoices!PartnerGuards(d)
    BY <1>1, GuardsStay
  <2>2. request[d].pc \in {"partner", "insert"} => Invoices!Matches(d)' = {}
    <3> HAVE request[d].pc \in {"partner", "insert"}
    <3>1. Invoices!Matches(d) = {}
      BY <1>1 DEF CallerFresh
    <3>2. /\ SubmissionOf(c).key # request[d].key
          /\ SubmissionOf(c).content # request[d].content
      BY <1>3, SubmittersDiffer DEF SubmissionOf
    <3> QED BY <1>1, <1>3, <3>1, <3>2 DEF Invoices!Matches, Invoices!Content
  <2>3. request[d].pc = "insert" =>
           \/ request[d].partner \in partners' \cup {NoPartner}
           \/ /\ request[d].partner = Invoices!Mentioned(d)
              /\ Invoices!PartnerGuards(d) \subseteq LocksOf(d)
              /\ Invoices!Known(request[d].partner)' = {}
    <3> HAVE request[d].pc = "insert"
    <3> DEFINE p == request[d].partner
               q == request[c].partner
    <3>0. Invoices!Known(p)' = {x \in partners' : Invoices!SamePartner(p, x)}
      BY <1>1 DEF Invoices!Known, Invoices!SamePartner
    <3>1. CASE p \in partners \cup {NoPartner}
      BY <1>3, <3>1
    <3>2. CASE /\ p \notin partners \cup {NoPartner} /\ p = Invoices!Mentioned(d)
               /\ Invoices!PartnerGuards(d) \subseteq LocksOf(d)
               /\ Invoices!Known(p) = {}
      <4>1. CASE q \in partners \cup {NoPartner}
        BY <1>3, <3>0, <3>2, <4>1 DEF Invoices!Known
      <4>2. CASE q \notin partners \cup {NoPartner}
        <5>1. q = Invoices!Mentioned(c) /\ Invoices!PartnerGuards(c) \subseteq LocksOf(c)
          BY <1>1, <1>3, <4>2 DEF CallerFresh
        <5>2. ~Invoices!SamePartner(p, q)
          BY <3>2, <5>1, PartnersDiffer
        <5> QED BY <1>3, <3>0, <3>2, <5>2 DEF Invoices!Known
      <4> QED BY <4>1, <4>2
    <3> QED BY <1>1, <3>1, <3>2 DEF CallerFresh
  <2> QED BY <1>1, <2>1, <2>2, <2>3 DEF CallerFresh
<1> QED BY <1>2, <1>3 DEF CallerReach

LEMMA OtherCallerAnswered ==
    ASSUME IInv, NEW c \in Callers, NEW d \in Callers, c # d, CallerReach(c)
    PROVE  Answered(d)'
<1>1. /\ Answered(d) /\ request'[d] = request[d]
      /\ submissions \subseteq submissions' /\ selection \subseteq selection'
  BY DEF IInv, RowInv, CallerReach
<1> QED BY <1>1 DEF Answered

\* The partner's part of the invariant, when nothing it is about changes.
LEMMA AboutStays ==
    ASSUME NEW c, request'[c].key = request[c].key, request'[c].content = request[c].content,
           submissions' = submissions, partners' = partners
    PROVE  /\ Invoices!Matches(c)' = Invoices!Matches(c)
           /\ Invoices!Mentioned(c)' = Invoices!Mentioned(c)
           /\ Invoices!PartnerGuards(c)' = Invoices!PartnerGuards(c)
BY GuardsStay DEF Invoices!Matches, Invoices!Content

LEMMA OwnCallerFresh ==
    ASSUME IInv, NEW c \in Callers, CallerStep(c)
    PROVE  CallerFresh(c)'
<1>0. CallerFresh(c) /\ TypeOK
  BY DEF IInv, RowInv
<1> DEFINE About == request'[c].key \in Keys /\ request'[c].content \in Contents
           Anonymous == request'[c].partner = NoPartner
<1>1. CASE Invoices!Arrive(c)
  <2>1. request'[c].pc = "store" /\ About /\ Anonymous
    BY <1>1, ArriveEffect DEF RequestIs
  <2> QED BY <2>1 DEF CallerFresh
<1>2. CASE Invoices!Import(c)
  <2>1. request'[c].pc = "lock" /\ About /\ Anonymous
    BY <1>2, <1>0, ImportEffect, RowTypes DEF RequestIs
  <2> QED BY <2>1 DEF CallerFresh
<1>3. CASE Invoices!Store(c)
  <2>1. request'[c].pc \in {"store", "lock"} /\ About /\ Anonymous
    BY <1>0, <1>3, CallerStoreEffect DEF RequestIs, CallerFresh
  <2> QED BY <2>1 DEF CallerFresh
<1>4. CASE Invoices!Reject(c)
  BY <1>4, RejectEffect DEF RequestIs, CallerFresh
<1>5. CASE Invoices!Lock(c)
  <2>1. request'[c].pc \in {"lock", "find"} /\ About /\ Anonymous
    BY <1>0, <1>5, CallerLockEffect DEF RequestIs, CallerFresh
  <2> QED BY <2>1 DEF CallerFresh
<1>6. CASE Invoices!Find(c)
  <2>1. CASE /\ Invoices!Matches(c) = {}
             /\ \E l \in {"partner", "insert"} :
                   /\ l = "partner" <=> Invoices!Mentioned(c) # NoPartner
                   /\ RequestIs(c, l, request[c].key, request[c].content, request[c].files,
                                request[c].stored, request[c].partner, request[c].found,
                                request[c].outcome)
    <3>1. /\ submissions' = submissions /\ partners' = partners /\ request[c].pc = "find"
          /\ request'[c].pc \in {"partner", "insert"}
          /\ request'[c].pc = "partner" <=> Invoices!Mentioned(c) # NoPartner
          /\ request'[c].key = request[c].key /\ request'[c].content = request[c].content
          /\ request'[c].partner = request[c].partner
      BY <1>6, <2>1, CallerFindEffect DEF RequestIs
    <3>2. request[c].partner = NoPartner
      BY <1>0, <3>1 DEF CallerFresh
    <3>3. About
      BY <1>0, <3>1 DEF CallerFresh
    <3>4. Invoices!Matches(c)' = {} /\ Invoices!Mentioned(c)' = Invoices!Mentioned(c)
      BY <2>1, <3>1, AboutStays
    <3> QED BY <3>1, <3>2, <3>3, <3>4 DEF CallerFresh
  <2>2. CASE request'[c].pc \in {"drop", "enqueue"}
    BY <2>2 DEF CallerFresh
  <2> QED BY <1>6, <2>1, <2>2, CallerFindEffect DEF RequestIs
<1>7. CASE Invoices!LockPartner(c)
  <2>1. /\ request' = request /\ submissions' = submissions /\ partners' = partners
        /\ request[c].pc = "partner"
    BY <1>7, LockPartnerEffect
  <2>2. /\ Invoices!Matches(c)' = Invoices!Matches(c)
        /\ Invoices!Mentioned(c)' = Invoices!Mentioned(c)
    BY <2>1, AboutStays
  <2> QED BY <1>0, <2>1, <2>2 DEF CallerFresh
<1>8. CASE Invoices!FindPartner(c)
  <2>1. PICK p \in Partners :
           /\ p \in partners \/ (p = Invoices!Mentioned(c) /\ Invoices!Known(p) = {})
           /\ RequestIs(c, "insert", request[c].key, request[c].content,
                        request[c].files, request[c].stored, p, request[c].found,
                        request[c].outcome)
    BY <1>8, FindPartnerEffect
  <2>2. /\ submissions' = submissions /\ partners' = partners /\ request[c].pc = "partner"
        /\ LocksOf(c)' = LocksOf(c) /\ Invoices!PartnerGuards(c) \subseteq LocksOf(c)
    BY <1>8, FindPartnerEffect, KeptLocks
  <2>3. /\ request'[c].pc = "insert" /\ request'[c].partner = p
        /\ request'[c].key = request[c].key /\ request'[c].content = request[c].content
    BY <2>1 DEF RequestIs
  <2>4. /\ Invoices!Matches(c)' = Invoices!Matches(c)
        /\ Invoices!Mentioned(c)' = Invoices!Mentioned(c)
        /\ Invoices!PartnerGuards(c)' = Invoices!PartnerGuards(c)
    BY <2>2, <2>3, AboutStays
  <2>5. Invoices!Known(request[c].partner)' = Invoices!Known(p)
    BY <2>2, <2>3 DEF Invoices!Known, Invoices!SamePartner
  <2>6. About
    BY <1>0, <2>2, <2>3 DEF CallerFresh
  <2> QED BY <1>0, <2>1, <2>2, <2>3, <2>4, <2>5, <2>6 DEF CallerFresh
<1>9. CASE Invoices!Insert(c)
  BY <1>9, CallerInsertEffect DEF RequestIs, CallerFresh
<1>10. CASE Invoices!LoseCommit(c)
  BY <1>10, CallerLoseCommitEffect DEF RequestIs, CallerFresh
<1>11. CASE Invoices!Fail(c)
  BY <1>11, FailEffect DEF RequestIs, CallerFresh
<1>12. CASE Invoices!Enqueue(c)
  <2>1. request'[c].pc \in {"drop", "created"}
    BY <1>12, CallerEnqueueEffect DEF RequestIs
  <2> QED BY <2>1 DEF CallerFresh
<1>13. CASE Invoices!Drop(c)
  <2>1. request'[c].pc \in {"drop", "rejected", "conflict", "duplicate"}
    BY <1>13, CallerDropEffect DEF RequestIs
  <2> QED BY <2>1 DEF CallerFresh
<1> QED BY <1>1, <1>2, <1>3, <1>4, <1>5, <1>6, <1>7, <1>8, <1>9, <1>10, <1>11, <1>12, <1>13
        DEF CallerStep, Invoices!Progress

\* What Answered says of a caller at l that has found f and will answer o.
AnswerOf(l, content, f, o) ==
    /\ o \in {"created", "duplicate"} =>
          f = content /\ \E s \in submissions' : s.content = content
    /\ l \in {"idle", "store", "lock", "find", "partner", "insert"} => o = "none"
    /\ l = "enqueue" => o \in {"created", "duplicate"}
    /\ l = "drop" => o \in {"rejected", "conflict", "duplicate"}
    /\ l \in {"created", "duplicate"} => o \in {"created", "duplicate"}
    /\ l \in {"created", "duplicate"} \/ (l = "drop" /\ o = "duplicate") => f \in selection'

LEMMA AnsweredIntro ==
    ASSUME NEW c, NEW l, NEW content, NEW f, NEW o, AnswerOf(l, content, f, o),
           request'[c].pc = l, request'[c].content = content, request'[c].found = f,
           request'[c].outcome = o
    PROVE  Answered(c)'
BY DEF Answered, AnswerOf

LEMMA OwnCallerAnswered ==
    ASSUME IInv, NEW c \in Callers, CallerStep(c)
    PROVE  Answered(c)'
<1>0. /\ Answered(c) /\ TypeOK /\ submissions \subseteq submissions'
      /\ selection \subseteq selection'
  BY CallerStepReach DEF IInv, RowInv, CallerReach
<1> DEFINE r == request[c]
<1>14. /\ r.outcome \in {"created", "duplicate"} =>
             r.found = r.content /\ \E s \in submissions' : s.content = r.content
       /\ r.pc \in {"idle", "store", "lock", "find", "partner", "insert"} => r.outcome = "none"
       /\ r.pc = "enqueue" => r.outcome \in {"created", "duplicate"}
       /\ r.pc = "drop" => r.outcome \in {"rejected", "conflict", "duplicate"}
       /\ r.pc \in {"created", "duplicate"} \/ (r.pc = "drop" /\ r.outcome = "duplicate")
             => r.found \in selection'
  BY <1>0 DEF Answered
<1>1. CASE Invoices!Arrive(c)
  <2>1. PICK k \in Keys, h \in Contents :
           RequestIs(c, "store", k, h, {}, 0, NoPartner, "none", "none")
    BY <1>1, ArriveEffect
  <2>2. AnswerOf("store", h, "none", "none")
    BY DEF AnswerOf
  <2> QED BY <2>1, <2>2, AnsweredIntro DEF RequestIs
<1>2. CASE Invoices!Import(c)
  <2>1. PICK m \in mails : \E k \in Keys :
           RequestIs(c, "lock", k, m.content, m.files, 0, NoPartner, "none", "none")
    BY <1>2, ImportEffect
  <2>2. AnswerOf("lock", m.content, "none", "none")
    BY DEF AnswerOf
  <2> QED BY <2>1, <2>2, AnsweredIntro DEF RequestIs
<1>3. CASE Invoices!Store(c)
  <2>1. /\ r.pc = "store" /\ request'[c].pc \in {"store", "lock"}
        /\ request'[c].content = r.content /\ request'[c].found = r.found
        /\ request'[c].outcome = r.outcome
    BY <1>3, CallerStoreEffect DEF RequestIs
  <2>2. AnswerOf(request'[c].pc, r.content, r.found, r.outcome)
    BY <1>14, <2>1 DEF AnswerOf
  <2> QED BY <2>1, <2>2, AnsweredIntro
<1>4. CASE Invoices!Reject(c)
  <2>1. AnswerOf("drop", r.content, r.found, "rejected")
    BY DEF AnswerOf
  <2> QED BY <1>4, <2>1, RejectEffect, AnsweredIntro DEF RequestIs
<1>5. CASE Invoices!Lock(c)
  <2>1. /\ r.pc = "lock" /\ request'[c].pc \in {"lock", "find"}
        /\ request'[c].content = r.content /\ request'[c].found = r.found
        /\ request'[c].outcome = r.outcome
    BY <1>5, CallerLockEffect DEF RequestIs
  <2>2. AnswerOf(request'[c].pc, r.content, r.found, r.outcome)
    BY <1>14, <2>1 DEF AnswerOf
  <2> QED BY <2>1, <2>2, AnsweredIntro
<1>6. CASE Invoices!Find(c)
  <2>0. r.pc = "find" /\ submissions' = submissions
    BY <1>6, CallerFindEffect
  <2>1. CASE \E l \in {"partner", "insert"} :
                   RequestIs(c, l, request[c].key, request[c].content, request[c].files,
                             request[c].stored, request[c].partner, request[c].found,
                             request[c].outcome)
    <3>1. /\ request'[c].pc \in {"partner", "insert"}
          /\ request'[c].content = r.content /\ request'[c].found = r.found
          /\ request'[c].outcome = r.outcome
      BY <2>1 DEF RequestIs
    <3>2. AnswerOf(request'[c].pc, r.content, r.found, r.outcome)
      BY <1>14, <2>0, <3>1 DEF AnswerOf
    <3> QED BY <3>1, <3>2, AnsweredIntro
  <2>2. CASE RequestIs(c, "drop", request[c].key, request[c].content, request[c].files,
                       request[c].stored, request[c].partner, "none", "conflict")
    <3>1. AnswerOf("drop", r.content, "none", "conflict")
      BY DEF AnswerOf
    <3> QED BY <2>2, <3>1, AnsweredIntro DEF RequestIs
  <2>3. CASE \E s \in submissions :
                /\ s.content = request[c].content
                /\ RequestIs(c, "enqueue", request[c].key, request[c].content,
                             request[c].files, request[c].stored, request[c].partner,
                             s.content, "duplicate")
    <3>1. PICK s \in submissions :
                /\ s.content = request[c].content
                /\ RequestIs(c, "enqueue", request[c].key, request[c].content,
                             request[c].files, request[c].stored, request[c].partner,
                             s.content, "duplicate")
      BY <2>3
    <3>2. AnswerOf("enqueue", r.content, s.content, "duplicate")
      BY <2>0, <3>1 DEF AnswerOf
    <3> QED BY <3>1, <3>2, AnsweredIntro DEF RequestIs
  <2> QED BY <1>6, <2>1, <2>2, <2>3, CallerFindEffect
<1>7. CASE Invoices!LockPartner(c)
  BY <1>0, <1>7, LockPartnerEffect DEF Answered
<1>8. CASE Invoices!FindPartner(c)
  <2>1. /\ r.pc = "partner" /\ request'[c].pc = "insert"
        /\ request'[c].content = r.content /\ request'[c].found = r.found
        /\ request'[c].outcome = r.outcome
    BY <1>8, FindPartnerEffect DEF RequestIs
  <2>2. AnswerOf("insert", r.content, r.found, r.outcome)
    BY <1>14, <2>1 DEF AnswerOf
  <2> QED BY <2>1, <2>2, AnsweredIntro
<1>9. CASE Invoices!Insert(c)
  <2>0. SubmissionOf(c) \in submissions' /\ SubmissionOf(c).content = r.content
    BY <1>9, CallerInsertEffect DEF SubmissionOf
  <2>1. AnswerOf("enqueue", r.content, r.content, "created")
    BY <2>0 DEF AnswerOf
  <2> QED BY <1>9, <2>1, CallerInsertEffect, AnsweredIntro DEF RequestIs
<1>10. CASE Invoices!LoseCommit(c)
  <2>1. AnswerOf("error", r.content, r.found, r.outcome)
    BY <1>14 DEF AnswerOf
  <2> QED BY <1>10, <2>1, CallerLoseCommitEffect, AnsweredIntro DEF RequestIs
<1>11. CASE Invoices!Fail(c)
  <2>1. AnswerOf("error", r.content, r.found, r.outcome)
    BY <1>14 DEF AnswerOf
  <2> QED BY <1>11, <2>1, FailEffect, AnsweredIntro DEF RequestIs
<1>12. CASE Invoices!Enqueue(c)
  <2>1. /\ r.pc = "enqueue" /\ request'[c].pc \in {"drop", "created"}
        /\ request'[c].pc = "drop" <=> r.outcome = "duplicate"
        /\ request'[c].content = r.content /\ request'[c].found = r.found
        /\ request'[c].outcome = r.outcome
        /\ r.found \in selection'
    BY <1>12, CallerEnqueueEffect DEF RequestIs
  <2>2. AnswerOf(request'[c].pc, r.content, r.found, r.outcome)
    BY <1>14, <2>1 DEF AnswerOf
  <2> QED BY <2>1, <2>2, AnsweredIntro
<1>13. CASE Invoices!Drop(c)
  <2>1. /\ r.pc = "drop" /\ (request'[c].pc = "drop" \/ request'[c].pc = r.outcome)
        /\ request'[c].content = r.content /\ request'[c].found = r.found
        /\ request'[c].outcome = r.outcome
    BY <1>13, CallerDropEffect DEF RequestIs
  <2>2. AnswerOf(request'[c].pc, r.content, r.found, r.outcome)
    BY <1>14, <2>1 DEF AnswerOf
  <2> QED BY <2>1, <2>2, AnsweredIntro
<1> QED BY <1>1, <1>2, <1>3, <1>4, <1>5, <1>6, <1>7, <1>8, <1>9, <1>10, <1>11, <1>12, <1>13
        DEF CallerStep, Invoices!Progress

LEMMA CallerStepRows ==
    ASSUME IInv, NEW c \in Callers, CallerStep(c), UNCHANGED <<mails, classify, job>>
    PROVE  RowInv'
<1>1. CallerReach(c) /\ OnlyLocksOf(c)
  BY CallerStepReach, CallerStepLocks
<1>2. \A d \in Callers : CallerFresh(d)' /\ Answered(d)'
  BY <1>1, OwnCallerFresh, OwnCallerAnswered, OtherCallerFresh, OtherCallerAnswered
<1> QED BY <1>2, TaskRowsStay DEF RowInv

LEMMA FollowMoveRows ==
    ASSUME IInv, NEW r \in mails, NEW k \in ServerKeys, Ingestion!FollowMove(r, k), Untouched
    PROVE  RowInv' /\ LockInv'
<1>1. UNCHANGED <<files, held, faults, unsure, classify, job>>
  BY FollowMoveEffect
<1>2. \A p : LocksOf(p)' = LocksOf(p)
  BY <1>1, KeptLocks
<1>3. \A c \in Callers : /\ CallerFresh(c)' /\ Answered(c)' /\ CallerLocks(c)'
  BY <1>2, CallerRowsStay, CallerLocksStay DEF Untouched
<1>4. \A t \in Tasks : TaskLocks(t)'
  BY <1>1, <1>2, TaskLocksStay
<1>5. \A t \in Tasks : TaskFresh(t)'
  BY <1>1, MovedRows DEF TaskFresh, IInv, RowInv
<1>6. \A t \in Tasks : Found(t)'
  <2> TAKE t \in Tasks
  <2>1. Found(t)
    BY DEF IInv, RowInv
  <2>2. job[t].found # "none" =>
          \E x \in mails' : /\ x.key = SourceOf(t).key \/ x.content = SourceOf(t).content
                            /\ x.content = job[t].found
    BY <2>1, MovedRows DEF Found
  <2> QED BY <1>1, <2>1, <2>2 DEF Found
<1>7. Exclusive'
  BY <1>1, KeptLocks DEF OnlyLocksOf
<1> QED BY <1>3, <1>4, <1>5, <1>6, <1>7 DEF RowInv, LockInv

-----------------------------------------------------------------------------
(* Files.                                                                  *)

\* An attempt goes on or makes room for a later one; it deletes files only while
\* it drops them.
LEMMA TaskProgress ==
    ASSUME IInv, NEW t \in Tasks, TaskStep(t)
    PROVE  /\ \A u \in Tasks : /\ job[u].tries \in Nat /\ job'[u].tries \in Nat
                               /\ job[u].tries <= job'[u].tries
                               /\ job'[u].tries = job[u].tries /\ job'[u].pc \in Dropping
                                    => job[u].pc \in Dropping
           /\ \A f \in files : \/ f \in files'
                               \/ /\ job[t].pc = "drop" /\ job[t].stored \in 1..Parts
                                  /\ f = <<t, job[t].tries, job[t].stored>>
           /\ unsure \subseteq unsure'
           /\ faults' = 0 => faults = 0 /\ unsure' = unsure
<1>0. TaskReach(t) /\ \A u \in Tasks : job[u].tries \in Nat
  BY TaskStepReach, JobTypes, Numbers DEF IInv
<1>1. /\ job'[t].tries = job[t].tries \/ job'[t].tries = job[t].tries + 1
      /\ job'[t].tries = job[t].tries /\ job'[t].pc \in Dropping => job[t].pc \in Dropping
  BY <1>0, FetchEffect, StoreEffect, RefuseEffect, LockEffect, FindEffect, InsertEffect,
     ClashEffect, LoseCommitEffect, LoseTransactionEffect, DropEffect, EnqueueEffect,
     BreakEffect, FailedLabel DEF TaskStep, Ingestion!Progress, JobIs, Dropping
<1>2. \A f \in files : \/ f \in files'
                       \/ /\ job[t].pc = "drop" /\ job[t].stored \in 1..Parts
                          /\ f = <<t, job[t].tries, job[t].stored>>
  BY FetchEffect, StoreEffect, RefuseEffect, LockEffect, FindEffect, InsertEffect,
     ClashEffect, LoseCommitEffect, LoseTransactionEffect, DropEffect, EnqueueEffect,
     BreakEffect DEF TaskStep, Ingestion!Progress
<1>3. /\ unsure \subseteq unsure' /\ mails \subseteq mails'
      /\ faults' = 0 => unsure' = unsure
  BY TaskInsertsAt
<1>4. faults' = 0 => faults = 0
  BY FetchEffect, StoreEffect, RefuseEffect, LockEffect, FindEffect, InsertEffect,
     ClashEffect, LoseCommitEffect, LoseTransactionEffect, DropEffect, EnqueueEffect,
     BreakEffect DEF TaskStep, Ingestion!Progress
<1> QED
  <2>1. \A u \in Tasks : /\ job[u].tries \in Nat /\ job'[u].tries \in Nat
                         /\ job[u].tries <= job'[u].tries
                         /\ job'[u].tries = job[u].tries /\ job'[u].pc \in Dropping
                              => job[u].pc \in Dropping
    <3> TAKE u \in Tasks
    <3>1. CASE u = t
      BY <1>0, <1>1, <3>1
    <3>2. CASE u # t
      BY <1>0, <3>2 DEF TaskReach
    <3> QED BY <3>1, <3>2
  <2> QED BY <1>2, <1>3, <1>4, <2>1

LEMMA ReferencedGrows ==
    ASSUME IInv, NEW t \in Tasks, TaskStep(t), Untouched
    PROVE  Referenced \subseteq Referenced'
<1>1. mails \subseteq mails' /\ submissions' = submissions
  BY TaskInsertsAt DEF Untouched
<1> QED BY <1>1 DEF Referenced

LEMMA DisownedStays ==
    ASSUME IInv, NEW t \in Tasks, TaskStep(t), NEW fs, NEW content, Disowned(fs, content)
    PROVE  Disowned(fs, content)'
<1> SUFFICES ASSUME NEW u \in Tasks, NEW n \in 1..MaxAttempts, NEW i \in 1..Parts,
                    <<u, n, i>> \in fs
             PROVE  /\ n <= job'[u].tries
                    /\ n = job'[u].tries /\ job'[u].pc \in Dropping => content \in unsure'
  BY DEF Disowned, Dropping
<1>1. /\ n <= job[u].tries
      /\ n = job[u].tries /\ job[u].pc \in Dropping => content \in unsure
  BY DEF Disowned
<1>2. /\ job[u].tries \in Nat /\ job'[u].tries \in Nat /\ job[u].tries <= job'[u].tries
      /\ job'[u].tries = job[u].tries /\ job'[u].pc \in Dropping => job[u].pc \in Dropping
      /\ unsure \subseteq unsure'
  BY TaskProgress
<1> QED BY <1>1, <1>2, Numbers

\* Files that a row has stay, or the row's commit was not acknowledged.
LEMMA DisownedKept ==
    ASSUME IInv, NEW t \in Tasks, TaskStep(t), NEW fs, NEW content, Disowned(fs, content),
           fs \subseteq files \/ content \in unsure
    PROVE  fs \subseteq files' \/ content \in unsure'
<1>1. CASE content \in unsure
  BY <1>1, TaskProgress
<1>2. CASE fs \subseteq files /\ content \notin unsure
  <2>1. ASSUME NEW f \in fs PROVE f \in files'
    <3>1. SUFFICES ASSUME job[t].pc = "drop", job[t].stored \in 1..Parts,
                          f = <<t, job[t].tries, job[t].stored>>
                   PROVE  FALSE
      BY <1>2, <2>1, TaskProgress
    <3>2. job[t].tries \in 1..MaxAttempts
      BY <3>1, AttemptNumber
    <3>3. <<t, job[t].tries, job[t].stored>> \in fs
      BY <2>1, <3>1
    <3>4. job[t].pc \in Dropping => content \in unsure
      BY <3>1, <3>2, <3>3 DEF Disowned
    <3> QED BY <1>2, <3>1, <3>4 DEF Dropping
  <2> QED BY <2>1
<1> QED BY <1>1, <1>2

\* The new row is disowned and has its files.
LEMMA NewRowFiles ==
    ASSUME IInv, NEW t \in Tasks, TaskStep(t), job[t].pc = "insert",
           mails' = mails \cup {Ingestion!NewRow(t)}, mails' # mails,
           NEW fs, fs = Ingestion!NewRow(t).files
    PROVE  Disowned(fs, SourceOf(t).content)' /\ fs \subseteq files'
<1>1. /\ fs = {<<t, job[t].tries, i>> : i \in 1..job[t].stored}
      /\ fs \subseteq files /\ job[t].tries \in 1..MaxAttempts
  BY NewRowTypes, AttemptNumber DEF IInv, FileInv, Attempt
<1>2. fs \subseteq files'
  BY <1>1, TaskProgress
<1>3. /\ job[t].tries <= job'[t].tries /\ job'[t].tries \in Nat /\ job[t].tries \in Nat
      /\ job'[t].pc \in Dropping => SourceOf(t).content \in unsure'
  BY TaskInsertsAt, TaskProgress DEF Dropping
<1>4. ASSUME NEW u \in Tasks, NEW n \in 1..MaxAttempts, NEW i \in 1..Parts,
             <<u, n, i>> \in fs
      PROVE  /\ n <= job'[u].tries
             /\ n = job'[u].tries /\ job'[u].pc \in Dropping => SourceOf(t).content \in unsure'
  <2>1. u = t /\ n = job[t].tries
    BY <1>1, <1>4
  <2> QED BY <1>3, <2>1
<1>5. Disowned(fs, SourceOf(t).content)'
  BY <1>4 DEF Disowned, Dropping
<1> QED BY <1>2, <1>5

LEMMA RowsAreDisowned ==
    ASSUME IInv, NEW r \in mails \cup submissions
    PROVE  /\ Disowned(r.files, r.content)
           /\ r.files \subseteq files \/ r.content \in unsure
BY DEF IInv, FileInv, LossNeedsAnUnsureCommit

LEMMA TaskStepRowFiles ==
    ASSUME IInv, NEW t \in Tasks, TaskStep(t), Untouched
    PROVE  /\ \A r \in (mails \cup submissions)' : Disowned(r.files, r.content)'
           /\ LossNeedsAnUnsureCommit'
<1> SUFFICES ASSUME NEW r \in (mails \cup submissions)', NEW fs, NEW content,
                    fs = r.files, content = r.content
             PROVE  /\ Disowned(fs, content)'
                    /\ fs \subseteq files' \/ content \in unsure'
  BY DEF LossNeedsAnUnsureCommit
<1>1. CASE r \in mails \cup submissions
  BY <1>1, RowsAreDisowned, DisownedStays, DisownedKept
<1>2. CASE r \notin mails \cup submissions
  <2>1. r \in mails' /\ r \notin mails
    BY <1>2 DEF Untouched
  <2>2. /\ job[t].pc = "insert" /\ mails' = mails \cup {Ingestion!NewRow(t)} /\ mails' # mails
        /\ r = Ingestion!NewRow(t)
    BY <2>1, TaskInsertsAt
  <2>3. content = SourceOf(t).content
    BY <2>2, NewRowTypes
  <2> QED BY <2>2, <2>3, NewRowFiles
<1> QED BY <1>1, <1>2

\* A file of another process is not touched.
LEMMA OthersFiles ==
    ASSUME IInv, NEW t \in Tasks, TaskStep(t), NEW f \in files, f[1] # t
    PROVE  f \in files'
BY TaskProgress

LEMMA StoredByAs ==
    ASSUME NEW t
    PROVE  /\ Ingestion!StoredBy(t) = {<<t, job[t].tries, i>> : i \in 1..job[t].stored}
           /\ Ingestion!StoredBy(t)' = {<<t, job'[t].tries, i>> : i \in 1..job'[t].stored}
BY DEF Ingestion!StoredBy, Ingestion!FileOf

LEMMA OtherTaskAttempt ==
    ASSUME IInv, NEW t \in Tasks, TaskStep(t), Untouched, NEW u \in Tasks, u # t
    PROVE  Attempt(u)'
<1>1. Attempt(u) /\ job'[u] = job[u]
  BY TaskStepReach DEF IInv, FileInv, TaskReach
<1>2. Ingestion!StoredBy(u)' = Ingestion!StoredBy(u)
  BY <1>1 DEF Ingestion!StoredBy, Ingestion!FileOf
<1>3. Ingestion!StoredBy(u) \subseteq files => Ingestion!StoredBy(u) \subseteq files'
  BY StoredByAs, OthersFiles
<1>4. Referenced \subseteq Referenced' /\ (faults' = 0 => faults = 0)
  BY ReferencedGrows, TaskProgress
<1> QED BY <1>1, <1>2, <1>3, <1>4 DEF Attempt

LEMMA OwnTaskAttempt ==
    ASSUME IInv, NEW t \in Tasks, TaskStep(t), Untouched
    PROVE  Attempt(t)'
<1>0. /\ Attempt(t) /\ job[t].stored \in 0..Parts /\ job[t].tries \in 0..MaxAttempts
      /\ Ingestion!StoredBy(t) = {<<t, job[t].tries, i>> : i \in 1..job[t].stored}
  BY JobTypes, StoredByAs DEF IInv, FileInv
<1> DEFINE S  == Ingestion!StoredBy(t)
           S1 == Ingestion!StoredBy(t)'
           l  == job'[t].pc
           n  == job'[t].tries
           k  == job'[t].stored
<1>14. S1 = {<<t, n, i>> : i \in 1..k}
  BY StoredByAs
<1>15. k = 0 => S1 = {}
  BY <1>14
<1>16. n = job[t].tries /\ k = job[t].stored => S1 = S
  BY <1>0, <1>14
<1>17. SUFFICES /\ l # "queued" => n > 0
                /\ l = "queued" => n < MaxAttempts
                /\ l = "store" => k < Parts
                /\ l \in {"store", "lock", "find", "insert"} => S1 \subseteq files'
                /\ l = "enqueue" => S1 \subseteq Referenced'
                /\ faults' = 0 /\ l \in {"queued", "FAILED"} => k = 0
  BY DEF Attempt
<1>18. job[t].pc # "queued" => job[t].tries > 0
  BY <1>0 DEF Attempt
<1>19. job[t].pc \in {"store", "lock", "find", "insert"} => S \subseteq files
  BY <1>0 DEF Attempt
<1> HIDE DEF S, S1
<1>1. CASE Ingestion!Fetch(t)
  <2>1. n = job[t].tries + 1 /\ k = 0 /\ l \in {"store", "queued", "FAILED"}
        /\ (l = "queued" => job[t].tries + 1 < MaxAttempts)
    BY <1>1, FetchEffect DEF JobIs
  <2> QED BY <1>0, <1>15, <2>1, Numbers
<1>2. CASE Ingestion!Store(t)
  <2>1. /\ l \in {"store", "lock"} /\ n = job[t].tries /\ k = job[t].stored + 1
        /\ l = "store" => job[t].stored + 1 < Parts
        /\ job[t].pc = "store"
        /\ files' = files \cup {<<t, job[t].tries, job[t].stored + 1>>}
    BY <1>2, StoreEffect DEF JobIs
  <2>2. \A i \in 1..k : i \in 1..job[t].stored \/ i = job[t].stored + 1
    BY <1>0, <2>1, Numbers
  <2>3. S1 \subseteq files'
    BY <1>0, <1>14, <1>19, <2>1, <2>2 DEF S
  <2> QED BY <1>18, <2>1, <2>3
<1>3. CASE Ingestion!Refuse(t)
  BY <1>3, <1>18, RefuseEffect DEF JobIs
<1>4. CASE Ingestion!Lock(t)
  <2>1. /\ l \in {"lock", "find"} /\ n = job[t].tries /\ k = job[t].stored
        /\ files' = files /\ job[t].pc = "lock"
    BY <1>4, LockEffect DEF JobIs
  <2> QED BY <1>16, <1>18, <1>19, <2>1
<1>5. CASE Ingestion!Find(t)
  <2>1. /\ l \in {"insert", "drop"} /\ n = job[t].tries /\ k = job[t].stored
        /\ files' = files /\ job[t].pc = "find"
    BY <1>5, FindEffect DEF JobIs
  <2> QED BY <1>16, <1>18, <1>19, <2>1
<1>6. CASE Ingestion!Insert(t)
  <2>1. /\ l = "enqueue" /\ n = job[t].tries /\ k = job[t].stored
        /\ job[t].pc = "insert" /\ mails' = mails \cup {Ingestion!NewRow(t)}
    BY <1>6, InsertEffect DEF JobIs
  <2>2. Ingestion!NewRow(t) \in mails' /\ Ingestion!NewRow(t).files = S
    BY <2>1, NewRowTypes DEF S
  <2>3. S \subseteq Referenced'
    BY <2>2 DEF Referenced
  <2> QED BY <1>16, <1>18, <2>1, <2>3
<1>7. CASE Ingestion!Clash(t)
  BY <1>7, <1>18, ClashEffect DEF JobIs
<1>8. CASE Ingestion!LoseCommit(t)
  BY <1>8, <1>18, LoseCommitEffect DEF JobIs
<1>9. CASE Ingestion!LoseTransaction(t)
  BY <1>9, <1>18, LoseTransactionEffect DEF JobIs
<1>10. CASE Ingestion!Drop(t)
  <2>1. /\ job[t].pc = "drop" /\ n = job[t].tries
        /\ l = "drop" \/ (l \in {"enqueue", "queued", "FAILED"} /\ k = 0)
        /\ l = "queued" => job[t].tries < MaxAttempts
    BY <1>10, DropEffect, FailedLabel DEF JobIs
  <2> QED BY <1>15, <1>18, <2>1
<1>11. CASE Ingestion!Enqueue(t)
  BY <1>11, <1>18, EnqueueEffect DEF JobIs
<1>12. CASE Ingestion!Break(t)
  <2>1. /\ job[t].pc # "queued" /\ n = job[t].tries /\ faults' # 0
        /\ l = "FAILED" \/ (l = "queued" /\ job[t].tries < MaxAttempts)
    BY <1>12, BreakEffect, FailedLabel DEF JobIs
  <2> QED BY <1>18, <2>1
<1> QED BY <1>1, <1>2, <1>3, <1>4, <1>5, <1>6, <1>7, <1>8, <1>9, <1>10, <1>11, <1>12
        DEF TaskStep, Ingestion!Progress

\* What a manual request has stored is not a mail's.
LEMMA UploadsAside ==
    ASSUME NEW c \in Callers
    PROVE  /\ \A f \in {c} \X {1} \X (1..Uploads) : f[1] = c /\ f[1] \notin Tasks
           /\ \A f \in Ingestion!File : f[1] \in Tasks /\ f[1] \notin Callers
           /\ \A i : Invoices!Upload(c, i) = <<c, 1, i>>
BY Numbers DEF Ingestion!File, Invoices!Upload

LEMMA TaskStepCallerFiles ==
    ASSUME IInv, NEW t \in Tasks, TaskStep(t), Untouched
    PROVE  /\ \A c \in Imports : Importing(c)'
           /\ \A c \in Clients : Uploading(c)'
<1>1. ASSUME NEW c \in Imports PROVE Importing(c)'
  <2> DEFINE fs == request[c].files
             content == request[c].content
  <2>1. /\ fs \subseteq Ingestion!File /\ request[c].stored = 0 /\ request[c].pc # "store"
        /\ Disowned(fs, content)
        /\ fs \subseteq files \/ content \in unsure
        /\ request' = request
    BY DEF IInv, FileInv, Importing, Untouched
  <2>2. PICK gs, k : gs = fs /\ k = content
    OBVIOUS
  <2>3. Disowned(gs, k)' /\ (gs \subseteq files' \/ k \in unsure')
    BY <2>1, <2>2, DisownedStays, DisownedKept
  <2>4. gs = request'[c].files /\ k = request'[c].content
    BY <2>1, <2>2
  <2> QED BY <2>1, <2>3, <2>4 DEF Importing, Disowned
<1>2. ASSUME NEW c \in Clients PROVE Uploading(c)'
  <2>1. /\ Uploading(c) /\ request' = request /\ submissions' = submissions /\ c \in Callers
    BY Numbers DEF IInv, FileInv, Untouched
  <2>2. request[c].files \subseteq files => request[c].files \subseteq files'
    <3>1. \A f \in request[c].files : f[1] # t
      BY <2>1, UploadsAside DEF Uploading
    <3> QED BY <3>1, OthersFiles
  <2>3. /\ UploadsOf(c)' = UploadsOf(c) /\ (Handed(c)' <=> Handed(c))
    BY <2>1 DEF UploadsOf, Handed, Invoices!Upload
  <2>4. Referenced \subseteq Referenced'
    BY ReferencedGrows
  <2>5. \A i : Invoices!Upload(c, i)' = Invoices!Upload(c, i)
    BY DEF Invoices!Upload
  <2> QED BY <2>1, <2>2, <2>3, <2>4, <2>5 DEF Uploading
<1> QED BY <1>1, <1>2

\* The files an attempt has in hand, and those of a manual request.
TaskInWork(f)   == \E t \in Tasks : /\ job[t].pc \notin {"SUCCEEDED", "FAILED"}
                                    /\ f \in Ingestion!StoredBy(t)
CallerInWork(f) == \E c \in Clients : /\ request[c].pc \notin Invoices!Endings
                                      /\ f \in UploadsOf(c)

LEMMA InWorkParts ==
    /\ \A f : f \in InWork <=> TaskInWork(f) \/ CallerInWork(f)
    /\ \A f : f \in InWork' <=> TaskInWork(f)' \/ CallerInWork(f)'
<1>1. ASSUME NEW f PROVE f \in InWork <=> TaskInWork(f) \/ CallerInWork(f)
  <2> DEFINE U == {u \in Tasks : job[u].pc \notin {"SUCCEEDED", "FAILED"}}
             D == {d \in Clients : request[d].pc \notin Invoices!Endings}
             A == UNION {Ingestion!StoredBy(t) : t \in U}
             B == UNION {UploadsOf(c) : c \in D}
  <2>1. InWork = A \cup B
    BY DEF InWork
  <2>2. TaskInWork(f) <=> \E t \in U : f \in Ingestion!StoredBy(t)
    BY DEF TaskInWork
  <2>3. CallerInWork(f) <=> \E c \in D : f \in UploadsOf(c)
    BY DEF CallerInWork
  <2> HIDE DEF U, D
  <2>4. /\ f \in A <=> \E t \in U : f \in Ingestion!StoredBy(t)
        /\ f \in B <=> \E c \in D : f \in UploadsOf(c)
    OBVIOUS
  <2> HIDE DEF A, B
  <2> QED BY <2>1, <2>2, <2>3, <2>4
<1>2. ASSUME NEW f PROVE f \in InWork' <=> TaskInWork(f)' \/ CallerInWork(f)'
  <2> DEFINE U == {u \in Tasks : job'[u].pc \notin {"SUCCEEDED", "FAILED"}}
             D == {d \in Clients : request'[d].pc \notin Invoices!Endings}
             A == UNION {Ingestion!StoredBy(t)' : t \in U}
             B == UNION {UploadsOf(c)' : c \in D}
  <2>1. InWork' = A \cup B
    BY DEF InWork
  <2>2. TaskInWork(f)' <=> \E t \in U : f \in Ingestion!StoredBy(t)'
    BY DEF TaskInWork
  <2>3. CallerInWork(f)' <=> \E c \in D : f \in UploadsOf(c)'
    BY DEF CallerInWork
  <2> HIDE DEF U, D
  <2>4. /\ f \in A <=> \E t \in U : f \in Ingestion!StoredBy(t)'
        /\ f \in B <=> \E c \in D : f \in UploadsOf(c)'
    OBVIOUS
  <2> HIDE DEF A, B
  <2> QED BY <2>1, <2>2, <2>3, <2>4
<1> QED BY <1>1, <1>2

\* A file of the attempt is still in its hands, a row's or gone.
LEMMA OwnTaskFiles ==
    ASSUME IInv, NEW t \in Tasks, TaskStep(t), Untouched, faults' = 0,
           NEW f \in files', f \notin files \/ (/\ job[t].pc \notin {"SUCCEEDED", "FAILED"}
                                                /\ f \in Ingestion!StoredBy(t))
    PROVE  \/ f \in Referenced'
           \/ job'[t].pc \notin {"SUCCEEDED", "FAILED"} /\ f \in Ingestion!StoredBy(t)'
<1>0. /\ Attempt(t) /\ job[t].stored \in 0..Parts /\ faults = 0 /\ Referenced \subseteq Referenced'
  BY JobTypes, TaskProgress, ReferencedGrows DEF IInv, FileInv
<1> DEFINE S  == Ingestion!StoredBy(t)
           S1 == Ingestion!StoredBy(t)'
<1>14. /\ S = {<<t, job[t].tries, i>> : i \in 1..job[t].stored}
       /\ S1 = {<<t, job'[t].tries, i>> : i \in 1..job'[t].stored}
  BY StoredByAs
<1>15. job[t].stored = 0 => S = {}
  BY <1>14
<1>16. job'[t].tries = job[t].tries /\ job'[t].stored = job[t].stored => S1 = S
  BY <1>14
<1>17. f \notin files \/ (job[t].pc \notin {"SUCCEEDED", "FAILED"} /\ f \in S)
  OBVIOUS
<1>18. SUFFICES \/ f \in Referenced'
                \/ job'[t].pc \notin {"SUCCEEDED", "FAILED"} /\ f \in S1
  OBVIOUS
<1> HIDE DEF S, S1
<1>1. CASE Ingestion!Fetch(t)
  BY <1>0, <1>1, <1>15, <1>17, FetchEffect DEF Attempt
<1>2. CASE Ingestion!Store(t)
  <2>1. /\ job'[t].pc \in {"store", "lock"} /\ job'[t].tries = job[t].tries
        /\ job'[t].stored = job[t].stored + 1
        /\ f \in files \/ f = <<t, job[t].tries, job[t].stored + 1>>
    BY <1>2, StoreEffect DEF JobIs
  <2>2. /\ \A i \in 1..job[t].stored : i \in 1..job'[t].stored
        /\ job[t].stored + 1 \in 1..job'[t].stored
    BY <1>0, <2>1, Numbers
  <2>3. f \in S \/ f = <<t, job[t].tries, job[t].stored + 1>>
    BY <1>17, <2>1
  <2>4. f \in S1
    BY <1>14, <2>1, <2>2, <2>3
  <2> QED BY <2>1, <2>4
<1>3. CASE Ingestion!Refuse(t)
  BY <1>3, <1>16, <1>17, RefuseEffect DEF JobIs
<1>4. CASE Ingestion!Lock(t)
  <2>1. /\ job'[t].pc \in {"lock", "find"} /\ job'[t].tries = job[t].tries
        /\ job'[t].stored = job[t].stored /\ files' = files
    BY <1>4, LockEffect DEF JobIs
  <2> QED BY <1>16, <1>17, <2>1
<1>5. CASE Ingestion!Find(t)
  <2>1. /\ job'[t].pc \in {"insert", "drop"} /\ job'[t].tries = job[t].tries
        /\ job'[t].stored = job[t].stored /\ files' = files
    BY <1>5, FindEffect DEF JobIs
  <2> QED BY <1>16, <1>17, <2>1
<1>6. CASE Ingestion!Insert(t)
  BY <1>6, <1>16, <1>17, InsertEffect DEF JobIs
<1>7. CASE Ingestion!Clash(t)
  BY <1>7, <1>16, <1>17, ClashEffect DEF JobIs
<1>8. CASE Ingestion!LoseCommit(t)
  BY <1>8, LoseCommitEffect
<1>9. CASE Ingestion!LoseTransaction(t)
  BY <1>9, LoseTransactionEffect
<1>10. CASE Ingestion!Drop(t)
  <2>1. CASE /\ job[t].stored \in 1..Parts
             /\ files' = files \ {<<t, job[t].tries, job[t].stored>>}
             /\ JobIs(t, "drop", job[t].tries, job[t].stored - 1, job[t].found)
    <3>1. /\ job'[t].pc = "drop" /\ job'[t].tries = job[t].tries
          /\ job'[t].stored = job[t].stored - 1
      BY <2>1 DEF JobIs
    <3>2. \A i \in 1..job[t].stored : i \in 1..job'[t].stored \/ i = job[t].stored
      BY <1>0, <2>1, <3>1, Numbers
    <3>3. f \in S /\ f # <<t, job[t].tries, job[t].stored>>
      BY <1>17, <2>1
    <3>4. f \in S1
      BY <1>14, <3>1, <3>2, <3>3
    <3> QED BY <3>1, <3>4
  <2>2. CASE job[t].stored = 0 /\ files' = files
    BY <1>15, <1>17, <2>2
  <2> QED BY <1>10, <2>1, <2>2, DropEffect
<1>11. CASE Ingestion!Enqueue(t)
  <2>1. S \subseteq Referenced /\ files' = files
    BY <1>0, <1>11, EnqueueEffect DEF Attempt, S
  <2> QED BY <1>0, <1>17, <2>1
<1>12. CASE Ingestion!Break(t)
  BY <1>12, BreakEffect
<1> QED BY <1>1, <1>2, <1>3, <1>4, <1>5, <1>6, <1>7, <1>8, <1>9, <1>10, <1>11, <1>12
        DEF TaskStep, Ingestion!Progress

\* With every commit acknowledged all files of all rows are there.
LEMMA RowsHaveFiles ==
    ASSUME LossNeedsAnUnsureCommit', faults' = 0 => unsure' = {}, faults' = 0
    PROVE  Referenced' \subseteq files'
BY DEF LossNeedsAnUnsureCommit, Referenced

LEMMA TaskStepStrays ==
    ASSUME IInv, NEW t \in Tasks, TaskStep(t), Untouched, LossNeedsAnUnsureCommit'
    PROVE  (faults' = 0 => unsure' = {}) /\ NothingStrays'
<1>1. faults' = 0 => faults = 0 /\ unsure' = {}
  BY TaskProgress DEF IInv, FileInv
<1>2. ASSUME faults' = 0, NEW f \in files' PROVE f \in Referenced' \/ f \in InWork'
  <2>1. f \notin files \/ f \in Referenced \/ TaskInWork(f) \/ CallerInWork(f)
    BY <1>1, <1>2, InWorkParts DEF IInv, NothingStrays
  <2>2. CASE f \notin files \/ (/\ job[t].pc \notin {"SUCCEEDED", "FAILED"}
                                /\ f \in Ingestion!StoredBy(t))
    BY <1>2, <2>2, OwnTaskFiles, InWorkParts DEF TaskInWork
  <2>3. CASE f \in Referenced
    BY <2>3, ReferencedGrows
  <2>4. ASSUME NEW u \in Tasks, u # t, job[u].pc \notin {"SUCCEEDED", "FAILED"},
               f \in Ingestion!StoredBy(u)
        PROVE  f \in InWork'
    <3>1. job'[u] = job[u]
      BY <2>4, TaskStepReach DEF TaskReach
    <3>2. f \in Ingestion!StoredBy(u)'
      BY <2>4, <3>1 DEF Ingestion!StoredBy, Ingestion!FileOf
    <3> QED BY <2>4, <3>1, <3>2, InWorkParts DEF TaskInWork
  <2>5. CASE CallerInWork(f)
    <3>1. CallerInWork(f)'
      BY <2>5 DEF CallerInWork, UploadsOf, Invoices!Upload, Untouched
    <3> QED BY <3>1, InWorkParts
  <2> QED BY <2>1, <2>2, <2>3, <2>4, <2>5 DEF TaskInWork
<1>3. faults' = 0 => Referenced' \subseteq files'
  BY <1>1, RowsHaveFiles
<1> QED BY <1>1, <1>2, <1>3 DEF NothingStrays

LEMMA TaskStepInv ==
    ASSUME IInv, NEW t \in Tasks, TaskStep(t), Untouched
    PROVE  IInv'
<1>1. TypeOK' /\ LockInv' /\ RowInv'
  BY TaskStepTypes, TaskStepLocks, TaskStepRows DEF Untouched
<1>2. /\ \A r \in (mails \cup submissions)' : Disowned(r.files, r.content)'
      /\ LossNeedsAnUnsureCommit'
  BY TaskStepRowFiles
<1>3. (faults' = 0 => unsure' = {}) /\ NothingStrays'
  BY <1>2, TaskStepStrays
<1>4. \A u \in Tasks : Attempt(u)'
  BY OwnTaskAttempt, OtherTaskAttempt
<1>5. FileInv'
  BY <1>2, <1>3, <1>4, TaskStepCallerFiles DEF FileInv
<1> QED BY <1>1, <1>2, <1>3, <1>5 DEF IInv

\* A manual request deletes its own uploads only, while it drops them.
LEMMA CallerProgress ==
    ASSUME IInv, NEW c \in Callers, CallerStep(c)
    PROVE  /\ \A f \in files : \/ f \in files'
                               \/ /\ request[c].pc = "drop" /\ c \in Clients
                                  /\ request[c].stored \in 1..Uploads
                                  /\ f = <<c, 1, request[c].stored>>
           /\ faults' = 0 => faults = 0
<1>1. \A f \in files : \/ f \in files'
                       \/ /\ request[c].pc = "drop" /\ c \in Clients
                          /\ request[c].stored \in 1..Uploads
                          /\ f = <<c, 1, request[c].stored>>
  BY ArriveEffect, ImportEffect, CallerStoreEffect, RejectEffect, CallerLockEffect,
     CallerFindEffect, LockPartnerEffect, FindPartnerEffect, CallerInsertEffect,
     CallerLoseCommitEffect, FailEffect, CallerEnqueueEffect, CallerDropEffect
     DEF CallerStep, Invoices!Progress
<1>2. faults' = 0 => faults = 0
  BY ArriveEffect, ImportEffect, CallerStoreEffect, RejectEffect, CallerLockEffect,
     CallerFindEffect, LockPartnerEffect, FindPartnerEffect, CallerInsertEffect,
     CallerLoseCommitEffect, FailEffect, CallerEnqueueEffect, CallerDropEffect
     DEF CallerStep, Invoices!Progress
<1> QED BY <1>1, <1>2

MailsUntouched == UNCHANGED <<mails, unsure, classify, job>>

LEMMA CallerReferencedGrows ==
    ASSUME IInv, NEW c \in Callers, CallerStep(c), MailsUntouched
    PROVE  Referenced \subseteq Referenced'
<1>1. submissions \subseteq submissions' /\ mails' = mails
  BY CallerStepReach DEF CallerReach, MailsUntouched
<1> QED BY <1>1 DEF Referenced

LEMMA DisownedAlone ==
    ASSUME UNCHANGED <<unsure, job>>, NEW fs, NEW content
    PROVE  Disowned(fs, content)' <=> Disowned(fs, content)
BY DEF Disowned, Dropping

\* Files that are not the caller's uploads stay.
LEMMA OthersFilesStay ==
    ASSUME IInv, NEW c \in Callers, CallerStep(c), NEW f \in files,
           f[1] # c \/ c \in Imports
    PROVE  f \in files'
BY CallerProgress, Numbers

LEMMA CallerStepTasks ==
    ASSUME IInv, NEW c \in Callers, CallerStep(c), MailsUntouched, NEW t \in Tasks
    PROVE  Attempt(t)'
<1>1. Attempt(t) /\ job' = job
  BY DEF IInv, FileInv, MailsUntouched
<1>2. Ingestion!StoredBy(t)' = Ingestion!StoredBy(t)
  BY <1>1 DEF Ingestion!StoredBy, Ingestion!FileOf
<1>3. Ingestion!StoredBy(t) \subseteq files => Ingestion!StoredBy(t) \subseteq files'
  BY StoredByAs, OthersFilesStay, Numbers
<1>4. Referenced \subseteq Referenced' /\ (faults' = 0 => faults = 0)
  BY CallerReferencedGrows, CallerProgress
<1> QED BY <1>1, <1>2, <1>3, <1>4 DEF Attempt

\* The uploads of a request that may still drop them belong to no submission.
LEMMA OwnUploads ==
    ASSUME IInv, NEW c \in Clients, NEW i \in 1..Uploads, NEW r \in mails \cup submissions,
           <<c, 1, i>> \in r.files
    PROVE  request[c].pc \in {"created", "error"} \/ Handed(c)
<1>0. c \in Callers
  BY Numbers
<1>1. CASE r \in mails
  <2>1. r.files \subseteq Ingestion!File
    BY <1>1, RowTypes DEF IInv
  <2> QED BY <1>0, <2>1, UploadsAside
<1>2. CASE r \in submissions
  <2>1. Uploading(c) /\ Invoices!Upload(c, i) = <<c, 1, i>>
    BY <1>0, UploadsAside DEF IInv, FileInv
  <2> QED BY <1>2, <2>1 DEF Uploading
<1> QED BY <1>1, <1>2

LEMMA CallerStepRowFiles ==
    ASSUME IInv, NEW c \in Callers, CallerStep(c), MailsUntouched
    PROVE  /\ \A r \in (mails \cup submissions)' : Disowned(r.files, r.content)'
           /\ LossNeedsAnUnsureCommit'
<1> SUFFICES ASSUME NEW r \in (mails \cup submissions)', NEW fs, NEW content,
                    fs = r.files, content = r.content
             PROVE  /\ Disowned(fs, content)
                    /\ fs \subseteq files' \/ content \in unsure
  BY DisownedAlone DEF LossNeedsAnUnsureCommit, MailsUntouched
<1>1. CASE r \in mails \cup submissions
  <2>1. Disowned(fs, content) /\ (fs \subseteq files \/ content \in unsure)
    BY <1>1, RowsAreDisowned
  <2>2. ASSUME fs \subseteq files, NEW f \in fs PROVE f \in files'
    <3>1. SUFFICES ASSUME request[c].pc = "drop", c \in Clients,
                          request[c].stored \in 1..Uploads, f = <<c, 1, request[c].stored>>
                   PROVE  FALSE
      BY <2>2, CallerProgress
    <3>2. request[c].pc \in {"created", "error"} \/ Handed(c)
      BY <1>1, <2>2, <3>1, OwnUploads
    <3> QED BY <3>1, <3>2 DEF Handed
  <2> QED BY <2>1, <2>2
<1>2. CASE r \notin mails \cup submissions
  <2>1. /\ r = SubmissionOf(c) /\ request[c].pc = "insert"
    BY <1>2, CallerStepReach DEF CallerReach, MailsUntouched
  <2>2. fs = request[c].files /\ content = request[c].content
    BY <2>1 DEF SubmissionOf
  <2>3. fs \subseteq files => fs \subseteq files'
    BY <2>1, CallerProgress
  <2>4. CASE c \in Imports
    BY <2>2, <2>3, <2>4 DEF IInv, FileInv, Importing
  <2>5. CASE c \in Clients
    <3>1. fs \subseteq {c} \X {1} \X (1..Uploads) /\ fs \subseteq files
      BY <2>1, <2>2, <2>5 DEF IInv, FileInv, Uploading
    <3>2. \A f \in fs : f[1] \notin Tasks
      BY <3>1, UploadsAside
    <3>3. Disowned(fs, content)
      BY <3>2 DEF Disowned
    <3> QED BY <2>3, <3>1, <3>3
  <2> QED BY <2>4, <2>5, Numbers
<1> QED BY <1>1, <1>2

\* Other callers keep their files.
LEMMA OtherCallerFiles ==
    ASSUME IInv, NEW c \in Callers, CallerStep(c), MailsUntouched, NEW d \in Callers, d # c
    PROVE  /\ d \in Imports => Importing(d)'
           /\ d \in Clients => Uploading(d)'
<1>1. CallerReach(c) /\ request'[d] = request[d]
  BY CallerStepReach DEF CallerReach
<1>2. ASSUME d \in Imports PROVE Importing(d)'
  <2>1. PICK gs, k : gs = request[d].files /\ k = request[d].content
    OBVIOUS
  <2>2. /\ gs \subseteq Ingestion!File /\ request[d].stored = 0 /\ request[d].pc # "store"
        /\ Disowned(gs, k) /\ (gs \subseteq files \/ k \in unsure)
    BY <1>2, <2>1 DEF IInv, FileInv, Importing
  <2>3. \A f \in gs : f[1] # c
    BY <2>2, UploadsAside
  <2>4. gs \subseteq files' \/ k \in unsure'
    BY <2>2, <2>3, OthersFilesStay DEF MailsUntouched
  <2>5. Disowned(gs, k)'
    BY <2>2, DisownedAlone DEF MailsUntouched
  <2>6. gs = request'[d].files /\ k = request'[d].content
    BY <1>1, <2>1
  <2> QED BY <1>1, <2>2, <2>4, <2>5, <2>6 DEF Importing, Disowned
<1>3. ASSUME d \in Clients PROVE Uploading(d)'
  <2>1. Uploading(d)
    BY <1>3 DEF IInv, FileInv
  <2>2. request[d].files \subseteq files => request[d].files \subseteq files'
    <3>1. \A f \in request[d].files : f[1] # c
      BY <2>1, UploadsAside DEF Uploading
    <3> QED BY <3>1, OthersFilesStay
  <2>3. /\ UploadsOf(d)' = UploadsOf(d) /\ (Handed(d)' <=> Handed(d))
        /\ \A i : Invoices!Upload(d, i)' = Invoices!Upload(d, i)
    BY <1>1 DEF UploadsOf, Handed, Invoices!Upload
  <2>4. Referenced \subseteq Referenced'
    BY CallerReferencedGrows
  <2>5. ASSUME NEW s \in submissions', NEW i \in 1..Uploads, Invoices!Upload(d, i) \in s.files
        PROVE  request[d].pc \in {"created", "error"} \/ Handed(d)
    <3>1. CASE s \in submissions
      BY <2>1, <2>5, <3>1 DEF Uploading
    <3>2. CASE s \notin submissions
      <4>1. s = SubmissionOf(c)
        BY <1>1, <3>2 DEF CallerReach
      <4>2. <<d, 1, i>> \in request[c].files
        BY <2>5, <4>1, UploadsAside DEF SubmissionOf
      <4>3. <<d, 1, i>> \in {d} \X {1} \X (1..Uploads)
        OBVIOUS
      <4>4. CASE c \in Imports
        <5>1. request[c].files \subseteq Ingestion!File
          BY <4>4 DEF IInv, FileInv, Importing
        <5> QED BY <4>2, <4>3, <5>1, UploadsAside
      <4>5. CASE c \in Clients
        <5>1. request[c].files \subseteq {c} \X {1} \X (1..Uploads)
          BY <4>5 DEF IInv, FileInv, Uploading
        <5> QED BY <4>2, <5>1
      <4> QED BY <4>4, <4>5, Numbers
    <3> QED BY <3>1, <3>2
  <2> QED BY <1>1, <2>1, <2>2, <2>3, <2>4, <2>5 DEF Uploading
<1> QED BY <1>2, <1>3

\* An import keeps what it was given, the files of a row.
LEMMA OwnImporting ==
    ASSUME IInv, NEW c \in Callers, CallerStep(c), MailsUntouched, c \in Imports
    PROVE  Importing(c)'
<1>0. /\ Importing(c) /\ files \subseteq files'
  BY OthersFilesStay DEF IInv, FileInv
<1>1. SUFFICES ASSUME NEW gs, NEW k, gs = request'[c].files, k = request'[c].content
               PROVE  /\ gs \subseteq Ingestion!File /\ request'[c].stored = 0
                      /\ request'[c].pc # "store" /\ Disowned(gs, k)
                      /\ gs \subseteq files \/ k \in unsure
  <2>1. PICK gs, k : gs = request'[c].files /\ k = request'[c].content
    OBVIOUS
  <2>2. /\ gs \subseteq Ingestion!File /\ request'[c].stored = 0
        /\ request'[c].pc # "store" /\ Disowned(gs, k)
        /\ gs \subseteq files \/ k \in unsure
    BY <1>1, <2>1
  <2>3. Disowned(gs, k)'
    BY <2>2, DisownedAlone DEF MailsUntouched
  <2> QED BY <1>0, <2>1, <2>2, <2>3 DEF Importing, Disowned, MailsUntouched
<1>2. CASE Invoices!Import(c)
  <2>1. PICK m \in mails : /\ request'[c].files = m.files /\ request'[c].content = m.content
                           /\ request'[c].stored = 0 /\ request'[c].pc = "lock"
    BY <1>2, ImportEffect DEF RequestIs
  <2>2. m.files \subseteq Ingestion!File
    BY RowTypes DEF IInv
  <2>3. Disowned(m.files, m.content) /\ (m.files \subseteq files \/ m.content \in unsure)
    BY RowsAreDisowned
  <2> QED BY <1>1, <2>1, <2>2, <2>3
<1>3. CASE ~Invoices!Import(c)
  <2>1. /\ request'[c].files = request[c].files /\ request'[c].content = request[c].content
        /\ request'[c].stored = request[c].stored /\ request'[c].pc # "store"
    <3>1. request[c].pc # "store" /\ request[c].stored = 0 /\ c \notin Clients
      BY <1>0, Numbers DEF Importing
    <3>2. CASE Invoices!LockPartner(c)
      BY <3>1, <3>2, LockPartnerEffect
    <3>3. CASE ~Invoices!LockPartner(c)
      BY <1>3, <3>1, <3>3, ArriveEffect, CallerStoreEffect, RejectEffect, CallerLockEffect,
         CallerFindEffect, FindPartnerEffect, CallerInsertEffect,
         CallerLoseCommitEffect, FailEffect, CallerEnqueueEffect, CallerDropEffect
         DEF CallerStep, Invoices!Progress, RequestIs
    <3> QED BY <3>2, <3>3
  <2> QED BY <1>0, <1>1, <2>1 DEF Importing
<1> QED BY <1>2, <1>3

LEMMA UploadsAs ==
    ASSUME NEW c
    PROVE  /\ UploadsOf(c) = {<<c, 1, i>> : i \in 1..request[c].stored}
           /\ UploadsOf(c)' = {<<c, 1, i>> : i \in 1..request'[c].stored}
BY DEF UploadsOf, Invoices!Upload

\* What a step of a manual request makes of its files: they grow one by one,
\* are handed over with the insert, or stay whatever they are.
LEMMA OwnUploading ==
    ASSUME IInv, NEW c \in Callers, CallerStep(c), MailsUntouched, c \in Clients
    PROVE  Uploading(c)'
<1> DEFINE r == request[c]
           q == request'[c]
           Box == {c} \X {1} \X (1..Uploads)
           U == UploadsOf(c)
           U1 == UploadsOf(c)'
           Mine(s) == \E i \in 1..Uploads : <<c, 1, i>> \in s.files
<1>0. /\ r.files \subseteq Box
      /\ r.pc = "idle" => r.stored = 0
      /\ r.pc = "store" => r.stored < Uploads
      /\ r.pc \in {"store", "lock", "find", "partner", "insert"} => r.files = U /\ U \subseteq files
      /\ Handed(c) => U \subseteq Referenced
      /\ \A s \in submissions : Mine(s) => r.pc \in {"created", "error"} \/ Handed(c)
      /\ r.stored \in 0..Uploads
  <2>1. Uploading(c)
    BY DEF IInv, FileInv
  <2>2. \A i : Invoices!Upload(c, i) = <<c, 1, i>>
    BY UploadsAside
  <2> QED BY <2>1, <2>2, RequestTypes DEF Uploading, IInv
<1>14. SUFFICES /\ q.files \subseteq Box
                /\ q.pc = "idle" => q.stored = 0
                /\ q.pc = "store" => q.stored < Uploads
                /\ q.pc \in {"store", "lock", "find", "partner", "insert"} =>
                      q.files = U1 /\ U1 \subseteq files'
                /\ Handed(c)' => U1 \subseteq Referenced'
                /\ \A s \in submissions' : Mine(s) => q.pc \in {"created", "error"} \/ Handed(c)'
  <2>1. \A i : Invoices!Upload(c, i)' = <<c, 1, i>>
    BY DEF Invoices!Upload
  <2> QED BY <1>14, <2>1 DEF Uploading
<1>15. q.stored = r.stored => U1 = U
  BY UploadsAs
<1>16. (r.pc \notin {"created", "error", "enqueue"}) => \A s \in submissions : ~Mine(s)
  BY <1>0 DEF Handed
<1>17. Handed(c)' <=> q.pc = "enqueue" /\ q.outcome = "created"
  BY DEF Handed
<1>18. Referenced \subseteq Referenced'
  BY CallerReferencedGrows
<1> HIDE DEF U, U1, Mine
<1>1. CASE Invoices!Arrive(c)
  <2>1. /\ q.pc = "store" /\ q.files = {} /\ q.stored = 0 /\ r.pc = "idle"
        /\ submissions' = submissions
    BY <1>1, ArriveEffect DEF RequestIs
  <2>2. U1 = {}
    BY <2>1, UploadsAs DEF U1
  <2> QED BY <1>14, <1>16, <1>17, <2>1, <2>2, Numbers
<1>2. CASE Invoices!Import(c)
  BY <1>2, ImportEffect, Numbers
<1>3. CASE Invoices!Store(c)
  <2>1. /\ q.pc \in {"store", "lock"} /\ q.stored = r.stored + 1
        /\ q.files = r.files \cup {<<c, 1, r.stored + 1>>} /\ r.pc = "store"
        /\ q.pc = "store" => r.stored + 1 < Uploads
        /\ submissions' = submissions /\ r.stored + 1 \in 1..Uploads
        /\ files' = files \cup {<<c, 1, r.stored + 1>>}
    BY <1>3, CallerStoreEffect DEF RequestIs
  <2> DEFINE k == r.stored + 1
  <2>2. <<c, 1, k>> \in Box
    BY <2>1
  <2>3. \A i : i \in 1..k <=> i \in 1..r.stored \/ i = k
    BY <1>0
  <2>4. U1 = U \cup {<<c, 1, k>>}
    <3>1. U = {<<c, 1, i>> : i \in 1..r.stored} /\ U1 = {<<c, 1, i>> : i \in 1..k}
      BY <2>1, UploadsAs DEF U, U1
    <3> HIDE DEF k
    <3> QED BY <2>3, <3>1
  <2> QED BY <1>0, <1>14, <1>16, <1>17, <2>1, <2>2, <2>4
<1>4. CASE Invoices!Reject(c)
  <2>1. /\ q.pc = "drop" /\ q.files = r.files /\ r.pc = "store" /\ submissions' = submissions
    BY <1>4, RejectEffect DEF RequestIs
  <2> QED BY <1>0, <1>14, <1>16, <1>17, <2>1
<1>5. CASE Invoices!Lock(c)
  <2>1. /\ q.pc \in {"lock", "find"} /\ q.files = r.files /\ q.stored = r.stored
        /\ r.pc = "lock" /\ submissions' = submissions /\ files' = files
    BY <1>5, CallerLockEffect DEF RequestIs
  <2> QED BY <1>0, <1>14, <1>15, <1>16, <1>17, <2>1
<1>6. CASE Invoices!Find(c)
  <2>1. /\ q.pc \in {"partner", "insert", "drop", "enqueue"} /\ q.files = r.files
        /\ q.stored = r.stored
        /\ q.pc = "enqueue" => q.outcome = "duplicate"
        /\ r.pc = "find" /\ submissions' = submissions /\ files' = files
    BY <1>6, CallerFindEffect DEF RequestIs
  <2> QED BY <1>0, <1>14, <1>15, <1>16, <1>17, <2>1
<1>7. CASE Invoices!LockPartner(c)
  <2>1. /\ q = r /\ r.pc = "partner" /\ submissions' = submissions /\ files' = files
    BY <1>7, LockPartnerEffect
  <2> QED BY <1>0, <1>14, <1>15, <1>16, <1>17, <2>1
<1>8. CASE Invoices!FindPartner(c)
  <2>1. /\ q.pc = "insert" /\ q.files = r.files /\ q.stored = r.stored
        /\ r.pc = "partner" /\ submissions' = submissions /\ files' = files
    BY <1>8, FindPartnerEffect DEF RequestIs
  <2> QED BY <1>0, <1>14, <1>15, <1>16, <1>17, <2>1
<1>9. CASE Invoices!Insert(c)
  <2>1. /\ q.pc = "enqueue" /\ q.outcome = "created" /\ q.files = r.files
        /\ q.stored = r.stored /\ r.pc = "insert"
        /\ submissions' = submissions \cup {SubmissionOf(c)}
    BY <1>9, CallerInsertEffect DEF RequestIs
  <2>2. SubmissionOf(c).files = U
    BY <1>0, <2>1 DEF SubmissionOf
  <2>3. U \subseteq Referenced'
    BY <2>1, <2>2 DEF Referenced
  <2> QED BY <1>0, <1>14, <1>15, <1>17, <2>1, <2>3
<1>10. CASE Invoices!LoseCommit(c)
  <2>1. q.pc = "error" /\ q.files = r.files
    BY <1>10, CallerLoseCommitEffect DEF RequestIs
  <2> QED BY <1>0, <1>14, <1>17, <2>1
<1>11. CASE Invoices!Fail(c)
  <2>1. q.pc = "error" /\ q.files = r.files
    BY <1>11, FailEffect DEF RequestIs
  <2> QED BY <1>0, <1>14, <1>17, <2>1
<1>12. CASE Invoices!Enqueue(c)
  <2>1. /\ q.pc \in {"drop", "created"} /\ (q.pc = "drop" <=> r.outcome = "duplicate")
        /\ q.files = r.files /\ r.pc = "enqueue" /\ submissions' = submissions
    BY <1>12, CallerEnqueueEffect DEF RequestIs
  <2>2. q.pc = "drop" => ~Handed(c)
    BY <2>1 DEF Handed
  <2> QED BY <1>0, <1>14, <1>17, <2>1, <2>2
<1>13. CASE Invoices!Drop(c)
  <2>1. /\ q.pc \in {"drop", "rejected", "conflict", "duplicate"} /\ q.files = r.files
        /\ r.pc = "drop" /\ submissions' = submissions
    BY <1>13, CallerDropEffect DEF RequestIs
  <2> QED BY <1>0, <1>14, <1>16, <1>17, <2>1
<1> QED BY <1>1, <1>2, <1>3, <1>4, <1>5, <1>6, <1>7, <1>8, <1>9, <1>10, <1>11, <1>12, <1>13
        DEF CallerStep, Invoices!Progress

\* A file of the request is still in its hands, a row's or gone.
LEMMA OwnCallerFiles ==
    ASSUME IInv, NEW c \in Callers, CallerStep(c), MailsUntouched, faults' = 0,
           NEW f \in files', f \notin files \/ (/\ c \in Clients
                                                /\ request[c].pc \notin Invoices!Endings
                                                /\ f \in UploadsOf(c))
    PROVE  \/ f \in Referenced'
           \/ /\ c \in Clients /\ request'[c].pc \notin Invoices!Endings
              /\ f \in UploadsOf(c)'
<1> DEFINE r == request[c]
           q == request'[c]
           U == UploadsOf(c)
           U1 == UploadsOf(c)'
<1>0. /\ r.stored \in 0..Uploads /\ Referenced \subseteq Referenced'
      /\ U = {<<c, 1, i>> : i \in 1..r.stored} /\ U1 = {<<c, 1, i>> : i \in 1..q.stored}
  BY RequestTypes, CallerReferencedGrows, UploadsAs DEF IInv
<1>14. /\ f \notin files \/ (c \in Clients /\ r.pc \notin Invoices!Endings /\ f \in U)
       /\ f \in U => r.stored # 0
  BY <1>0
<1>15. c \in Clients => (r.pc = "idle" => r.stored = 0) /\ (Handed(c) => U \subseteq Referenced)
  BY DEF IInv, FileInv, Uploading
<1>16. q.stored = r.stored => U1 = U
  BY <1>0
<1>17. SUFFICES \/ f \in Referenced'
                \/ c \in Clients /\ q.pc \notin Invoices!Endings /\ f \in U1
  OBVIOUS
<1> HIDE DEF U, U1
<1>1. CASE Invoices!Arrive(c)
  BY <1>1, <1>14, <1>15, ArriveEffect
<1>2. CASE Invoices!Import(c)
  BY <1>2, <1>14, ImportEffect, Numbers
<1>3. CASE Invoices!Store(c)
  <2>1. /\ q.pc \in {"store", "lock"} /\ q.stored = r.stored + 1 /\ c \in Clients
        /\ files' = files \cup {<<c, 1, r.stored + 1>>}
    BY <1>3, CallerStoreEffect DEF RequestIs
  <2>2. /\ \A i \in 1..r.stored : i \in 1..q.stored
        /\ r.stored + 1 \in 1..q.stored
    BY <1>0, <2>1
  <2>3. f \in U \/ f = <<c, 1, r.stored + 1>>
    BY <1>14, <2>1
  <2>4. f \in U1
    BY <1>0, <2>2, <2>3
  <2> QED BY <2>1, <2>4 DEF Invoices!Endings
<1>4. CASE Invoices!Reject(c)
  BY <1>4, <1>14, <1>16, RejectEffect DEF RequestIs, Invoices!Endings
<1>5. CASE Invoices!Lock(c)
  <2>1. q.pc \in {"lock", "find"} /\ q.stored = r.stored /\ files' = files
    BY <1>5, CallerLockEffect DEF RequestIs
  <2> QED BY <1>14, <1>16, <2>1 DEF Invoices!Endings
<1>6. CASE Invoices!Find(c)
  <2>1. /\ q.pc \in {"partner", "insert", "drop", "enqueue"} /\ q.stored = r.stored
        /\ files' = files
    BY <1>6, CallerFindEffect DEF RequestIs
  <2> QED BY <1>14, <1>16, <2>1 DEF Invoices!Endings
<1>7. CASE Invoices!LockPartner(c)
  BY <1>7, <1>14, <1>16, LockPartnerEffect
<1>8. CASE Invoices!FindPartner(c)
  <2>1. q.pc = "insert" /\ q.stored = r.stored /\ files' = files
    BY <1>8, FindPartnerEffect DEF RequestIs
  <2> QED BY <1>14, <1>16, <2>1 DEF Invoices!Endings
<1>9. CASE Invoices!Insert(c)
  BY <1>9, <1>14, <1>16, CallerInsertEffect DEF RequestIs, Invoices!Endings
<1>10. CASE Invoices!LoseCommit(c)
  BY <1>10, CallerLoseCommitEffect
<1>11. CASE Invoices!Fail(c)
  BY <1>11, FailEffect
<1>12. CASE Invoices!Enqueue(c)
  <2>1. /\ q.pc \in {"drop", "created"} /\ (q.pc = "drop" <=> r.outcome = "duplicate")
        /\ q.stored = r.stored /\ r.pc = "enqueue" /\ files' = files
    BY <1>12, CallerEnqueueEffect DEF RequestIs
  <2>2. q.pc = "created" => Handed(c)
    BY <2>1 DEF Handed, IInv, RowInv, Answered
  <2> QED BY <1>0, <1>14, <1>15, <1>16, <2>1, <2>2 DEF Invoices!Endings
<1>13. CASE Invoices!Drop(c)
  <2>1. CASE /\ r.stored \in 1..Uploads /\ c \in Clients
             /\ files' = files \ {<<c, 1, r.stored>>}
             /\ q.pc = "drop" /\ q.stored = r.stored - 1
    <3>1. \A i \in 1..r.stored : i \in 1..q.stored \/ i = r.stored
      BY <1>0, <2>1
    <3>2. f \in U /\ f # <<c, 1, r.stored>>
      BY <1>14, <2>1
    <3>3. f \in U1
      BY <1>0, <3>1, <3>2
    <3> QED BY <2>1, <3>3 DEF Invoices!Endings
  <2>2. CASE r.stored = 0 /\ files' = files
    BY <1>14, <2>2
  <2> QED BY <1>13, <2>1, <2>2, CallerDropEffect DEF RequestIs
<1> QED BY <1>1, <1>2, <1>3, <1>4, <1>5, <1>6, <1>7, <1>8, <1>9, <1>10, <1>11, <1>12, <1>13
        DEF CallerStep, Invoices!Progress

LEMMA CallerStepStrays ==
    ASSUME IInv, NEW c \in Callers, CallerStep(c), MailsUntouched, LossNeedsAnUnsureCommit'
    PROVE  (faults' = 0 => unsure' = {}) /\ NothingStrays'
<1>1. faults' = 0 => faults = 0 /\ unsure' = {}
  BY CallerProgress DEF IInv, FileInv, MailsUntouched
<1>2. ASSUME faults' = 0, NEW f \in files' PROVE f \in Referenced' \/ f \in InWork'
  <2>1. f \notin files \/ f \in Referenced \/ TaskInWork(f) \/ CallerInWork(f)
    BY <1>1, <1>2, InWorkParts DEF IInv, NothingStrays
  <2>2. CASE f \notin files \/ (/\ c \in Clients /\ request[c].pc \notin Invoices!Endings
                                /\ f \in UploadsOf(c))
    BY <1>2, <2>2, OwnCallerFiles, InWorkParts DEF CallerInWork
  <2>3. CASE f \in Referenced
    BY <2>3, CallerReferencedGrows
  <2>4. ASSUME NEW d \in Clients, d # c, request[d].pc \notin Invoices!Endings,
               f \in UploadsOf(d)
        PROVE  f \in InWork'
    <3>1. request'[d] = request[d]
      BY <2>4, CallerStepReach, Numbers DEF CallerReach
    <3>2. f \in UploadsOf(d)'
      BY <2>4, <3>1 DEF UploadsOf, Invoices!Upload
    <3> QED BY <2>4, <3>1, <3>2, InWorkParts DEF CallerInWork
  <2>5. CASE TaskInWork(f)
    <3>1. TaskInWork(f)'
      BY <2>5 DEF TaskInWork, Ingestion!StoredBy, Ingestion!FileOf, MailsUntouched
    <3> QED BY <3>1, InWorkParts
  <2> QED BY <2>1, <2>2, <2>3, <2>4, <2>5 DEF CallerInWork
<1>3. faults' = 0 => Referenced' \subseteq files'
  BY <1>1, RowsHaveFiles
<1> QED BY <1>1, <1>2, <1>3 DEF NothingStrays

LEMMA CallerStepInv ==
    ASSUME IInv, NEW c \in Callers, CallerStep(c), MailsUntouched
    PROVE  IInv'
<1>1. TypeOK' /\ LockInv' /\ RowInv'
  BY CallerStepTypes, CallerStepLocks, CallerStepRows DEF MailsUntouched
<1>2. /\ \A r \in (mails \cup submissions)' : Disowned(r.files, r.content)'
      /\ LossNeedsAnUnsureCommit'
  BY CallerStepRowFiles
<1>3. (faults' = 0 => unsure' = {}) /\ NothingStrays'
  BY <1>2, CallerStepStrays
<1>4. \A t \in Tasks : Attempt(t)'
  BY CallerStepTasks
<1>5. /\ \A d \in Imports : Importing(d)'
      /\ \A d \in Clients : Uploading(d)'
  BY OwnImporting, OwnUploading, OtherCallerFiles, Numbers
<1>6. FileInv'
  BY <1>2, <1>3, <1>4, <1>5 DEF FileInv
<1> QED BY <1>1, <1>2, <1>3, <1>6 DEF IInv

\* A row that follows its mail to another folder keeps key, content and files.
LEMMA FollowMoveInv ==
    ASSUME IInv, NEW r \in mails, NEW k \in ServerKeys, Ingestion!FollowMove(r, k), Untouched
    PROVE  IInv'
<1>1. UNCHANGED <<files, held, faults, unsure, classify, job>>
  BY FollowMoveEffect
<1>2. /\ \A x \in (mails \cup submissions)' : \E y \in mails \cup submissions :
            x.content = y.content /\ x.files = y.files
      /\ \A y \in mails \cup submissions : \E x \in (mails \cup submissions)' :
            x.content = y.content /\ x.files = y.files
      /\ mails' \subseteq Ingestion!Row
  BY MovedRows DEF Untouched
<1>3. Referenced' = Referenced
  <2>1. \A f : f \in Referenced' <=> \E x \in (mails \cup submissions)' : f \in x.files
    BY DEF Referenced
  <2>2. \A f : f \in Referenced <=> \E x \in mails \cup submissions : f \in x.files
    BY DEF Referenced
  <2> QED BY <1>2, <2>1, <2>2
<1>4. TypeOK'
  BY <1>1, <1>2 DEF IInv, TypeOK, Untouched
<1>5. LockInv' /\ RowInv'
  BY FollowMoveRows
<1>6. /\ \A x \in (mails \cup submissions)' : Disowned(x.files, x.content)'
      /\ LossNeedsAnUnsureCommit'
  <2> SUFFICES ASSUME NEW x \in (mails \cup submissions)', NEW fs, NEW content,
                      fs = x.files, content = x.content
               PROVE  Disowned(fs, content) /\ (fs \subseteq files \/ content \in unsure)
    BY <1>1, DisownedAlone DEF LossNeedsAnUnsureCommit
  <2> QED BY <1>2, RowsAreDisowned
<1>7. InWork' = InWork
  BY <1>1 DEF InWork, Ingestion!StoredBy, Ingestion!FileOf, UploadsOf, Invoices!Upload, Untouched
<1>8. NothingStrays'
  BY <1>1, <1>3, <1>7 DEF IInv, NothingStrays
<1>9. \A t \in Tasks : Attempt(t)'
  <2> TAKE t \in Tasks
  <2>1. Ingestion!StoredBy(t)' = Ingestion!StoredBy(t)
    BY <1>1 DEF Ingestion!StoredBy, Ingestion!FileOf
  <2> QED BY <1>1, <1>3, <2>1 DEF IInv, FileInv, Attempt
<1>10. \A c \in Imports : Importing(c)'
  BY <1>1 DEF IInv, FileInv, Importing, Disowned, Dropping, Untouched
<1>11. \A c \in Clients : Uploading(c)'
  BY <1>1, <1>3 DEF IInv, FileInv, Uploading, UploadsOf, Handed, Invoices!Upload, Untouched
<1>12. FileInv'
  BY <1>1, <1>6, <1>9, <1>10, <1>11 DEF IInv, FileInv
<1> QED BY <1>4, <1>5, <1>6, <1>8, <1>12 DEF IInv

-----------------------------------------------------------------------------
(* The invariant, from the first state on.                                 *)

\* Nothing is stored, locked or written when the system starts.
LEMMA InitIInv == Init => IInv
<1> SUFFICES ASSUME Init PROVE IInv
  OBVIOUS
<1>1. /\ files = {} /\ held = {} /\ faults = 0 /\ mails = {} /\ unsure = {} /\ classify = {}
      /\ submissions = {} /\ partners = {} /\ selection = {}
  BY DEF Init, Ingestion!Init, Invoices!Init
<1>2. /\ job \in [Tasks -> Ingestion!Job]
      /\ \A t \in Tasks : /\ job[t].pc = "queued" /\ job[t].tries = 0 /\ job[t].stored = 0
                          /\ job[t].found = "none"
  <2> DEFINE j == [pc |-> "queued", tries |-> 0, stored |-> 0, found |-> "none"]
  <2>1. /\ j \in Ingestion!Job /\ j.pc = "queued" /\ j.tries = 0 /\ j.stored = 0
        /\ j.found = "none"
    BY Numbers DEF Ingestion!Job, Ingestion!Labels
  <2>2. job = [t \in Tasks |-> j]
    BY DEF Init, Ingestion!Init
  <2> HIDE DEF j
  <2> QED BY <2>1, <2>2
<1>3. /\ request \in [Callers -> Request]
      /\ \A c \in Callers : /\ request[c].pc = "idle" /\ request[c].files = {}
                            /\ request[c].stored = 0 /\ request[c].found = "none"
                            /\ request[c].partner = NoPartner
                            /\ request[c].outcome = "none"
  <2> DEFINE r == Invoices!Resting
  <2>1. /\ r \in Request /\ r.pc = "idle" /\ r.files = {} /\ r.stored = 0
        /\ r.found = "none" /\ r.partner = NoPartner /\ r.outcome = "none"
    BY Numbers DEF Invoices!Resting, Request, Invoices!Labels
  <2>2. request = [c \in Callers |-> r]
    BY DEF Init, Invoices!Init, Invoices!Callers, Callers
  <2> HIDE DEF r
  <2> QED BY <2>1, <2>2
<1>4. TypeOK
  BY <1>1, <1>2, <1>3, Numbers DEF TypeOK
<1>5. \A p : LocksOf(p) = {}
  BY <1>1, LocksMember
<1>6. LockInv
  BY <1>1, <1>2, <1>3, <1>5 DEF LockInv, Exclusive, TaskLocks, CallerLocks
<1>7. RowInv
  BY <1>1, <1>2, <1>3 DEF RowInv, TaskFresh, Found, CallerFresh, Answered
<1>8. \A t \in Tasks : Attempt(t)
  BY <1>2, Numbers DEF Attempt
<1>9. \A c \in Imports : Importing(c)
  BY <1>3, Numbers DEF Importing, Disowned
<1>10. \A c \in Clients : Uploading(c)
  BY <1>1, <1>3, Numbers DEF Uploading, Handed
<1>11. FileInv
  BY <1>1, <1>8, <1>9, <1>10 DEF FileInv
<1>12. LossNeedsAnUnsureCommit /\ NothingStrays
  BY <1>1 DEF LossNeedsAnUnsureCommit, NothingStrays, Referenced
<1> QED BY <1>4, <1>6, <1>7, <1>11, <1>12 DEF IInv

\* What the actions of a caller leave alone.
LEMMA CallersLeaveMails ==
    ASSUME NEW c, CallerStep(c) PROVE mails' = mails
BY DEF CallerStep, Invoices!Progress, Invoices!Arrive, Invoices!Import, Invoices!Reject,
       Invoices!Store, Invoices!Lock, Invoices!Find, Invoices!LockPartner, Invoices!FindPartner,
       Invoices!Insert, Invoices!LoseCommit, Invoices!Fail, Invoices!Enqueue, Invoices!Drop

LEMMA NextInv == IInv /\ [Next]_vars => IInv'
<1> SUFFICES ASSUME IInv, [Next]_vars PROVE IInv'
  OBVIOUS
<1>1. CASE Ingest(Ingestion!Next)
  <2>1. Ingestion!Next /\ Untouched
    BY <1>1 DEF Ingest, Untouched
  <2>2. \/ \E t \in Tasks : TaskStep(t)
        \/ \E r \in mails, k \in ServerKeys : Ingestion!FollowMove(r, k)
    BY <2>1 DEF Ingestion!Next, TaskStep
  <2> QED BY <2>1, <2>2, TaskStepInv, FollowMoveInv
<1>2. CASE Submit(Invoices!Next)
  <2>1. PICK c \in Callers : CallerStep(c)
    BY <1>2 DEF Submit, Invoices!Next, Invoices!Callers, Callers, CallerStep
  <2>2. MailsUntouched
    BY <1>2, <2>1, CallersLeaveMails DEF Submit, MailsUntouched
  <2> QED BY <2>1, <2>2, CallerStepInv
<1>3. CASE UNCHANGED vars
  <2>1. UNCHANGED <<files, held, faults, mails, unsure, classify, job,
                    submissions, partners, selection, request>>
    BY <1>3 DEF vars
  <2>2. /\ \A p : LocksOf(p)' = LocksOf(p)
        /\ \A t : Ingestion!StoredBy(t)' = Ingestion!StoredBy(t)
        /\ \A c : UploadsOf(c)' = UploadsOf(c)
        /\ Referenced' = Referenced
    BY <2>1 DEF LocksOf, Ingestion!Locks!LocksOf, Ingestion!StoredBy, Ingestion!FileOf,
                UploadsOf, Invoices!Upload, Referenced
  <2>3. InWork' = InWork
    BY <2>1 DEF InWork, Ingestion!StoredBy, Ingestion!FileOf, UploadsOf, Invoices!Upload
  <2>4. LossNeedsAnUnsureCommit' /\ NothingStrays' /\ TypeOK'
    BY <2>1, <2>2, <2>3 DEF IInv, LossNeedsAnUnsureCommit, NothingStrays, TypeOK
  <2>5. LockInv'
    BY <2>1, <2>2, GuardsStay DEF IInv, LockInv, Exclusive, TaskLocks, CallerLocks, Taking
  <2>6. RowInv'
    BY <2>1, <2>2 DEF IInv, RowInv, TaskFresh, Found, CallerFresh, Answered, Invoices!Matches,
       Invoices!Content, Invoices!Mentioned, Invoices!PartnerGuards, Invoices!Known,
       Invoices!SamePartner
  <2>7. FileInv'
    BY <2>1, <2>2 DEF IInv, FileInv, Attempt, Importing, Uploading, Handed, Disowned, Dropping,
       Invoices!Upload
  <2> QED BY <2>4, <2>5, <2>6, <2>7 DEF IInv
<1> QED BY <1>1, <1>2, <1>3 DEF Next

-----------------------------------------------------------------------------
(* Nobody waits in a circle: locks are taken in the order of their ranks,  *)
(* those of a partner after all others.                                    *)

LockRank(l) == IF l[1] = "partner-name" THEN MaxKey + 2
               ELSE IF l[1] = "partner-document" THEN MaxKey + 1
               ELSE AdvisoryKey(l)

\* The next of two locks comes after those that a process has.
LEMMA NextRises ==
    ASSUME NEW p, NEW a, NEW b, NEW S, S = {a, b},
           AdvisoryKey(a) \in 0..MaxKey, AdvisoryKey(b) \in 0..MaxKey,
           AdvisoryKey(a) # AdvisoryKey(b), Taking(LocksOf(p), S)
    PROVE  /\ Ingestion!Locks!NextOf(p, S) \in S
           /\ \A l \in LocksOf(p) : AdvisoryKey(l) < AdvisoryKey(Ingestion!Locks!NextOf(p, S))
<1> DEFINE R == S \ LocksOf(p)
           n == Ingestion!Locks!NextOf(p, S)
<1>1. n = CHOOSE x \in R : \A y \in R : AdvisoryKey(x) <= AdvisoryKey(y)
  BY DEF Ingestion!Locks!NextOf, LocksOf
<1>2. R # {} /\ \A l \in LocksOf(p) : l \in S
  BY Numbers DEF Taking
<1> HIDE DEF R, n
<1>3. R \subseteq {a, b}
  BY DEF R
<1>4. \E x \in R : \A y \in R : AdvisoryKey(x) <= AdvisoryKey(y)
  BY <1>2, <1>3, Numbers
<1>5. n \in R
  BY <1>1, <1>4
<1>6. ASSUME NEW l \in LocksOf(p) PROVE AdvisoryKey(l) < AdvisoryKey(n)
  <2>1. AdvisoryKey(l) <= AdvisoryKey(n) /\ l # n /\ l \in {a, b} /\ n \in {a, b}
    BY <1>2, <1>5 DEF R, Taking
  <2> QED BY <2>1, Numbers
<1> QED BY <1>5, <1>6 DEF R, n

\* The locks that a job, a submission and its partner take have ranks.
LEMMA GuardRanks ==
    /\ \A t \in Tasks : \A l \in Ingestion!Guards(t) :
          LockRank(l) = AdvisoryKey(l) /\ AdvisoryKey(l) \in 0..MaxKey
    /\ \A c \in Callers : request[c].key \in Keys /\ request[c].content \in Contents =>
          \A l \in Invoices!SubmissionGuards(c) :
             LockRank(l) = AdvisoryKey(l) /\ AdvisoryKey(l) \in 0..MaxKey
<1>1. \A x : /\ <<"server", x>>[1] = "server" /\ <<"content", x>>[1] = "content"
             /\ <<"submission-key", x>>[1] = "submission-key"
             /\ <<"submission-content", x>>[1] = "submission-content"
  OBVIOUS
<1>2. ASSUME NEW t \in Tasks, NEW l \in Ingestion!Guards(t)
      PROVE  LockRank(l) = AdvisoryKey(l) /\ AdvisoryKey(l) \in 0..MaxKey
  <2>1. l = <<"server", SourceOf(t).key>> \/ l = <<"content", SourceOf(t).content>>
    BY DEF Ingestion!Guards
  <2> QED BY <1>1, <2>1, GuardKeys DEF LockRank
<1>3. ASSUME NEW c \in Callers, request[c].key \in Keys, request[c].content \in Contents,
             NEW l \in Invoices!SubmissionGuards(c)
      PROVE  LockRank(l) = AdvisoryKey(l) /\ AdvisoryKey(l) \in 0..MaxKey
  <2>1. l = <<"submission-key", request[c].key>> \/ l = <<"submission-content", request[c].content>>
    BY DEF Invoices!SubmissionGuards, Invoices!Content
  <2> QED BY <1>1, <1>3, <2>1, GuardKeys DEF LockRank
<1> QED BY <1>2, <1>3

WaitsAbove(q, l) == /\ LockRank(l) \in 0..(MaxKey + 2)
                    /\ \A own \in LocksOf(q) : LockRank(own) < LockRank(l)

LEMMA TaskWaitsAbove ==
    ASSUME IInv, NEW t \in WaitingTasks
    PROVE  WaitsAbove(t, Ingestion!Locks!NextOf(t, Ingestion!Guards(t)))
<1> DEFINE G == Ingestion!Guards(t)
           n == Ingestion!Locks!NextOf(t, G)
<1>1. t \in Tasks /\ Taking(LocksOf(t), G)
  BY DEF WaitingTasks, Ingestion!At, IInv, LockInv, TaskLocks
<1>2. /\ n \in G
      /\ \A l \in LocksOf(t) : AdvisoryKey(l) < AdvisoryKey(n)
  BY <1>1, GuardKeys, NextRises DEF Ingestion!Guards
<1>3. \A l \in LocksOf(t) \cup {n} : LockRank(l) = AdvisoryKey(l) /\ AdvisoryKey(l) \in 0..MaxKey
  BY <1>1, <1>2, GuardRanks DEF Taking
<1> HIDE DEF n
<1> QED BY <1>2, <1>3, Numbers DEF WaitsAbove, n

LEMMA CallerWaitsAbove ==
    ASSUME IInv, NEW c \in WaitingCallers
    PROVE  WaitsAbove(c, Invoices!Locks!NextOf(c, Invoices!SubmissionGuards(c)))
<1> DEFINE G == Invoices!SubmissionGuards(c)
           n == Ingestion!Locks!NextOf(c, G)
<1>1. c \in Callers /\ Taking(LocksOf(c), G)
  BY DEF WaitingCallers, Invoices!At, IInv, LockInv, CallerLocks
<1>2. request[c].key \in Keys /\ request[c].content \in Contents
  BY DEF WaitingCallers, Invoices!At, IInv, RowInv, CallerFresh
<1>3. /\ n \in G
      /\ \A l \in LocksOf(c) : AdvisoryKey(l) < AdvisoryKey(n)
  <2> DEFINE a == <<"submission-key", request[c].key>>
             b == <<"submission-content", request[c].content>>
  <2>1. /\ AdvisoryKey(a) \in 0..MaxKey /\ AdvisoryKey(b) \in 0..MaxKey
        /\ AdvisoryKey(a) # AdvisoryKey(b)
    BY <1>2, GuardKeys
  <2>2. G = {a, b}
    BY DEF Invoices!SubmissionGuards, Invoices!Content
  <2> HIDE DEF G, a, b
  <2> QED BY <1>1, <2>1, <2>2, NextRises
<1>4. \A l \in LocksOf(c) \cup {n} : LockRank(l) = AdvisoryKey(l) /\ AdvisoryKey(l) \in 0..MaxKey
  BY <1>1, <1>2, <1>3, GuardRanks DEF Taking
<1>5. Invoices!Locks!NextOf(c, G) = n
  BY DEF Invoices!Locks!NextOf, Ingestion!Locks!NextOf, Invoices!Locks!LocksOf,
         Ingestion!Locks!LocksOf
<1> HIDE DEF n
<1>6. WaitsAbove(c, n)
  BY <1>3, <1>4, Numbers DEF WaitsAbove
<1> QED BY <1>5, <1>6

LEMMA PartnerWaitsAbove ==
    ASSUME IInv, NEW c \in WaitingPartners
    PROVE  WaitsAbove(c, Invoices!NextPartnerLock(c))
<1> DEFINE G == Invoices!PartnerGuards(c)
           n == Invoices!NextPartnerLock(c)
           D == <<"partner-document", Invoices!Mentioned(c).document>>
<1>1. /\ c \in Callers /\ ~Invoices!Locks!Has(c, G)
      /\ LocksOf(c) \subseteq Invoices!SubmissionGuards(c) \cup G
      /\ (\E l \in LocksOf(c) : l[1] = "partner-name") => G \subseteq LocksOf(c)
  BY DEF WaitingPartners, Invoices!At, IInv, LockInv, CallerLocks
<1>2. request[c].key \in Keys /\ request[c].content \in Contents
  BY DEF WaitingPartners, Invoices!At, IInv, RowInv, CallerFresh
<1>3. /\ n \in G \ LocksOf(c)
      /\ n[1] = "partner-document" \/ G \ LocksOf(c) = {n}
  BY <1>1, PartnerLockOrder
<1>4. \A l \in G : \/ l[1] = "partner-name"
                   \/ l = D /\ l[1] = "partner-document"
  <2> DEFINE N == <<"partner-name", Invoices!Mentioned(c).name>>
  <2>1. \A l \in G : l = N \/ l = D
    BY PartnerLocks
  <2>2. N[1] = "partner-name" /\ D[1] = "partner-document"
    OBVIOUS
  <2> HIDE DEF N, D, G
  <2> QED BY <2>1, <2>2
<1> HIDE DEF G, n, D
<1>5. LockRank(n) \in {MaxKey + 1, MaxKey + 2}
  BY <1>3, <1>4 DEF LockRank
<1>6. ASSUME NEW l \in LocksOf(c) PROVE LockRank(l) < LockRank(n)
  <2>1. l[1] # "partner-name"
    BY <1>1, <1>3, <1>6
  <2>2. CASE l \in Invoices!SubmissionGuards(c)
    BY <1>1, <1>2, <1>5, <2>2, GuardRanks, Numbers
  <2>3. CASE l \in G
    <3>1. l = D /\ l[1] = "partner-document" /\ n[1] = "partner-name"
      BY <1>3, <1>4, <1>6, <2>1, <2>3
    <3> QED BY <3>1, Numbers DEF LockRank
  <2> QED BY <1>1, <1>6, <2>2, <2>3
<1> QED BY <1>5, <1>6, Numbers DEF WaitsAbove, n

\* A process that waits for a lock holds only locks of lower rank.
LEMMA EverybodyWaitsAbove ==
    ASSUME IInv, NEW q \in DOMAIN Wanted PROVE WaitsAbove(q, Wanted[q])
<1>1. q \in WaitingTasks \cup WaitingCallers \cup WaitingPartners
  BY DEF Wanted
<1>2. WaitingTasks \cap (WaitingCallers \cup WaitingPartners) = {}
  BY Numbers DEF WaitingTasks, WaitingCallers, WaitingPartners
<1>3. CASE q \in WaitingTasks
  <2>1. Wanted[q] = Ingestion!Locks!NextOf(q, Ingestion!Guards(q))
    BY <1>1, <1>2, <1>3 DEF Wanted
  <2> QED BY <1>3, <2>1, TaskWaitsAbove
<1>4. CASE q \in WaitingCallers
  <2>1. Wanted[q] = Invoices!Locks!NextOf(q, Invoices!SubmissionGuards(q))
    BY <1>1, <1>2, <1>4 DEF Wanted
  <2> QED BY <1>4, <2>1, CallerWaitsAbove
<1>5. CASE q \notin WaitingTasks /\ q \notin WaitingCallers
  <2>1. Wanted[q] = Invoices!NextPartnerLock(q)
    BY <1>1, <1>5 DEF Wanted
  <2> QED BY <1>1, <1>5, <2>1, PartnerWaitsAbove
<1> QED BY <1>3, <1>4, <1>5

\* Of the processes of a set, nobody in it holds what the one waits for that
\* waits for the lock of the highest rank.
LEMMA NoCircle ==
    ASSUME IInv PROVE NoWaitCycle
<1> SUFFICES ASSUME NEW S \in SUBSET DOMAIN Wanted, S # {}
             PROVE  \E p \in S : \A q \in S : <<q, Wanted[p]>> \notin held
  BY DEF NoWaitCycle, Ingestion!Locks!NoCycle
<1> DEFINE Below(p) == (MaxKey + 2) - LockRank(Wanted[p])
           T == {Below(p) : p \in S}
<1>1. \A p \in S : LockRank(Wanted[p]) \in 0..(MaxKey + 2)
  BY EverybodyWaitsAbove DEF WaitsAbove
<1>2. T \subseteq Nat /\ T # {}
  BY <1>1, Numbers
<1>3. PICK x \in T : \A y \in T : <<y, x>> \notin OpToRel(<, Nat)
  <2> HIDE DEF T
  <2> QED BY <1>2, WFMin, NatLessThanWellFounded
<1>4. \A y \in T : ~(y < x)
  <2> HIDE DEF T
  <2> QED BY <1>2, <1>3 DEF OpToRel
<1>5. PICK p \in S : x = Below(p)
  BY <1>3
<1>6. ASSUME NEW q \in S, <<q, Wanted[p]>> \in held PROVE FALSE
  <2>1. Wanted[p] \in LocksOf(q)
    BY <1>6, LocksMember
  <2>2. LockRank(Wanted[p]) < LockRank(Wanted[q])
    BY <2>1, EverybodyWaitsAbove DEF WaitsAbove
  <2>3. Below(q) < Below(p)
    BY <1>1, <2>2, Numbers
  <2> QED BY <1>4, <1>5, <2>3
<1> QED BY <1>6

-----------------------------------------------------------------------------
(* What the invariant says of the system.                                  *)

\* Who has found neither UID nor content among the rows finds none at the insert.
LEMMA FreshFromRows ==
    ASSUME IInv PROVE FreshUnderLocks
<1>1. ASSUME NEW t \in Tasks, Ingestion!At(t, "insert") PROVE Ingestion!Duplicates(t) = {}
  BY <1>1 DEF IInv, RowInv, TaskFresh, Ingestion!At, Ingestion!Duplicates
<1>2. ASSUME NEW c \in Callers, Invoices!At(c, "insert")
      PROVE  /\ Invoices!Matches(c) = {}
             /\ \/ request[c].partner \in partners \cup {NoPartner}
                \/ Invoices!Known(request[c].partner) = {}
  BY <1>2 DEF IInv, RowInv, CallerFresh, Invoices!At
<1> QED BY <1>1, <1>2 DEF FreshUnderLocks

LEMMA HandedOnFromRows ==
    ASSUME IInv PROVE SucceededIsHandedOn
<1> SUFFICES ASSUME NEW t \in Tasks, job[t].pc = "SUCCEEDED"
             PROVE  \E r \in mails : /\ r.key = SourceOf(t).key \/ r.content = SourceOf(t).content
                                     /\ r.content \in classify
  BY DEF SucceededIsHandedOn, Ingestion!At
<1> QED BY DEF IInv, RowInv, Found

LEMMA AnswersFromRows ==
    ASSUME IInv PROVE AnswersMatch
<1> SUFFICES ASSUME NEW c \in Callers, request[c].pc \in {"created", "duplicate"}
             PROVE  /\ request[c].found = request[c].content
                    /\ request[c].found \in selection
                    /\ \E s \in submissions : s.content = request[c].content
  BY DEF AnswersMatch
<1> QED BY DEF IInv, RowInv, Answered

\* The invariant holds in every state of every behaviour.
THEOREM IntakeInvariant == Spec => []IInv
<1>1. Init => IInv
  BY InitIInv
<1>2. IInv /\ [Next]_vars => IInv'
  BY NextInv
<1> QED BY <1>1, <1>2, PTL DEF Spec

\* Every job, request, row, file and lock has its type.
THEOREM IntakeTypeCorrect == Spec => []TypeOK
<1>1. IInv => TypeOK
  BY DEF IInv
<1> QED BY <1>1, IntakeInvariant, PTL

\* Transactions about any mails, submissions and partners, whatever order the
\* keys of their locks have, never wait for one another in a circle.
THEOREM NoWaitCycleHolds == Spec => []NoWaitCycle
<1>1. IInv => NoWaitCycle
  BY NoCircle
<1> QED BY <1>1, IntakeInvariant, PTL

\* Between the search for a duplicate and the insert nobody adds one.
THEOREM FreshUnderLocksHolds == Spec => []FreshUnderLocks
<1>1. IInv => FreshUnderLocks
  BY FreshFromRows
<1> QED BY <1>1, IntakeInvariant, PTL

\* Without a fault the compensations leave exactly the files of rows and of
\* attempts that are still at work.
THEOREM IntakeNothingStraysHolds == Spec => []NothingStrays
<1>1. IInv => NothingStrays
  BY DEF IInv
<1> QED BY <1>1, IntakeInvariant, PTL

\* A compensation deletes files of a row only when the commit of that row, or of
\* the one it shares them with, was never acknowledged.
THEOREM LossNeedsAnUnsureCommitHolds == Spec => []LossNeedsAnUnsureCommit
<1>1. IInv => LossNeedsAnUnsureCommit
  BY DEF IInv
<1> QED BY <1>1, IntakeInvariant, PTL

\* An ingestion that succeeded left a row whose classification is enqueued.
THEOREM SucceededIsHandedOnHolds == Spec => []SucceededIsHandedOn
<1>1. IInv => SucceededIsHandedOn
  BY HandedOnFromRows
<1> QED BY <1>1, IntakeInvariant, PTL

\* A caller that is told "created" or "duplicate" is told of what it sent.
THEOREM AnswersMatchHolds == Spec => []AnswersMatch
<1>1. IInv => AnswersMatch
  BY AnswersFromRows
<1> QED BY <1>1, IntakeInvariant, PTL

-----------------------------------------------------------------------------
(* Ingestions implement the ledger of mails.                               *)

SearchInv == \A t \in Tasks : Searching(t)

\* What a label of an ingestion means to the ledger.
Asking(t, stage, verdict, told) ==
    AskOfJob(t) = Inbox!Place(stage, <<SourceOf(t).key, SourceOf(t).content>>, verdict, told)

MeansToInbox(t) ==
    /\ job[t].pc = "queued" => AskOfJob(t) = Inbox!Resting
    /\ job[t].pc = "FAILED" => AskOfJob(t) = Inbox!GivenUp
    /\ job[t].pc \in {"store", "lock", "find", "insert"} => Asking(t, "asked", "none", "none")
    /\ job[t].pc \in {"drop", "enqueue"} /\ job[t].found = "none"
          => Asking(t, "decided", "refused", "none")
    /\ job[t].pc = "drop" /\ job[t].found # "none"
          => Asking(t, "decided", "duplicate", job[t].found)
    /\ job[t].pc = "enqueue" /\ job[t].found # "none" /\ job[t].stored > 0
          => Asking(t, "decided", "created", job[t].found)
    /\ job[t].pc = "enqueue" /\ job[t].found # "none" /\ ~(job[t].stored > 0)
          => Asking(t, "decided", "duplicate", job[t].found)
    /\ job[t].pc = "SUCCEEDED" /\ job[t].found # "none" /\ job[t].stored > 0
          => Asking(t, "answered", "created", job[t].found)
    /\ job[t].pc = "SUCCEEDED" /\ job[t].found # "none" /\ ~(job[t].stored > 0)
          => Asking(t, "answered", "duplicate", job[t].found)

LEMMA InboxMeaning == ASSUME NEW t PROVE MeansToInbox(t) /\ MeansToInbox(t)'
<1>1. MeansToInbox(t)
  BY DEF MeansToInbox, Asking, AskOfJob, StageOfJob, VerdictOfJob, Inbox!Resting,
         Inbox!GivenUp, Inbox!Place
<1>2. MeansToInbox(t)'
  BY DEF MeansToInbox, Asking, AskOfJob, StageOfJob, VerdictOfJob, Inbox!Resting,
         Inbox!GivenUp, Inbox!Place
<1> QED  BY <1>1, <1>2

\* Only t's place in the ledger changes.
LEMMA InboxBecomes ==
    ASSUME NEW t \in Tasks, \A u \in Tasks : u # t => job'[u] = job[u],
           NEW r, AskOfJob(t)' = r
    PROVE  Inbox!Become(t, r)
<1>1. \A u \in Tasks : u # t => AskOfJob(u)' = AskOfJob(u)
  BY DEF AskOfJob, StageOfJob, VerdictOfJob
<1> QED  BY <1>1 DEF Inbox!Become

LEMMA InboxStays ==
    ASSUME NEW t \in Tasks, \A u \in Tasks : u # t => job'[u] = job[u],
           AskOfJob(t)' = AskOfJob(t), mails' = mails, classify' = classify
    PROVE  UNCHANGED Inbox!vars
<1>1. \A u \in Tasks : AskOfJob(u)' = AskOfJob(u)
  BY DEF AskOfJob, StageOfJob, VerdictOfJob
<1> QED  BY <1>1 DEF Inbox!vars

\* An asker that gives up, from whatever label of an attempt.
LEMMA InboxGivesUp ==
    ASSUME NEW t \in Tasks, \A u \in Tasks : u # t => job'[u] = job[u],
           job[t].pc \in Ingestion!Labels \ {"SUCCEEDED", "FAILED"},
           job'[t].pc \in {"queued", "FAILED"}, mails' = mails, classify' = classify
    PROVE  Inbox!GiveUp(t)
<1>1. AskOfJob(t).stage \notin {"answered", "failed"}
  BY DEF AskOfJob, StageOfJob, VerdictOfJob, Ingestion!Labels
<1>2. PICK r \in {Inbox!Resting, Inbox!GivenUp} : AskOfJob(t)' = r
  BY InboxMeaning DEF MeansToInbox
<1>3. Inbox!Become(t, r)
  BY <1>2, InboxBecomes
<1> QED  BY <1>1, <1>2, <1>3 DEF Inbox!GiveUp

\* The decision of a searching attempt.
LEMMA InboxDecides ==
    ASSUME NEW t \in Tasks, \A u \in Tasks : u # t => job'[u] = job[u],
           job[t].pc \in {"store", "lock", "find", "insert"}, NEW v, NEW told,
           Asking(t, "decided", v, told)'
    PROVE  Inbox!Decide(t, v, told)
<1>1. Asking(t, "asked", "none", "none")
  BY InboxMeaning DEF MeansToInbox
<1>2. AskOfJob(t)' = Inbox!Place("decided", AskOfJob(t).wish, v, told)
  BY <1>1 DEF Asking, Inbox!Place
<1> QED  BY <1>2, InboxBecomes DEF Inbox!Decide

\* The row of t is its wish.
LEMMA InboxEntries ==
    ASSUME NEW t \in Tasks, mails' = mails \cup {Ingestion!NewRow(t)}
    PROVE  {<<r.key, r.content>> : r \in mails'} =
              {<<r.key, r.content>> : r \in mails} \cup {<<SourceOf(t).key, SourceOf(t).content>>}
<1>1. Ingestion!NewRow(t).key = SourceOf(t).key /\ Ingestion!NewRow(t).content = SourceOf(t).content
  BY DEF Ingestion!NewRow
<1> QED  BY <1>1

LEMMA InboxEnters ==
    ASSUME IInv, NEW t \in Tasks, \A u \in Tasks : u # t => job'[u] = job[u],
           job[t].pc = "insert", mails' = mails \cup {Ingestion!NewRow(t)}, classify' = classify,
           \/ Asking(t, "decided", "created", SourceOf(t).content)'
           \/ Asking(t, "decided", "refused", "none")'
    PROVE  Inbox!Enter(t)
<1> DEFINE wish == <<SourceOf(t).key, SourceOf(t).content>>
<1>1. AskOfJob(t).stage = "asked" /\ AskOfJob(t).wish = wish
  BY InboxMeaning DEF MeansToInbox, Asking, Inbox!Place
<1>2. ASSUME NEW e \in {<<r.key, r.content>> : r \in mails} PROVE ~Inbox!Alike(e, wish)
  <2>1. PICK r \in mails : e = <<r.key, r.content>>
    OBVIOUS
  <2>2. r.key # SourceOf(t).key /\ r.content # SourceOf(t).content
    BY DEF IInv, RowInv, TaskFresh
  <2> QED  BY <2>1, <2>2 DEF Inbox!Alike
<1>3. \/ Inbox!Decide(t, "created", wish[2])
      \/ Inbox!Decide(t, "refused", "none")
  BY InboxDecides
<1>4. {<<r.key, r.content>> : r \in mails'} = {<<r.key, r.content>> : r \in mails} \cup {wish}
  BY InboxEntries
<1> HIDE DEF wish
<1> QED  BY <1>1, <1>2, <1>3, <1>4 DEF Inbox!Enter

\* Each step of an ingestion is one of the ledger, or nobody sees it.
LEMMA InboxTaskStep ==
    ASSUME IInv, SearchInv, NEW t \in Tasks, TaskStep(t)
    PROVE  Inbox!Next \/ UNCHANGED Inbox!vars
<1>0. MeansToInbox(t) /\ MeansToInbox(t)' /\ Searching(t) /\ job[t].pc \in Ingestion!Labels
  BY InboxMeaning, JobTypes DEF SearchInv, IInv
<1>1. CASE Ingestion!Fetch(t)
  <2>1. PICK l \in {"store", "queued", "FAILED"} : JobIs(t, l, job[t].tries + 1, 0, "none")
    BY <1>1, FetchEffect
  <2>2. /\ job[t].pc = "queued" /\ mails' = mails /\ classify' = classify
        /\ job'[t].pc = l /\ \A u \in Tasks : u # t => job'[u] = job[u]
    BY <1>1, <2>1, FetchEffect DEF JobIs
  <2>3. CASE l = "store"
    <3> DEFINE r == Inbox!Place("asked", <<SourceOf(t).key, SourceOf(t).content>>, "none", "none")
    <3>1. AskOfJob(t) = Inbox!Resting /\ AskOfJob(t)' = r
      BY <1>0, <2>2, <2>3 DEF MeansToInbox, Asking, Inbox!Place
    <3>2. Inbox!Become(t, r)
      BY <2>2, <3>1, InboxBecomes
    <3>3. r.wish \in Inbox!Entry /\ r = Inbox!Place("asked", r.wish, "none", "none")
      BY GuardKeys DEF Inbox!Entry, Inbox!Place
    <3>4. AskOfJob(t).stage = "idle"
      BY <3>1 DEF Inbox!Resting, Inbox!Place
    <3> HIDE DEF r
    <3>5. Inbox!Ask(t)
      BY <2>2, <3>1, <3>2, <3>3, <3>4 DEF Inbox!Ask
    <3> QED  BY <3>5 DEF Inbox!Next
  <2>4. CASE l # "store"
    <3>1. Inbox!GiveUp(t)
      BY <2>2, <2>4, InboxGivesUp DEF Ingestion!Labels
    <3> QED  BY <3>1 DEF Inbox!Next
  <2> QED  BY <2>3, <2>4
<1>2. CASE Ingestion!Store(t) \/ Ingestion!Lock(t)
  <2>1. /\ job[t].pc \in {"store", "lock"} /\ job'[t].pc \in {"store", "lock", "find"}
        /\ mails' = mails /\ classify' = classify
        /\ \A u \in Tasks : u # t => job'[u] = job[u]
    BY <1>2, StoreEffect, LockEffect DEF JobIs
  <2>2. AskOfJob(t)' = AskOfJob(t)
    BY <1>0, <2>1 DEF MeansToInbox, Asking, Inbox!Place
  <2> QED  BY <2>1, <2>2, InboxStays
<1>3. CASE Ingestion!Refuse(t) \/ Ingestion!Clash(t) \/ Ingestion!LoseTransaction(t)
  <2>1. /\ job[t].pc \in {"store", "lock", "find", "insert"}
        /\ mails' = mails /\ classify' = classify
        /\ job'[t].pc = "drop" /\ job'[t].found = job[t].found
        /\ \A u \in Tasks : u # t => job'[u] = job[u]
    BY <1>3, RefuseEffect, ClashEffect, LoseTransactionEffect DEF JobIs
  <2>2. AskOfJob(t).stage = "asked" /\ Asking(t, "decided", "refused", "none")'
    BY <1>0, <2>1 DEF MeansToInbox, Asking, Searching, Inbox!Place
  <2>3. Inbox!Refuse(t)
    BY <2>1, <2>2, InboxDecides DEF Inbox!Refuse
  <2> QED  BY <2>3 DEF Inbox!Next
<1>4. CASE Ingestion!Find(t)
  <2>1. job[t].pc = "find" /\ mails' = mails /\ classify' = classify
    BY <1>4, FindEffect
  <2>2. CASE JobIs(t, "insert", job[t].tries, job[t].stored, job[t].found)
    <3>1. job'[t].pc = "insert" /\ \A u \in Tasks : u # t => job'[u] = job[u]
      BY <2>2 DEF JobIs
    <3>2. AskOfJob(t)' = AskOfJob(t)
      BY <1>0, <2>1, <3>1 DEF MeansToInbox, Asking, Inbox!Place
    <3> QED  BY <2>1, <3>1, <3>2, InboxStays
  <2>3. ASSUME NEW r \in mails, r.key = SourceOf(t).key \/ r.content = SourceOf(t).content,
               JobIs(t, "drop", job[t].tries, job[t].stored, r.content)
        PROVE  Inbox!Recognise(t)
    <3>1. /\ job'[t].pc = "drop" /\ job'[t].found = r.content
          /\ \A u \in Tasks : u # t => job'[u] = job[u]
      BY <2>3 DEF JobIs
    <3>2. r.content # "none"
      BY RowTypes, Numbers DEF IInv
    <3>3. AskOfJob(t).stage = "asked" /\ Asking(t, "decided", "duplicate", r.content)'
      BY <1>0, <2>1, <3>1, <3>2 DEF MeansToInbox, Asking, Inbox!Place
    <3>4. AskOfJob(t).wish = <<SourceOf(t).key, SourceOf(t).content>>
      BY <1>0, <2>1 DEF MeansToInbox, Asking, Inbox!Place
    <3>5. Inbox!Decide(t, "duplicate", r.content)
      BY <2>1, <3>1, <3>3, InboxDecides
    <3>6. /\ <<r.key, r.content>> \in {<<q.key, q.content>> : q \in mails}
          /\ Inbox!Same(<<r.key, r.content>>, AskOfJob(t).wish)
      BY <2>3, <3>4 DEF Inbox!Same
    <3> QED  BY <2>1, <3>3, <3>5, <3>6 DEF Inbox!Recognise
  <2> QED  BY <1>4, <2>2, <2>3, FindEffect DEF Inbox!Next
<1>5. CASE Ingestion!Insert(t)
  <2>1. /\ job[t].pc = "insert" /\ job'[t].pc = "enqueue"
        /\ job'[t].stored = job[t].stored /\ job'[t].found = SourceOf(t).content
        /\ \A u \in Tasks : u # t => job'[u] = job[u]
        /\ mails' = mails \cup {Ingestion!NewRow(t)} /\ classify' = classify
    BY <1>5, InsertEffect DEF JobIs
  <2>2. job'[t].stored > 0 /\ job'[t].found # "none"
    BY <1>0, <2>1, GuardKeys, Numbers DEF Searching
  <2>3. Asking(t, "decided", "created", SourceOf(t).content)'
    BY <1>0, <2>1, <2>2 DEF MeansToInbox, Asking, Inbox!Place
  <2>4. Inbox!Enter(t)
    BY <2>1, <2>3, InboxEnters
  <2> QED  BY <2>4 DEF Inbox!Next
<1>6. CASE Ingestion!LoseCommit(t)
  <2>1. /\ job[t].pc = "insert" /\ job'[t].pc = "drop" /\ job'[t].found = job[t].found
        /\ \A u \in Tasks : u # t => job'[u] = job[u]
        /\ mails' = mails \cup {Ingestion!NewRow(t)} /\ classify' = classify
    BY <1>6, LoseCommitEffect DEF JobIs
  <2>2. Asking(t, "decided", "refused", "none")'
    BY <1>0, <2>1 DEF MeansToInbox, Asking, Searching, Inbox!Place
  <2>3. Inbox!Enter(t)
    BY <2>1, <2>2, InboxEnters
  <2> QED  BY <2>3 DEF Inbox!Next
<1>7. CASE Ingestion!Drop(t)
  <2>1. job[t].pc = "drop" /\ mails' = mails /\ classify' = classify
    BY <1>7, DropEffect
  <2>2. /\ job'[t].found = job[t].found /\ \A u \in Tasks : u # t => job'[u] = job[u]
        /\ \/ job'[t].pc = "drop"
           \/ job'[t].pc = Ingestion!Failed(t) /\ job[t].found = "none"
           \/ job'[t].pc = "enqueue" /\ job[t].found # "none" /\ job'[t].stored = 0
    BY <1>7, DropEffect DEF JobIs
  <2>3. CASE job'[t].pc = "drop"
    <3>1. AskOfJob(t)' = AskOfJob(t)
      BY <1>0, <2>1, <2>2, <2>3 DEF MeansToInbox, Asking, Inbox!Place
    <3> QED  BY <2>1, <2>2, <3>1, InboxStays
  <2>4. CASE job'[t].pc = Ingestion!Failed(t) /\ job[t].found = "none"
    <3>1. Inbox!GiveUp(t)
      BY <1>0, <2>1, <2>2, <2>4, FailedLabel, InboxGivesUp
    <3> QED  BY <3>1 DEF Inbox!Next
  <2>5. CASE job'[t].pc = "enqueue" /\ job[t].found # "none" /\ job'[t].stored = 0
    <3>1. AskOfJob(t)' = AskOfJob(t)
      BY <1>0, <2>1, <2>2, <2>5 DEF MeansToInbox, Asking, Inbox!Place
    <3> QED  BY <2>1, <2>2, <3>1, InboxStays
  <2> QED  BY <2>2, <2>3, <2>4, <2>5
<1>8. CASE Ingestion!Enqueue(t)
  <2>1. /\ job[t].pc = "enqueue" /\ job'[t].pc = "SUCCEEDED" /\ mails' = mails
        /\ classify' = classify \cup {job[t].found}
        /\ job'[t].found = job[t].found /\ job'[t].stored = job[t].stored
        /\ \A u \in Tasks : u # t => job'[u] = job[u]
    BY <1>8, EnqueueEffect DEF JobIs
  <2>2. job[t].found # "none"
    BY <2>1 DEF IInv, RowInv, Found
  <2>3. PICK v \in {"created", "duplicate"} : /\ Asking(t, "decided", v, job[t].found)
                                              /\ Asking(t, "answered", v, job[t].found)'
    BY <1>0, <2>1, <2>2 DEF MeansToInbox, Asking, Inbox!Place
  <2>4. /\ AskOfJob(t).stage = "decided" /\ AskOfJob(t).verdict = v
        /\ AskOfJob(t).told = job[t].found
        /\ AskOfJob(t)' = [AskOfJob(t) EXCEPT !.stage = "answered"]
    BY <2>1, <2>3 DEF Asking, Inbox!Place
  <2>5. Inbox!Become(t, [AskOfJob(t) EXCEPT !.stage = "answered"])
    BY <2>1, <2>4, InboxBecomes
  <2>6. Inbox!HandOn(t)
    BY <2>1, <2>4, <2>5 DEF Inbox!HandOn
  <2> QED  BY <2>6 DEF Inbox!Next
<1>9. CASE Ingestion!Break(t)
  <2>1. /\ job[t].pc \notin {"SUCCEEDED", "FAILED"} /\ job'[t].pc = Ingestion!Failed(t)
        /\ mails' = mails /\ classify' = classify
        /\ \A u \in Tasks : u # t => job'[u] = job[u]
    BY <1>9, BreakEffect DEF JobIs
  <2>2. Inbox!GiveUp(t)
    BY <1>0, <2>1, FailedLabel, InboxGivesUp
  <2> QED  BY <2>2 DEF Inbox!Next
<1> QED  BY <1>1, <1>2, <1>3, <1>4, <1>5, <1>6, <1>7, <1>8, <1>9 DEF TaskStep, Ingestion!Progress

\* Where a mail lies is nothing to the ledger.
LEMMA FollowMoveUnseen ==
    ASSUME IInv, NEW r \in mails, NEW k \in ServerKeys, Ingestion!FollowMove(r, k)
    PROVE  UNCHANGED Inbox!vars
<1> DEFINE q == [r EXCEPT !.place = k]
<1>1. /\ mails' = (mails \ {r}) \cup {q} /\ classify' = classify /\ job' = job
      /\ q.key = r.key /\ q.content = r.content
  BY RowTypes DEF Ingestion!FollowMove, Ingestion!Row, IInv
<1> HIDE DEF q
<1>2. {<<m.key, m.content>> : m \in mails'} = {<<m.key, m.content>> : m \in mails}
  BY <1>1
<1>3. \A u \in Tasks : AskOfJob(u)' = AskOfJob(u)
  BY <1>1 DEF AskOfJob, StageOfJob, VerdictOfJob
<1> QED  BY <1>1, <1>2, <1>3 DEF Inbox!vars

\* The steps of one ingestion keep SearchInv, and nobody else touches a job.
LEMMA TaskStepSearch ==
    ASSUME IInv, SearchInv, NEW t \in Tasks, TaskStep(t)
    PROVE  SearchInv'
<1>0. Searching(t) /\ job[t].stored \in 0..Parts
  BY JobTypes DEF SearchInv, IInv
<1>1. \A u \in Tasks : u # t => job'[u] = job[u]
  BY TaskStepReach DEF TaskReach
<1>2. Searching(t)'
  <2>1. CASE Ingestion!Store(t)
    <3>1. /\ job[t].pc = "store" /\ job'[t].found = job[t].found
          /\ job'[t].stored = job[t].stored + 1
      BY <2>1, StoreEffect DEF JobIs
    <3>2. job[t].found = "none" /\ job[t].stored + 1 > 0
      BY <1>0, <3>1, Numbers DEF Searching
    <3> QED  BY <3>1, <3>2 DEF Searching
  <2>2. CASE Ingestion!Fetch(t)
    BY <2>2, FetchEffect DEF JobIs, Searching
  <2>3. CASE Ingestion!Lock(t)
    BY <1>0, <2>3, LockEffect DEF JobIs, Searching
  <2>4. CASE Ingestion!Find(t)
    BY <1>0, <2>4, FindEffect DEF JobIs, Searching
  <2>5. CASE \/ Ingestion!Refuse(t) \/ Ingestion!Clash(t) \/ Ingestion!LoseTransaction(t)
             \/ Ingestion!LoseCommit(t)
    BY <2>5, RefuseEffect, ClashEffect, LoseTransactionEffect, LoseCommitEffect
       DEF JobIs, Searching
  <2>6. CASE Ingestion!Insert(t) \/ Ingestion!Enqueue(t)
    BY <2>6, InsertEffect, EnqueueEffect DEF JobIs, Searching
  <2>7. CASE Ingestion!Drop(t) \/ Ingestion!Break(t)
    <3>1. job'[t].pc \in {"drop", "enqueue", "queued", "FAILED"}
      BY <2>7, DropEffect, BreakEffect, FailedLabel DEF JobIs
    <3> QED  BY <3>1 DEF Searching
  <2> QED  BY <2>1, <2>2, <2>3, <2>4, <2>5, <2>6, <2>7 DEF TaskStep, Ingestion!Progress
<1>3. \A u \in Tasks : u # t => Searching(u)'
  BY <1>1 DEF SearchInv, Searching
<1> QED  BY <1>2, <1>3 DEF SearchInv

LEMMA SearchStays == ASSUME SearchInv, job' = job PROVE SearchInv'
BY DEF SearchInv, Searching

-----------------------------------------------------------------------------
(* Submissions implement the ledger of invoices.                           *)

AskingFor(c, stage, verdict, told) ==
    AskOfRequest(c) =
       Register!Place(stage, <<request[c].key, request[c].content>>, verdict, told)

MeansToRegister(c) ==
    /\ request[c].pc = "idle" => AskOfRequest(c) = Register!Resting
    /\ request[c].pc = "error" => AskOfRequest(c) = Register!GivenUp
    /\ request[c].pc \in {"store", "lock", "find", "partner", "insert"}
          => AskingFor(c, "asked", "none", "none")
    /\ request[c].pc \in {"drop", "enqueue"} /\ request[c].outcome \in {"created", "duplicate"}
          => AskingFor(c, "decided", request[c].outcome, request[c].found)
    /\ request[c].pc = "drop" /\ request[c].outcome = "rejected"
          => AskingFor(c, "decided", "refused", "none")
    /\ request[c].pc = "drop" /\ request[c].outcome = "conflict"
          => AskingFor(c, "decided", "conflict", "none")
    /\ request[c].pc \in {"created", "duplicate"}
          => AskingFor(c, "answered", request[c].pc, request[c].found)
    /\ request[c].pc = "rejected" => AskingFor(c, "answered", "refused", "none")
    /\ request[c].pc = "conflict" => AskingFor(c, "answered", "conflict", "none")

LEMMA RegisterMeaning == ASSUME NEW c PROVE MeansToRegister(c) /\ MeansToRegister(c)'
<1>1. MeansToRegister(c)
  BY DEF MeansToRegister, AskingFor, AskOfRequest, StageOfRequest, VerdictOfRequest,
         Register!Resting, Register!GivenUp, Register!Place
<1>2. MeansToRegister(c)'
  BY DEF MeansToRegister, AskingFor, AskOfRequest, StageOfRequest, VerdictOfRequest,
         Register!Resting, Register!GivenUp, Register!Place
<1> QED  BY <1>1, <1>2

\* Only c's place in the ledger changes.
LEMMA RegisterBecomes ==
    ASSUME NEW c \in Callers, \A d \in Callers : d # c => request'[d] = request[d],
           NEW r, AskOfRequest(c)' = r
    PROVE  Register!Become(c, r)
<1>1. \A d \in Callers : d # c => AskOfRequest(d)' = AskOfRequest(d)
  BY DEF AskOfRequest, StageOfRequest, VerdictOfRequest
<1> QED  BY <1>1 DEF Register!Become

LEMMA RegisterStays ==
    ASSUME NEW c \in Callers, \A d \in Callers : d # c => request'[d] = request[d],
           AskOfRequest(c)' = AskOfRequest(c), submissions' = submissions,
           selection' = selection
    PROVE  UNCHANGED Register!vars
<1>1. \A d \in Callers : AskOfRequest(d)' = AskOfRequest(d)
  BY DEF AskOfRequest, StageOfRequest, VerdictOfRequest
<1> QED  BY <1>1 DEF Register!vars

SameWish(c) == request'[c].key = request[c].key /\ request'[c].content = request[c].content

\* The decision about a request at work.
LEMMA RegisterDecides ==
    ASSUME NEW c \in Callers, \A d \in Callers : d # c => request'[d] = request[d],
           request[c].pc \in {"store", "lock", "find", "partner", "insert"}, SameWish(c),
           NEW v, NEW told, AskingFor(c, "decided", v, told)'
    PROVE  Register!Decide(c, v, told)
<1>1. AskOfRequest(c).wish = <<request[c].key, request[c].content>>
  BY RegisterMeaning DEF MeansToRegister, AskingFor, Register!Place
<1>2. AskOfRequest(c)' = Register!Place("decided", AskOfRequest(c).wish, v, told)
  BY <1>1 DEF AskingFor, SameWish
<1> QED  BY <1>2, RegisterBecomes DEF Register!Decide

\* The submission of c is its wish, and it is new.
LEMMA RegisterEntries ==
    ASSUME IInv, NEW c \in Callers, request[c].pc = "insert",
           submissions' = submissions \cup {SubmissionOf(c)}
    PROVE  LET wish == <<request[c].key, request[c].content>>
               E    == {<<s.key, s.content>> : s \in submissions}
           IN  /\ {<<s.key, s.content>> : s \in submissions'} = E \cup {wish}
               /\ \A e \in E : ~Register!Alike(e, wish)
<1> DEFINE wish == <<request[c].key, request[c].content>>
           E    == {<<s.key, s.content>> : s \in submissions}
<1>1. SubmissionOf(c).key = request[c].key /\ SubmissionOf(c).content = request[c].content
  BY DEF SubmissionOf
<1>2. {<<s.key, s.content>> : s \in submissions'} = E \cup {wish}
  BY <1>1
<1>3. ASSUME NEW e \in E PROVE ~Register!Alike(e, wish)
  <2>1. PICK s \in submissions : e = <<s.key, s.content>>
    OBVIOUS
  <2>2. s.key # request[c].key /\ s.content # request[c].content
    BY DEF IInv, RowInv, CallerFresh, Invoices!Matches, Invoices!Content
  <2> QED  BY <2>1, <2>2 DEF Register!Alike
<1> QED  BY <1>2, <1>3

LEMMA RegisterAsks ==
    ASSUME NEW c \in Callers, \A d \in Callers : d # c => request'[d] = request[d],
           request[c].pc = "idle", request'[c].pc \in {"store", "lock"},
           request'[c].key \in Keys, request'[c].content \in Contents,
           submissions' = submissions, selection' = selection
    PROVE  Register!Ask(c)
<1> DEFINE r == Register!Place("asked", <<request'[c].key, request'[c].content>>, "none", "none")
<1>1. AskOfRequest(c) = Register!Resting /\ AskOfRequest(c)' = r
  BY RegisterMeaning DEF MeansToRegister, AskingFor
<1>2. Register!Become(c, r)
  BY <1>1, RegisterBecomes
<1>3. r.wish \in Register!Entry /\ r = Register!Place("asked", r.wish, "none", "none")
  BY DEF Register!Entry, Register!Place
<1>4. AskOfRequest(c).stage = "idle"
  BY <1>1 DEF Register!Resting, Register!Place
<1> HIDE DEF r
<1> QED  BY <1>1, <1>2, <1>3, <1>4 DEF Register!Ask

\* Each step of a submission is one of the ledger, or nobody sees it.
LEMMA RegisterCallerStep ==
    ASSUME IInv, NEW c \in Callers, CallerStep(c)
    PROVE  Register!Next \/ UNCHANGED Register!vars
<1>0. MeansToRegister(c) /\ MeansToRegister(c)' /\ request[c].pc \in Invoices!Labels
  BY RegisterMeaning, RequestTypes DEF IInv
<1>1. CASE Invoices!Arrive(c) \/ Invoices!Import(c)
  <2>1. /\ request[c].pc = "idle" /\ request'[c].pc \in {"store", "lock"}
        /\ request'[c].key \in Keys /\ request'[c].content \in Contents
        /\ submissions' = submissions /\ selection' = selection
        /\ \A d \in Callers : d # c => request'[d] = request[d]
    <3>1. \A m \in mails : m.content \in Contents
      BY RowTypes DEF IInv
    <3>2. CASE Invoices!Arrive(c)
      BY <3>2, ArriveEffect DEF RequestIs
    <3>3. CASE Invoices!Import(c)
      BY <3>1, <3>3, ImportEffect DEF RequestIs
    <3> QED  BY <1>1, <3>2, <3>3
  <2>2. Register!Ask(c)
    BY <2>1, RegisterAsks
  <2> QED  BY <2>2 DEF Register!Next
<1>2. CASE \/ Invoices!Store(c) \/ Invoices!Lock(c)
           \/ Invoices!LockPartner(c) \/ Invoices!FindPartner(c)
  <2>1. /\ request[c].pc \in {"store", "lock", "partner"}
        /\ request'[c].pc \in {"store", "lock", "find", "partner", "insert"}
        /\ SameWish(c) /\ submissions' = submissions /\ selection' = selection
        /\ \A d \in Callers : d # c => request'[d] = request[d]
    BY <1>2, CallerStoreEffect, CallerLockEffect, LockPartnerEffect, FindPartnerEffect
       DEF RequestIs, SameWish
  <2>2. AskOfRequest(c)' = AskOfRequest(c)
    BY <1>0, <2>1 DEF MeansToRegister, AskingFor, SameWish
  <2> QED  BY <2>1, <2>2, RegisterStays
<1>3. CASE Invoices!Reject(c)
  <2>1. /\ request[c].pc = "store" /\ request'[c].pc = "drop" /\ request'[c].outcome = "rejected"
        /\ SameWish(c) /\ submissions' = submissions /\ selection' = selection
        /\ \A d \in Callers : d # c => request'[d] = request[d]
    BY <1>3, RejectEffect DEF RequestIs, SameWish
  <2>2. AskOfRequest(c).stage = "asked" /\ AskingFor(c, "decided", "refused", "none")'
    BY <1>0, <2>1 DEF MeansToRegister, AskingFor, Register!Place
  <2>3. Register!Refuse(c)
    BY <2>1, <2>2, RegisterDecides DEF Register!Refuse
  <2> QED  BY <2>3 DEF Register!Next
<1>4. CASE Invoices!Find(c)
  <2>1. /\ request[c].pc = "find" /\ submissions' = submissions /\ selection' = selection
        /\ AskOfRequest(c).stage = "asked"
        /\ AskOfRequest(c).wish = <<request[c].key, request[c].content>>
    BY <1>0, <1>4, CallerFindEffect DEF MeansToRegister, AskingFor, Register!Place
  <2>2. ASSUME NEW l \in {"partner", "insert"},
               RequestIs(c, l, request[c].key, request[c].content, request[c].files,
                         request[c].stored, request[c].partner, request[c].found,
                         request[c].outcome)
        PROVE  UNCHANGED Register!vars
    <3>1. /\ request'[c].pc \in {"partner", "insert"} /\ SameWish(c)
          /\ \A d \in Callers : d # c => request'[d] = request[d]
      BY <2>2 DEF RequestIs, SameWish
    <3>2. AskOfRequest(c)' = AskOfRequest(c)
      BY <1>0, <2>1, <3>1 DEF MeansToRegister, AskingFor, SameWish
    <3> QED  BY <2>1, <3>1, <3>2, RegisterStays
  <2>3. ASSUME NEW s \in submissions, s.key = request[c].key, s.content # request[c].content,
               RequestIs(c, "drop", request[c].key, request[c].content, request[c].files,
                         request[c].stored, request[c].partner, "none", "conflict")
        PROVE  Register!Object(c)
    <3>1. /\ request'[c].pc = "drop" /\ request'[c].outcome = "conflict" /\ SameWish(c)
          /\ \A d \in Callers : d # c => request'[d] = request[d]
      BY <2>3 DEF RequestIs, SameWish
    <3>2. AskingFor(c, "decided", "conflict", "none")'
      BY <1>0, <3>1 DEF MeansToRegister
    <3>3. Register!Decide(c, "conflict", "none")
      BY <2>1, <3>1, <3>2, RegisterDecides
    <3> DEFINE e == <<s.key, s.content>>
    <3>4. /\ e \in {<<q.key, q.content>> : q \in submissions}
          /\ e[1] = AskOfRequest(c).wish[1] /\ e[2] # AskOfRequest(c).wish[2]
      BY <2>1, <2>3
    <3> HIDE DEF e
    <3> QED  BY <2>1, <3>3, <3>4 DEF Register!Object
  <2>4. ASSUME NEW s \in submissions, s.content = request[c].content,
               RequestIs(c, "enqueue", request[c].key, request[c].content, request[c].files,
                         request[c].stored, request[c].partner, s.content, "duplicate")
        PROVE  Register!Recognise(c)
    <3>1. /\ request'[c].pc = "enqueue" /\ request'[c].outcome = "duplicate" /\ SameWish(c)
          /\ request'[c].found = s.content
          /\ \A d \in Callers : d # c => request'[d] = request[d]
      BY <2>4 DEF RequestIs, SameWish
    <3>2. AskingFor(c, "decided", "duplicate", s.content)'
      BY <1>0, <3>1 DEF MeansToRegister, AskingFor
    <3>3. Register!Decide(c, "duplicate", s.content)
      BY <2>1, <3>1, <3>2, RegisterDecides
    <3>4. /\ <<s.key, s.content>> \in {<<q.key, q.content>> : q \in submissions}
          /\ Register!Same(<<s.key, s.content>>, AskOfRequest(c).wish)
      BY <2>1, <2>4 DEF Register!Same
    <3> QED  BY <2>1, <3>3, <3>4 DEF Register!Recognise
  <2> QED  BY <1>4, <2>2, <2>3, <2>4, CallerFindEffect DEF Register!Next
<1>5. CASE Invoices!Insert(c)
  <2>1. /\ request[c].pc = "insert" /\ request'[c].pc = "enqueue"
        /\ request'[c].outcome = "created" /\ request'[c].found = request[c].content
        /\ SameWish(c) /\ submissions' = submissions \cup {SubmissionOf(c)}
        /\ selection' = selection
        /\ \A d \in Callers : d # c => request'[d] = request[d]
    BY <1>5, CallerInsertEffect DEF RequestIs, SameWish
  <2>2. /\ AskOfRequest(c).stage = "asked"
        /\ AskOfRequest(c).wish = <<request[c].key, request[c].content>>
        /\ AskOfRequest(c)' = Register!Place("decided", AskOfRequest(c).wish, "created",
                                            AskOfRequest(c).wish[2])
    BY <1>0, <2>1 DEF MeansToRegister, AskingFor, SameWish, Register!Place
  <2>3. Register!Decide(c, "created", AskOfRequest(c).wish[2])
    BY <2>1, <2>2, RegisterBecomes DEF Register!Decide
  <2>4. Register!Enter(c)
    BY <2>1, <2>2, <2>3, RegisterEntries DEF Register!Enter
  <2> QED  BY <2>4 DEF Register!Next
<1>6. CASE Invoices!LoseCommit(c)
  <2>1. /\ request[c].pc = "insert" /\ request'[c].pc = "error"
        /\ submissions' = submissions \cup {SubmissionOf(c)} /\ selection' = selection
        /\ \A d \in Callers : d # c => request'[d] = request[d]
    BY <1>6, CallerLoseCommitEffect DEF RequestIs
  <2>2. /\ AskOfRequest(c).stage = "asked"
        /\ AskOfRequest(c).wish = <<request[c].key, request[c].content>>
        /\ AskOfRequest(c)' = Register!GivenUp
    BY <1>0, <2>1 DEF MeansToRegister, AskingFor, Register!Place
  <2>3. Register!Become(c, Register!GivenUp)
    BY <2>1, <2>2, RegisterBecomes DEF Register!GivenUp
  <2>4. Register!Enter(c)
    BY <2>1, <2>2, <2>3, RegisterEntries DEF Register!Enter
  <2> QED  BY <2>4 DEF Register!Next
<1>7. CASE Invoices!Fail(c)
  <2>1. /\ request[c].pc \notin {"idle"} \cup Invoices!Endings /\ request'[c].pc = "error"
        /\ submissions' = submissions /\ selection' = selection
        /\ \A d \in Callers : d # c => request'[d] = request[d]
    BY <1>7, FailEffect DEF RequestIs
  <2>2. AskOfRequest(c).stage \notin {"answered", "failed"} /\ AskOfRequest(c)' = Register!GivenUp
    BY <1>0, <2>1 DEF MeansToRegister, AskOfRequest, StageOfRequest, VerdictOfRequest,
                      Invoices!Labels, Invoices!Endings
  <2>3. Register!Become(c, Register!GivenUp)
    BY <2>1, <2>2, RegisterBecomes DEF Register!GivenUp
  <2>4. Register!GiveUp(c)
    BY <2>1, <2>2, <2>3 DEF Register!GiveUp
  <2> QED  BY <2>4 DEF Register!Next
<1>8. CASE Invoices!Enqueue(c)
  <2>1. PICK l \in {"drop", "created"} :
             /\ l = "drop" <=> request[c].outcome = "duplicate"
             /\ RequestIs(c, l, request[c].key, request[c].content, request[c].files,
                          request[c].stored, request[c].partner, request[c].found,
                          request[c].outcome)
    BY <1>8, CallerEnqueueEffect
  <2>2. /\ request[c].pc = "enqueue" /\ request'[c].pc = l
        /\ request'[c].found = request[c].found /\ request'[c].outcome = request[c].outcome
        /\ SameWish(c) /\ submissions' = submissions
        /\ selection' = selection \cup {request[c].found}
        /\ \A d \in Callers : d # c => request'[d] = request[d]
    BY <1>8, <2>1, CallerEnqueueEffect DEF RequestIs, SameWish
  <2>3. /\ request[c].outcome \in {"created", "duplicate"}
        /\ l = "created" => request[c].outcome = "created"
    BY <2>1, <2>2 DEF IInv, RowInv, Answered
  <2> DEFINE s == IF l = "drop" THEN "decided" ELSE "answered"
  <2>4. /\ AskingFor(c, "decided", request[c].outcome, request[c].found)
        /\ AskingFor(c, s, request[c].outcome, request[c].found)'
    BY <1>0, <2>1, <2>2, <2>3 DEF MeansToRegister, AskingFor
  <2>5. s \in {"decided", "answered"}
    OBVIOUS
  <2> HIDE DEF s
  <2>6. /\ AskOfRequest(c).stage = "decided"
        /\ AskOfRequest(c).verdict \in {"created", "duplicate"}
        /\ AskOfRequest(c).told = request[c].found
        /\ AskOfRequest(c)' = [AskOfRequest(c) EXCEPT !.stage = s]
    BY <2>2, <2>3, <2>4 DEF AskingFor, SameWish, Register!Place
  <2>7. Register!Become(c, [AskOfRequest(c) EXCEPT !.stage = s])
    BY <2>2, <2>6, RegisterBecomes
  <2>8. Register!HandOn(c)
    BY <2>2, <2>5, <2>6, <2>7 DEF Register!HandOn
  <2> QED  BY <2>8 DEF Register!Next
<1>9. CASE Invoices!Drop(c)
  <2>1. /\ request[c].pc = "drop" /\ submissions' = submissions /\ selection' = selection
        /\ request[c].outcome \in {"rejected", "conflict", "duplicate"}
    BY <1>9, CallerDropEffect DEF IInv, RowInv, Answered
  <2>2. /\ request'[c].pc = "drop" \/ request'[c].pc = request[c].outcome
        /\ request'[c].found = request[c].found /\ request'[c].outcome = request[c].outcome
        /\ SameWish(c)
        /\ \A d \in Callers : d # c => request'[d] = request[d]
    BY <1>9, CallerDropEffect DEF RequestIs, SameWish
  <2>3. CASE request'[c].pc = "drop"
    <3>1. AskOfRequest(c)' = AskOfRequest(c)
      BY <1>0, <2>1, <2>2, <2>3 DEF MeansToRegister, AskingFor, SameWish
    <3> QED  BY <2>1, <2>2, <3>1, RegisterStays
  <2>4. CASE request'[c].pc = request[c].outcome
    <3>1. PICK v, told :
               /\ AskingFor(c, "decided", v, told) /\ AskingFor(c, "answered", v, told)'
               /\ v \in {"created", "duplicate"} => v = "duplicate" /\ told = request[c].found
               /\ v = "duplicate" => request[c].outcome = "duplicate"
      BY <1>0, <2>1, <2>2, <2>4 DEF MeansToRegister, AskingFor
    <3>2. v \in {"created", "duplicate"} => told \in selection
      BY <2>1, <3>1 DEF IInv, RowInv, Answered
    <3>3. /\ AskOfRequest(c).stage = "decided" /\ AskOfRequest(c).verdict = v
          /\ AskOfRequest(c).told = told
          /\ AskOfRequest(c)' = [AskOfRequest(c) EXCEPT !.stage = "answered"]
      BY <2>2, <3>1 DEF AskingFor, SameWish, Register!Place
    <3>4. Register!Become(c, [AskOfRequest(c) EXCEPT !.stage = "answered"])
      BY <2>2, <3>3, RegisterBecomes
    <3>5. Register!Answer(c)
      BY <2>1, <3>2, <3>3, <3>4 DEF Register!Answer
    <3> QED  BY <3>5 DEF Register!Next
  <2> QED  BY <2>2, <2>3, <2>4
<1> QED  BY <1>1, <1>2, <1>3, <1>4, <1>5, <1>6, <1>7, <1>8, <1>9 DEF CallerStep, Invoices!Progress
-----------------------------------------------------------------------------
(* The refinement itself.                                                  *)

\* Nobody has asked for anything yet.
LEMMA LedgersInit == Init => Inbox!Init /\ Register!Init /\ SearchInv
<1> SUFFICES ASSUME Init PROVE Inbox!Init /\ Register!Init /\ SearchInv
  OBVIOUS
<1>1. /\ mails = {} /\ classify = {} /\ submissions = {} /\ selection = {}
      /\ \A t \in Tasks : job[t].pc = "queued"
      /\ \A c \in Callers : request[c].pc = "idle"
  BY DEF Init, Ingestion!Init, Invoices!Init, Invoices!Resting, Invoices!Callers, Callers
<1>2. \A t \in Tasks : AskOfJob(t) = Inbox!Resting
  BY <1>1, InboxMeaning DEF MeansToInbox
<1>3. \A c \in Callers : AskOfRequest(c) = Register!Resting
  BY <1>1, RegisterMeaning DEF MeansToRegister
<1>4. Inbox!Init
  BY <1>1, <1>2 DEF Inbox!Init
<1>5. Register!Init
  BY <1>1, <1>3 DEF Register!Init
<1>6. SearchInv
  BY <1>1 DEF SearchInv, Searching
<1> QED  BY <1>4, <1>5, <1>6

\* Whoever leaves the mails, or the submissions, alone is not seen there.
LEMMA InboxUnseen ==
    ASSUME mails' = mails, classify' = classify, job' = job
    PROVE  UNCHANGED Inbox!vars
<1>1. \A t \in Tasks : AskOfJob(t)' = AskOfJob(t)
  BY DEF AskOfJob, StageOfJob, VerdictOfJob
<1> QED  BY <1>1 DEF Inbox!vars

LEMMA RegisterUnseen ==
    ASSUME submissions' = submissions, selection' = selection, request' = request
    PROVE  UNCHANGED Register!vars
<1>1. \A c \in Callers : AskOfRequest(c)' = AskOfRequest(c)
  BY DEF AskOfRequest, StageOfRequest, VerdictOfRequest
<1> QED  BY <1>1 DEF Register!vars

\* Every step is one of each ledger, or unseen there.
LEMMA LedgersStep ==
    IInv /\ SearchInv /\ [Next]_vars
       => /\ SearchInv'
          /\ [Inbox!Next]_(Inbox!vars)
          /\ [Register!Next]_(Register!vars)
<1> SUFFICES ASSUME IInv, SearchInv, [Next]_vars
             PROVE  /\ SearchInv'
                    /\ Inbox!Next \/ UNCHANGED Inbox!vars
                    /\ Register!Next \/ UNCHANGED Register!vars
  OBVIOUS
<1>1. CASE Ingest(Ingestion!Next)
  <2>1. Ingestion!Next /\ Untouched
    BY <1>1 DEF Ingest, Untouched
  <2>2. UNCHANGED Register!vars
    BY <2>1, RegisterUnseen DEF Untouched
  <2>3. ASSUME NEW t \in Tasks, TaskStep(t)
        PROVE  SearchInv' /\ (Inbox!Next \/ UNCHANGED Inbox!vars)
    BY <2>3, TaskStepSearch, InboxTaskStep
  <2>4. ASSUME NEW r \in mails, NEW k \in ServerKeys, Ingestion!FollowMove(r, k)
        PROVE  SearchInv' /\ UNCHANGED Inbox!vars
    <3>1. job' = job
      BY <2>4 DEF Ingestion!FollowMove
    <3> QED  BY <2>4, <3>1, FollowMoveUnseen, SearchStays
  <2>5. \/ \E t \in Tasks : TaskStep(t)
        \/ \E r \in mails, k \in ServerKeys : Ingestion!FollowMove(r, k)
    BY <2>1 DEF Ingestion!Next, TaskStep
  <2> QED  BY <2>2, <2>3, <2>4, <2>5
<1>2. CASE Submit(Invoices!Next)
  <2>1. PICK c \in Callers : CallerStep(c)
    BY <1>2 DEF Submit, Invoices!Next, Invoices!Callers, Callers, CallerStep
  <2>2. mails' = mails /\ classify' = classify /\ job' = job
    BY <1>2, <2>1, CallersLeaveMails DEF Submit
  <2>3. UNCHANGED Inbox!vars
    BY <2>2, InboxUnseen
  <2> QED  BY <2>1, <2>2, <2>3, RegisterCallerStep, SearchStays
<1>3. CASE UNCHANGED vars
  BY <1>3, InboxUnseen, RegisterUnseen, SearchStays DEF vars
<1> QED  BY <1>1, <1>2, <1>3 DEF Next

\* Both doors keep what Ledger promises: search and insert are one step for
\* everybody else, although they lock, query, store, fail and repeat in many.
THEOREM LedgerRefinement == Spec => ImplementsLedgers
<1>1. Init => Inbox!Init /\ Register!Init /\ SearchInv
  BY LedgersInit
<1>2. IInv /\ SearchInv /\ [Next]_vars
         => SearchInv' /\ [Inbox!Next]_(Inbox!vars) /\ [Register!Next]_(Register!vars)
  BY LedgersStep
<1> QED  BY <1>1, <1>2, IntakeInvariant, PTL DEF Spec, ImplementsLedgers, Inbox!Spec, Register!Spec

-----------------------------------------------------------------------------
(* What the ledgers promise, for whoever uses the two doors: the theorems  *)
(* of LedgerProofs, carried over.                                          *)

InboxTheorems == INSTANCE LedgerProofs WITH
                    Askers <- Tasks, Keys <- ServerKeys, Contents <- Fingerprints,
                    KeyIsName <- TRUE,
                    entries <- {<<r.key, r.content>> : r \in mails}, handed <- classify,
                    ask <- [t \in Tasks |-> AskOfJob(t)]

RegisterTheorems == INSTANCE LedgerProofs WITH
                       Askers <- Callers, Keys <- Keys, Contents <- Contents,
                       KeyIsName <- FALSE,
                       entries <- {<<s.key, s.content>> : s \in submissions},
                       handed <- selection, ask <- [c \in Callers |-> AskOfRequest(c)]

\* The same ledger, with its theorems.
LEMMA InboxIsALedger == Inbox!Spec => InboxTheorems!Spec
<1>1. Inbox!Init => InboxTheorems!Init
  BY DEF Inbox!Init, InboxTheorems!Init, Inbox!Resting, InboxTheorems!Resting, Inbox!Place,
         InboxTheorems!Place
<1>2. [Inbox!Next]_(Inbox!vars) => [InboxTheorems!Next]_(InboxTheorems!vars)
  BY Zenon
     DEF Inbox!Next, InboxTheorems!Next, Inbox!vars, InboxTheorems!vars, Inbox!Ask,
         InboxTheorems!Ask, Inbox!Enter, InboxTheorems!Enter, Inbox!Recognise,
         InboxTheorems!Recognise, Inbox!Object, InboxTheorems!Object, Inbox!Refuse,
         InboxTheorems!Refuse, Inbox!HandOn, InboxTheorems!HandOn, Inbox!Answer,
         InboxTheorems!Answer, Inbox!GiveUp, InboxTheorems!GiveUp, Inbox!Become,
         InboxTheorems!Become, Inbox!Decide, InboxTheorems!Decide, Inbox!Place,
         InboxTheorems!Place, Inbox!Resting, InboxTheorems!Resting, Inbox!GivenUp,
         InboxTheorems!GivenUp, Inbox!Alike, InboxTheorems!Alike, Inbox!Same,
         InboxTheorems!Same, Inbox!Entry, InboxTheorems!Entry
<1> QED  BY <1>1, <1>2, PTL DEF Inbox!Spec, InboxTheorems!Spec

\* The same ledger, with its theorems.
LEMMA RegisterIsALedger == Register!Spec => RegisterTheorems!Spec
<1>1. Register!Init => RegisterTheorems!Init
  BY DEF Register!Init, RegisterTheorems!Init, Register!Resting, RegisterTheorems!Resting,
         Register!Place, RegisterTheorems!Place
<1>2. [Register!Next]_(Register!vars) => [RegisterTheorems!Next]_(RegisterTheorems!vars)
  BY Zenon
     DEF Register!Next, RegisterTheorems!Next, Register!vars, RegisterTheorems!vars,
         Register!Ask, RegisterTheorems!Ask, Register!Enter, RegisterTheorems!Enter,
         Register!Recognise, RegisterTheorems!Recognise, Register!Object,
         RegisterTheorems!Object, Register!Refuse, RegisterTheorems!Refuse, Register!HandOn,
         RegisterTheorems!HandOn, Register!Answer, RegisterTheorems!Answer, Register!GiveUp,
         RegisterTheorems!GiveUp, Register!Become, RegisterTheorems!Become, Register!Decide,
         RegisterTheorems!Decide, Register!Place, RegisterTheorems!Place, Register!Resting,
         RegisterTheorems!Resting, Register!GivenUp, RegisterTheorems!GivenUp, Register!Alike,
         RegisterTheorems!Alike, Register!Same, RegisterTheorems!Same, Register!Entry,
         RegisterTheorems!Entry
<1> QED  BY <1>1, <1>2, PTL DEF Register!Spec, RegisterTheorems!Spec

\* No two ingestions are both told that they brought the same mail first, nor two
\* requests the same invoice; and who is told "created" or "duplicate" relies on
\* a row for what it brought and, once it has its answer, on the work that follows.
THEOREM DoorsTellTheTruth ==
    Spec => [](/\ Inbox!OneCreator /\ Inbox!ToldTheTruth
               /\ Register!OneCreator /\ Register!ToldTheTruth)
<1>1. /\ InboxTheorems!OneCreator => Inbox!OneCreator
      /\ InboxTheorems!ToldTheTruth => Inbox!ToldTheTruth
  BY DEF Inbox!OneCreator, InboxTheorems!OneCreator, Inbox!ToldTheTruth,
         InboxTheorems!ToldTheTruth, Inbox!Alike, InboxTheorems!Alike, Inbox!Same,
         InboxTheorems!Same
<1>2. /\ RegisterTheorems!OneCreator => Register!OneCreator
      /\ RegisterTheorems!ToldTheTruth => Register!ToldTheTruth
  BY DEF Register!OneCreator, RegisterTheorems!OneCreator, Register!ToldTheTruth,
         RegisterTheorems!ToldTheTruth, Register!Alike, RegisterTheorems!Alike, Register!Same,
         RegisterTheorems!Same
<1> QED  BY <1>1, <1>2, LedgerRefinement, InboxIsALedger, RegisterIsALedger,
            InboxTheorems!LedgerIsSound, RegisterTheorems!LedgerIsSound, PTL
         DEF ImplementsLedgers

\* No mail and no submission is forgotten, no work that follows is taken back and
\* no answer changes.
THEOREM DoorsTakeNothingBack ==
    Spec => Inbox!NothingIsTakenBack /\ Register!NothingIsTakenBack
<1>1. InboxTheorems!NothingIsTakenBack => Inbox!NothingIsTakenBack
  BY PTL DEF Inbox!NothingIsTakenBack, InboxTheorems!NothingIsTakenBack, Inbox!vars,
             InboxTheorems!vars
<1>2. RegisterTheorems!NothingIsTakenBack => Register!NothingIsTakenBack
  BY PTL DEF Register!NothingIsTakenBack, RegisterTheorems!NothingIsTakenBack, Register!vars,
             RegisterTheorems!vars
<1> QED  BY <1>1, <1>2, LedgerRefinement, InboxIsALedger, RegisterIsALedger,
            InboxTheorems!LedgerOnlyGrows, RegisterTheorems!LedgerOnlyGrows, PTL
         DEF ImplementsLedgers

-----------------------------------------------------------------------------
(* One row each, whatever else the rows say.                               *)

OneOfEach(rows) ==
    \A r, s \in rows : r.key = s.key \/ r.content = s.content => r = s

\* A row that shares neither name with the others can be added.
LEMMA AddOne ==
    ASSUME NEW rows, OneOfEach(rows), NEW new,
           \A r \in rows : r.key # new.key /\ r.content # new.content
    PROVE  OneOfEach(rows \cup {new})
BY DEF OneOfEach

LEMMA TaskAddsOne ==
    ASSUME IInv, OneOfEach(mails), NEW t \in Tasks, TaskStep(t) PROVE OneOfEach(mails)'
<1>1. CASE mails' = mails
  BY <1>1 DEF OneOfEach
<1>2. CASE job[t].pc = "insert" /\ mails' = mails \cup {Ingestion!NewRow(t)}
  <2>1. /\ Ingestion!NewRow(t).key = SourceOf(t).key
        /\ Ingestion!NewRow(t).content = SourceOf(t).content
    BY DEF Ingestion!NewRow
  <2>2. \A r \in mails : r.key # SourceOf(t).key /\ r.content # SourceOf(t).content
    BY <1>2 DEF IInv, RowInv, TaskFresh
  <2>3. OneOfEach(mails \cup {Ingestion!NewRow(t)})
    BY <2>1, <2>2, AddOne
  <2> QED  BY <1>2, <2>3 DEF OneOfEach
<1> QED  BY <1>1, <1>2, TaskInsertsAt

LEMMA MoveKeepsOne ==
    ASSUME IInv, OneOfEach(mails), NEW r \in mails, NEW k \in ServerKeys,
           Ingestion!FollowMove(r, k)
    PROVE  OneOfEach(mails)'
<1> DEFINE q == [r EXCEPT !.place = k]
<1>1. mails' = (mails \ {r}) \cup {q} /\ q.key = r.key /\ q.content = r.content
  BY RowTypes DEF Ingestion!FollowMove, Ingestion!Row, IInv
<1> HIDE DEF q
<1> QED  BY <1>1 DEF OneOfEach

LEMMA CallerAddsOne ==
    ASSUME IInv, OneOfEach(submissions), NEW c \in Callers, CallerStep(c)
    PROVE  OneOfEach(submissions)'
<1>1. CASE submissions' = submissions
  BY <1>1 DEF OneOfEach
<1>2. CASE request[c].pc = "insert" /\ submissions' = submissions \cup {SubmissionOf(c)}
  <2>1. \A s \in submissions : s.key # request[c].key /\ s.content # request[c].content
    BY <1>2 DEF IInv, RowInv, CallerFresh, Invoices!Matches, Invoices!Content
  <2>2. OneOfEach(submissions \cup {SubmissionOf(c)})
    BY <2>1, AddOne DEF SubmissionOf
  <2> QED  BY <1>2, <2>2 DEF OneOfEach
<1> QED  BY <1>1, <1>2, CallerStepReach DEF CallerReach

\* No UID and no content has two messages, no idempotency key and no content two
\* submissions: the locks see to it, not the unique indexes of the database.
THEOREM OneRowEach == Spec => [](OneOfEach(mails) /\ OneOfEach(submissions))
<1> DEFINE Once == OneOfEach(mails) /\ OneOfEach(submissions)
<1>1. Init => Once
  BY DEF Init, Ingestion!Init, Invoices!Init, OneOfEach
<1>2. IInv /\ Once /\ [Next]_vars => Once'
  <2> SUFFICES ASSUME IInv, Once, [Next]_vars PROVE Once'
    OBVIOUS
  <2>1. CASE Ingest(Ingestion!Next)
    <3>1. OneOfEach(submissions)'
      BY <2>1 DEF Ingest, OneOfEach
    <3>2. \/ \E t \in Tasks : TaskStep(t)
          \/ \E r \in mails, k \in ServerKeys : Ingestion!FollowMove(r, k)
      BY <2>1 DEF Ingest, Ingestion!Next, TaskStep
    <3> QED  BY <3>1, <3>2, TaskAddsOne, MoveKeepsOne
  <2>2. CASE Submit(Invoices!Next)
    <3>1. PICK c \in Callers : CallerStep(c)
      BY <2>2 DEF Submit, Invoices!Next, Invoices!Callers, Callers, CallerStep
    <3>2. mails' = mails
      BY <3>1, CallersLeaveMails
    <3> QED  BY <3>1, <3>2, CallerAddsOne DEF OneOfEach
  <2>3. CASE UNCHANGED vars
    BY <2>3 DEF vars, OneOfEach
  <2> QED  BY <2>1, <2>2, <2>3 DEF Next
<1> HIDE DEF Once
<1>3. Spec => []Once
  BY <1>1, <1>2, IntakeInvariant, PTL DEF Spec
<1> QED  BY <1>3 DEF Once
=============================================================================
