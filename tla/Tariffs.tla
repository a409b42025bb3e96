------------------------------ MODULE Tariffs ------------------------------
(***************************************************************************)
(* TariffCatalog and TariffSelection over the tables they share: tariffs   *)
(* are added, superseded, switched off and deleted while selections among  *)
(* them are going on.                                                      *)
(***************************************************************************)
EXTENDS Naturals, FiniteSets

CONSTANTS Clients, Originals, MaxFiles, Workers, Invoices, NoOne, MaxAttempts,
          MaxFailures,  \* bound on failed requests and lost commits of the catalog
          MaxFaults,    \* bound on those and the faults of the selection
          MaxBeside     \* bound on requests while the selection runs

ASSUME TariffsAssumption == /\ Originals \cap (Clients \X (0..MaxFiles)) = {}
                            /\ NoOne \notin Originals \cup (Clients \X (0..MaxFiles))
                            /\ {MaxFiles, MaxAttempts} \subseteq Nat \ {0}
                            /\ {MaxFailures, MaxFaults, MaxBeside} \subseteq Nat

VARIABLES files, tariffs, rowLocks, request,
          job, handler, guard, rowLock, runs, pending,
          faults

Catalog   == INSTANCE TariffCatalog WITH MaxFaults <- MaxFailures
Selection == INSTANCE TariffSelection WITH Ids <- Catalog!Ids, Offered <- Catalog!Offered

vars == <<files, tariffs, rowLocks, request, job, handler, guard, rowLock, runs,
          pending, faults>>

Init == faults = 0 /\ Catalog!Init /\ Selection!Init

Begun   == {c \in Clients : ~Catalog!At(c, "idle")}
Tried   == {i \in Invoices : job[i].tries > 0}
Bounded == Tried' = {} \/ Cardinality(Begun') <= MaxBeside

Manage(A) == A /\ UNCHANGED <<job, handler, guard, rowLock, runs, pending>> /\ Bounded
Select(A) == A /\ UNCHANGED <<files, tariffs, rowLocks, request>> /\ Bounded

Next == Manage(Catalog!Next) \/ Select(Selection!Next)

Spec == Init /\ [][Next]_vars

\* Transactions end, locks that are free are granted, the model answers or its
\* timeout raises, and the queue hands a queued job to some worker.
FairSpec == /\ Spec
            /\ \A c \in Clients : WF_vars(Manage(Catalog!Progress(c)))
            /\ \A w \in Workers : WF_vars(Select(Selection!Progress(w)))
            /\ WF_vars(Select(\E w \in Workers, i \in Invoices : Selection!Claim(w, i)))

-----------------------------------------------------------------------------
(* Properties.                                                             *)

TypeOK ==
    /\ DOMAIN tariffs \subseteq Catalog!Ids
    /\ tariffs \in [DOMAIN tariffs -> Catalog!Row]
    /\ files \subseteq Catalog!Ids
    /\ rowLocks \subseteq Clients \X Catalog!Ids
    /\ request \in [Clients -> Catalog!Request]
    /\ job \in [Invoices -> [state : {"queued", "running"} \cup Selection!Settled,
                             tries : 0..MaxAttempts, owner : Workers \cup {NoOne}]]
    /\ handler \in [Workers -> Selection!Handler]
    /\ {guard, rowLock} \subseteq SUBSET (Workers \X Invoices)
    /\ runs \subseteq Selection!Run
    /\ pending \subseteq Invoices
    /\ faults \in Nat

\* However uploads of versions, edits and deletions of the same tariff overlap,
\* a lineage never forks and its versions count up from one without a gap: the
\* unique constraint on previous_version_id has nothing to refuse.
LineagesAreChains ==
    \A t \in DOMAIN tariffs :
       LET lineage == Catalog!Versions(tariffs[t].group)
       IN  /\ {tariffs[v].version : v \in lineage} = 1..Cardinality(lineage)
           /\ \A v \in lineage \ {tariffs[t].group} :
                 tariffs[tariffs[v].previous].version = tariffs[v].version - 1

\* Every version can be downloaded and audited against, deleted ones and those
\* an old selection names included: no compensation takes a committed file.
BytesSurvive == DOMAIN tariffs \subseteq files /\ UNION {r.tariffs : r \in runs} \subseteq files

\* A file that no row needs is left only by a request that failed half-way.
NothingStrays ==
    faults = 0 => files \subseteq DOMAIN tariffs \cup
        UNION {Catalog!StoredBy(c) : c \in {d \in Clients : request[d].pc \notin Catalog!Endings}}

\* Once a row is deleted no request that began later is told otherwise, and no
\* commit that was under way when it was deleted brings it back.
DeletedIsFinal ==
    [][\A t \in DOMAIN tariffs : tariffs[t].deleted =>
          tariffs'[t].deleted /\ ~\E s \in DOMAIN tariffs' \ DOMAIN tariffs :
                                    tariffs'[s].previous = t]_vars

\* An invoice gets one verdict, whatever two handlers of its job do side by
\* side, and is PENDING with an open item exactly when nothing was selected.
OneVerdict ==
    \A i \in Invoices : /\ Cardinality(Selection!RunsOf(i)) <= 1
                        /\ i \in pending <=> \E r \in Selection!RunsOf(i) : r.status # "SELECTED"

\* A tariff that is withdrawn while the model thinks is not selected: only a
\* withdrawal that commits between save's check and its insert slips through.
StaleChoiceNeedsTheWindow ==
    [][\A w \in Workers : (Selection!At(w, "insert") /\ ~Selection!Valid(w))'
                            => Selection!At(w, "insert")]_vars

\* A job that succeeded leaves a verdict, even if another worker, or an attempt
\* whose commit was never acknowledged, wrote it.
SucceededHasVerdict ==
    \A i \in Invoices : job[i].state = "SUCCEEDED" => Selection!RunsOf(i) # {}

\* Every selection job that was begun settles, however its workers die or lose
\* their locks, and every request is answered.
EverythingEnds ==
    []<>(/\ \A i \in Tried : job[i].state \in Selection!Settled
         /\ \A c \in Begun : request[c].pc \in Catalog!Endings)

-----------------------------------------------------------------------------
(* The inductive invariant behind the safety properties.                   *)

\* How far a request can be says what it has stored and which row it names.
RequestInv ==
    \A c \in Clients :
       LET r == request[c]
       IN  /\ r.pc \in {"idle", "lock", "read", "write"} => r.stored = 0
           /\ r.pc = "store" => r.op \in {"upload", "version"} /\ r.stored < r.count
           /\ r.pc = "lock" => r.op = "version"
           /\ r.pc \in {"read", "write"} => r.op \in {"update", "delete"}
           /\ r.pc = "commit" => r.op # "none"
           /\ r.op = "upload" => r.tariff = NoOne
           /\ r.op = "version" => r.count = 1
           /\ r.op \in {"update", "delete"} => r.stored = 0
           /\ r.op = "version" /\ r.pc = "commit" => r.stored = 1
           /\ r.op \in {"version", "update", "delete"} => r.tariff \in DOMAIN tariffs

\* A row appears only at the commit that ends its request, and until then what
\* the request has stored is there.
FileInv ==
    /\ \A c \in Clients, i \in 1..MaxFiles :
          Catalog!File(c, i) \in DOMAIN tariffs => request[c].pc \in Catalog!Endings
    /\ \A c \in Clients :
          request[c].pc \in {"store", "commit"} => Catalog!StoredBy(c) \subseteq files
    /\ DOMAIN tariffs \subseteq files

\* A row is locked by one transaction; a new version has its predecessor locked,
\* and that row is still what was read.
LockInv ==
    /\ \A p, q \in rowLocks : p[2] = q[2] => p[1] = q[1]
    /\ \A c \in Clients :
          LET t == request[c].tariff
          IN  /\ request[c].op = "version" /\ request[c].pc \in {"store", "commit"} =>
                    /\ <<c, t>> \in rowLocks
                    /\ request[c].seen \in Catalog!Row
                    /\ request[c].seen.version = tariffs[t].version
                    /\ request[c].seen.group = tariffs[t].group
                    /\ ~tariffs[t].deleted /\ ~Catalog!HasSuccessor(t)
              /\ request[c].op = "delete" /\ request[c].pc = "commit" => <<c, t>> \in rowLocks

\* A lineage begins with the row it is named after, every other row continues
\* one of it, and no version number is left out or given twice.
Chained(t) ==
    LET row == tariffs[t]
    IN  /\ row.group \in DOMAIN tariffs /\ tariffs[row.group].group = row.group
        /\ row.group = t => row.version = 1 /\ row.previous = NoOne
        /\ row.group # t => /\ row.previous \in DOMAIN tariffs
                            /\ tariffs[row.previous].group = row.group
                            /\ row.version = tariffs[row.previous].version + 1

Numbered(group) ==
    /\ IsFiniteSet(Catalog!Versions(group))
    /\ {tariffs[v].version : v \in Catalog!Versions(group)}
          = 1..Cardinality(Catalog!Versions(group))

LineageInv ==
    /\ \A t \in DOMAIN tariffs : Chained(t) /\ (tariffs[t].group = t => Numbered(t))
    /\ \A s, t \in DOMAIN tariffs :
          tariffs[s].group = tariffs[t].group /\ tariffs[s].version = tariffs[t].version
             => s = t

\* A handler that returns has found or written the verdict, and what it, or a
\* run, names was in the catalog.
VerdictInv ==
    /\ \A r, s \in runs : r.invoice = s.invoice => r = s
    /\ \A i \in Invoices : i \in pending <=> \E r \in Selection!RunsOf(i) : r.status # "SELECTED"
    /\ \A w \in Workers :
          /\ handler[w].pc # "idle" => handler[w].invoice \in Invoices
          /\ handler[w].pc = "return" => Selection!RunsOf(handler[w].invoice) # {}
          /\ handler[w].candidates \cup handler[w].tariffs \subseteq DOMAIN tariffs
    /\ \A r \in runs : r.tariffs \subseteq DOMAIN tariffs

IInv == /\ TypeOK /\ RequestInv /\ FileInv /\ LockInv /\ LineageInv /\ VerdictInv
        /\ NothingStrays /\ SucceededHasVerdict
=============================================================================
