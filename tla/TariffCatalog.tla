---------------------------- MODULE TariffCatalog ----------------------------
(***************************************************************************)
(* The catalog of tariff originals: /api/tariffs over TariffService and    *)
(* TariffRepository.  Every request is one READ COMMITTED transaction of   *)
(* get_database; what it writes is visible at its commit.  SQLAlchemy      *)
(* writes the attributes that differ from the row it has read, when it     *)
(* flushes, and from then on PostgreSQL keeps the row locked.              *)
(*                                                                         *)
(* A request that ends has committed or was rolled back, under the status  *)
(* of that; the client may have been answered before (from FastAPI 0.118   *)
(* get_database ends after the response), and no property is about that.   *)
(*                                                                         *)
(* Descriptions and notes decide nothing and are left out, and so are the  *)
(* requests that only read.                                                *)
(***************************************************************************)
EXTENDS Naturals, FiniteSets

CONSTANTS Clients,      \* requests, each made once
          Originals,    \* tariffs that are in the catalog already
          MaxFiles,     \* files of one upload
          NoOne,        \* no tariff
          MaxFaults     \* bound on failures of the process, database and disk

VARIABLES files,        \* objects of the storage
          tariffs,      \* the tariff_files table: committed rows by id
          rowLocks,     \* <<client, tariff>>: rows locked by open transactions
          request,      \* what each request is doing
          faults

\* A tariff has the name of its file: an original, or file i of a request.
Ids     == Originals \cup (Clients \X (1..MaxFiles))
Endings == {"201", "200", "204", "404", "409", "422", "500"}

Row == [version : Nat \ {0}, group : Ids, previous : Ids \cup {NoOne},
        active : BOOLEAN, deleted : BOOLEAN]

Request == [pc : {"idle", "lock", "store", "drop", "read", "write", "commit"} \cup Endings,
            op : {"none", "upload", "version", "update", "delete"},
            tariff : Ids \cup {NoOne}, seen : Row \cup {NoOne}, wants : BOOLEAN,
            count : 0..MaxFiles, stored : 0..MaxFiles]

First(t) == [version |-> 1, group |-> t, previous |-> NoOne,
             active |-> TRUE, deleted |-> FALSE]

Idle == [pc |-> "idle", op |-> "none", tariff |-> NoOne, seen |-> NoOne,
         wants |-> TRUE, count |-> 0, stored |-> 0]

Init == /\ files = Originals
        /\ tariffs = [t \in Originals |-> First(t)]
        /\ rowLocks = {}
        /\ request = [c \in Clients |-> Idle]

At(c, label)   == request[c].pc = label
GoTo(c, label) == request' = [request EXCEPT ![c].pc = label]
File(c, i)     == <<c, i>>
StoredBy(c)    == {File(c, i) : i \in 1..request[c].stored}

Fault == faults < MaxFaults /\ faults' = faults + 1

LetGo(c)    == rowLocks' = {pair \in rowLocks : pair[1] # c}
RowIsFree(t) == \A pair \in rowLocks : pair[2] # t

HasSuccessor(t) == \E s \in DOMAIN tariffs : tariffs[s].previous = t

-----------------------------------------------------------------------------
\* One of the four requests that write.
Begin(c) ==
    /\ At(c, "idle")
    /\ \/ \E n \in 1..MaxFiles :
             request' = [request EXCEPT ![c] = [Idle EXCEPT
                            !.pc = "store", !.op = "upload", !.count = n]]
       \/ \E t \in DOMAIN tariffs :
             request' = [request EXCEPT ![c] = [Idle EXCEPT
                            !.pc = "lock", !.op = "version", !.tariff = t, !.count = 1]]
       \/ \E t \in DOMAIN tariffs, active \in BOOLEAN :
             request' = [request EXCEPT ![c] = [Idle EXCEPT
                            !.pc = "read", !.op = "update", !.tariff = t, !.wants = active]]
       \/ \E t \in DOMAIN tariffs :
             request' = [request EXCEPT ![c] = [Idle EXCEPT
                            !.pc = "read", !.op = "delete", !.tariff = t]]
    /\ UNCHANGED <<files, tariffs, rowLocks, faults>>

\* Mutant of LockTip: the row is read without FOR UPDATE.
ReadTip(c) ==
    /\ At(c, "lock")
    /\ LET t == request[c].tariff
           label == IF tariffs[t].deleted THEN "404"
                    ELSE IF HasSuccessor(t) THEN "409" ELSE "store"
       IN  request' = [request EXCEPT ![c].pc = label, ![c].seen = tariffs[t]]
    /\ UNCHANGED <<files, tariffs, rowLocks, faults>>

\* A new version: get(lock=True) waits for the row and reads what is committed
\* then; a deleted tariff and one that has a successor are refused.
LockTip(c) ==
    /\ At(c, "lock")
    /\ LET t == request[c].tariff
           label == IF tariffs[t].deleted THEN "404"
                    ELSE IF HasSuccessor(t) THEN "409" ELSE "store"
       IN  /\ RowIsFree(t)
           /\ rowLocks' = IF label = "store" THEN rowLocks \cup {<<c, t>>} ELSE rowLocks
           /\ request' = [request EXCEPT ![c].pc = label, ![c].seen = tariffs[t]]
    /\ UNCHANGED <<files, tariffs, faults>>

\* Each file is stored and its row inserted, invisible until the commit.
Store(c) ==
    /\ At(c, "store")
    /\ files' = files \cup {File(c, request[c].stored + 1)}
    /\ request' = [request EXCEPT
          ![c].stored = @ + 1,
          ![c].pc     = IF request[c].stored + 1 = request[c].count THEN "commit" ELSE @]
    /\ UNCHANGED <<tariffs, rowLocks, faults>>

\* Mutant of Refuse: the transaction is not rolled back.
RefuseAndCommit(c) ==
    /\ At(c, "store")
    /\ request' = [request EXCEPT ![c].pc = "drop"]
    /\ tariffs' = [t \in DOMAIN tariffs \cup StoredBy(c) |->
                     IF t \in DOMAIN tariffs THEN tariffs[t] ELSE First(t)]
    /\ LetGo(c)
    /\ UNCHANGED <<files, faults>>

\* UploadValidationError: the transaction is rolled back, and the files of an
\* upload that were stored before are deleted.
Refuse(c) ==
    /\ At(c, "store")
    /\ request' = [request EXCEPT ![c].pc = "drop"]
    /\ LetGo(c)
    /\ UNCHANGED <<files, tariffs, faults>>

\* Mutant of Drop: only the refused file is thought of.
DropNothing(c) ==
    /\ At(c, "drop")
    /\ GoTo(c, "422")
    /\ UNCHANGED <<files, tariffs, rowLocks, faults>>

Drop(c) ==
    /\ At(c, "drop")
    /\ IF request[c].stored > 0
       THEN /\ files' = files \ {File(c, request[c].stored)}
            /\ request' = [request EXCEPT ![c].stored = @ - 1]
       ELSE GoTo(c, "422") /\ UNCHANGED files
    /\ UNCHANGED <<tariffs, rowLocks, faults>>

\* update_metadata and soft_delete read the row without a lock ...
Read(c) ==
    /\ At(c, "read")
    /\ LET row == tariffs[request[c].tariff]
       IN  request' = [request EXCEPT
              ![c].seen = row,
              ![c].pc   = CASE request[c].op = "update" /\ row.deleted -> "404"
                            [] request[c].op = "delete" /\ row.deleted -> "204"
                            [] OTHER                                   -> "write"]
    /\ UNCHANGED <<files, tariffs, rowLocks, faults>>

\* ... and flush what differs from it, behind whoever has the row locked.
Write(c) ==
    /\ At(c, "write")
    /\ LET t == request[c].tariff
           differs == request[c].op = "delete" \/ request[c].wants # request[c].seen.active
       IN  IF differs THEN RowIsFree(t) /\ rowLocks' = rowLocks \cup {<<c, t>>}
                      ELSE UNCHANGED rowLocks
    /\ GoTo(c, "commit")
    /\ UNCHANGED <<files, tariffs, faults>>

\* A column is written only if it is set to something else than was read.
Assign(now, seen, value) == IF seen = value THEN now ELSE value

NewRow(c, t) ==
    IF request[c].op = "upload" THEN First(t)
    ELSE [version |-> request[c].seen.version + 1, group |-> request[c].seen.group,
          previous |-> request[c].tariff, active |-> TRUE, deleted |-> FALSE]

\* Mutant of Changed: every column is written as it was read.
ChangedWhole(c, row) ==
    [request[c].seen EXCEPT !.active  = request[c].op = "update" /\ request[c].wants,
                            !.deleted = @ \/ request[c].op = "delete"]

Changed(c, row) ==
    LET seen   == request[c].seen
        active == request[c].op = "update" /\ request[c].wants
    IN  [row EXCEPT !.active  = Assign(@, seen.active, active),
                    !.deleted = @ \/ request[c].op = "delete"]

Committed(c) ==
    [t \in DOMAIN tariffs \cup StoredBy(c) |->
       IF t \in StoredBy(c) THEN NewRow(c, t)
       ELSE IF t = request[c].tariff THEN Changed(c, tariffs[t]) ELSE tariffs[t]]

Answer(c) == CASE request[c].op = "update" -> "200"
               [] request[c].op = "delete" -> "204"
               [] OTHER                    -> "201"

Commit(c) ==
    /\ At(c, "commit")
    /\ tariffs' = Committed(c)
    /\ LetGo(c)
    /\ GoTo(c, Answer(c))
    /\ UNCHANGED <<files, faults>>

\* The commit's acknowledgement does not arrive.
LoseCommit(c) ==
    /\ At(c, "commit")
    /\ Fault
    /\ tariffs' = Committed(c)
    /\ LetGo(c)
    /\ GoTo(c, "500")
    /\ UNCHANGED files

\* The database, the disk or the process fails.  An insert that fails takes the
\* file that was just stored with it; the files of an upload before it stay.
Fail(c) ==
    /\ request[c].pc \notin {"idle"} \cup Endings
    /\ Fault
    /\ GoTo(c, "500")
    /\ LetGo(c)
    /\ files' \in {files, files \ {File(c, request[c].stored)}}
    /\ UNCHANGED tariffs

-----------------------------------------------------------------------------
Progress(c) == \/ LockTip(c) \/ Store(c) \/ Drop(c) \/ Read(c) \/ Write(c) \/ Commit(c)

Next == \E c \in Clients : \/ Begin(c) \/ Progress(c) \/ Refuse(c)
                           \/ LoseCommit(c) \/ Fail(c)

-----------------------------------------------------------------------------
\* versions: the rows of a lineage.
Versions(group) == {t \in DOMAIN tariffs : tariffs[t].group = group}

\* What context offers to the selection and save validates against.
Offered == {t \in DOMAIN tariffs : tariffs[t].active /\ ~tariffs[t].deleted}
=============================================================================
