--------------------------- MODULE TariffsProofs ---------------------------
(***************************************************************************)
(* Proofs about Tariffs: the catalog and the selection of tariffs keep     *)
(* their invariants for any number of requests, workers, files and faults. *)
(***************************************************************************)
EXTENDS Tariffs, FiniteSetTheorems, TLAPS

-----------------------------------------------------------------------------
(* Initial states.                                                         *)

\* A catalog of originals, each the only version of itself, with nothing going
\* on satisfies the inductive invariant.
LEMMA InitIInv == Init => IInv
<1> SUFFICES ASSUME Init PROVE IInv
  OBVIOUS
<1> USE DEF Init, Catalog!Init, Selection!Init
<1>1. TypeOK
  BY TariffsAssumption DEF TypeOK, Catalog!Ids, Catalog!Row, Catalog!First, Catalog!Request, Catalog!Idle,
     Catalog!Endings, Selection!Handler, Selection!Idle, Selection!Labels, Selection!Statuses,
     Selection!Settled, Selection!Run
<1>2. RequestInv
  BY DEF RequestInv, Catalog!Idle
<1>3. FileInv
  BY TariffsAssumption DEF FileInv, Catalog!Idle, Catalog!File
<1>4. LockInv
  BY DEF LockInv, Catalog!Idle
<1>5. LineageInv
  <2>1. DOMAIN tariffs = Originals
    OBVIOUS
  <2>2. ASSUME NEW t \in Originals
        PROVE tariffs[t].version = 1 /\ tariffs[t].group = t /\ tariffs[t].previous = NoOne
    BY DEF Catalog!First
  <2>3. ASSUME NEW t \in Originals PROVE Numbered(t)
    <3>1. Catalog!Versions(t) = {t}
      BY <2>1, <2>2 DEF Catalog!Versions
    <3>2. {tariffs[v].version : v \in {t}} = {1}
      BY <2>2
    <3>3. IsFiniteSet({t}) /\ Cardinality({t}) = 1
      BY FS_Singleton
    <3>4. 1..1 = {1}
      OBVIOUS
    <3> QED BY <3>1, <3>2, <3>3, <3>4 DEF Numbered
  <2> HIDE DEF Init, Catalog!Init, Selection!Init
  <2>4. ASSUME NEW s \in DOMAIN tariffs, NEW t \in DOMAIN tariffs, tariffs[s].group = tariffs[t].group
        PROVE s = t
    BY <2>1, <2>2, <2>4
  <2> QED BY <2>1, <2>2, <2>3, <2>4 DEF LineageInv, Chained
<1>6. VerdictInv
  BY DEF VerdictInv, Selection!Idle, Selection!RunsOf
<1>7. NothingStrays /\ SucceededHasVerdict
  BY DEF NothingStrays, SucceededHasVerdict
<1> QED BY <1>1, <1>2, <1>3, <1>4, <1>5, <1>6, <1>7 DEF IInv

-----------------------------------------------------------------------------
(* Facts the steps of the catalog share.                                   *)

SelectionKept == UNCHANGED <<job, handler, guard, rowLock, runs, pending>>

\* The selection of a request that touches none of its state: rows are never
\* taken away, so what handlers and runs name stays in the catalog.
LEMMA SelectionFrame ==
    ASSUME VerdictInv, SucceededHasVerdict, SelectionKept,
           DOMAIN tariffs \subseteq DOMAIN tariffs'
    PROVE  VerdictInv' /\ SucceededHasVerdict'
<1>1. \A i \in Invoices : Selection!RunsOf(i)' = Selection!RunsOf(i)
  BY DEF SelectionKept, Selection!RunsOf
<1>2. VerdictInv'
  BY DEF VerdictInv, SelectionKept, Selection!RunsOf
<1>3. SucceededHasVerdict'
  BY <1>1 DEF SucceededHasVerdict, SelectionKept
<1> QED BY <1>2, <1>3

LEMMA LineageFrame == ASSUME LineageInv, UNCHANGED tariffs PROVE LineageInv'
<1>1. \A t : Catalog!Versions(t)' = Catalog!Versions(t) /\ (Chained(t) => Chained(t)')
  BY DEF Chained, Catalog!Versions
<1>2. \A t : Numbered(t) => Numbered(t)'
  BY <1>1 DEF Numbered
<1> QED BY <1>1, <1>2 DEF LineageInv

\* NothingStrays, file by file.
LEMMA StraysByFile ==
    /\ TypeOK => (NothingStrays <=>
         (faults = 0 => \A f \in files : f \in DOMAIN tariffs \/ \E d \in Clients :
              request[d].pc \notin Catalog!Endings /\ f \in Catalog!StoredBy(d)))
    /\ TypeOK' => (NothingStrays' <=>
         (faults' = 0 => \A f \in files' : f \in DOMAIN tariffs' \/ \E d \in Clients :
              request'[d].pc \notin Catalog!Endings /\ f \in Catalog!StoredBy(d)'))
BY DEF NothingStrays

\* What a request has stored.
LEMMA StoredFiles ==
    ASSUME NEW d \in Clients, NEW f
    PROVE  /\ f \in Catalog!StoredBy(d) <=> \E i \in 1..request[d].stored : f = <<d, i>>
           /\ f \in Catalog!StoredBy(d)' <=> \E i \in 1..request'[d].stored : f = <<d, i>>
BY DEF Catalog!StoredBy, Catalog!File

\* A step of client c changes c's record and nobody else's.
Moves(c) == \A d \in Clients : d # c => request'[d] = request[d]

LEMMA GoToEffect ==
    ASSUME TypeOK, NEW c \in Clients, NEW label, Catalog!GoTo(c, label)
    PROVE  /\ Moves(c)
           /\ request'[c].pc = label
           /\ request'[c].op = request[c].op /\ request'[c].tariff = request[c].tariff
           /\ request'[c].seen = request[c].seen /\ request'[c].wants = request[c].wants
           /\ request'[c].count = request[c].count /\ request'[c].stored = request[c].stored
           /\ label \in {"idle", "lock", "store", "drop", "read", "write", "commit"} \cup Catalog!Endings
                => request' \in [Clients -> Catalog!Request]
<1>1. request' = [request EXCEPT ![c].pc = label] /\ request \in [Clients -> Catalog!Request]
  BY DEF Catalog!GoTo, TypeOK
<1>2. /\ request'[c] = [request[c] EXCEPT !.pc = label] /\ Moves(c)
      /\ request' \in [Clients -> {request[d] : d \in Clients} \cup {request'[c]}]
      /\ request[c] \in Catalog!Request
  BY <1>1 DEF Moves
<1>3. \A q \in Catalog!Request :
         LET n == [q EXCEPT !.pc = label]
         IN  /\ n.pc = label /\ n.op = q.op /\ n.tariff = q.tariff /\ n.seen = q.seen
             /\ n.wants = q.wants /\ n.count = q.count /\ n.stored = q.stored
             /\ label \in {"idle", "lock", "store", "drop", "read", "write", "commit"}
                         \cup Catalog!Endings => n \in Catalog!Request
  BY DEF Catalog!Request
<1> QED BY <1>1, <1>2, <1>3

LEMMA Letting ==
    ASSUME TypeOK, NEW c \in Clients, Catalog!LetGo(c)
    PROVE  /\ rowLocks' \subseteq rowLocks
           /\ \A p \in rowLocks : p[1] # c => p \in rowLocks'
BY DEF Catalog!LetGo

-----------------------------------------------------------------------------
(* Steps of a request before its commit.                                   *)

\* A step that moves c to a label where it has nothing stored or locked yet, or
\* to the end of the request, keeps everything if c had nothing stored before.
LEMMA LightStep ==
    ASSUME IInv, NEW c \in Clients, SelectionKept, Moves(c),
           request' \in [Clients -> Catalog!Request],
           UNCHANGED <<files, tariffs, faults>>,
           rowLocks' \in {rowLocks, rowLocks \cup {<<c, request'[c].tariff>>}},
           rowLocks' # rowLocks => /\ Catalog!RowIsFree(request'[c].tariff)
                                   /\ request'[c].tariff \in DOMAIN tariffs,
           request[c].pc \in {"idle", "lock", "read", "write"},
           request'[c].stored = 0,
           RequestInv', LockInv'
    PROVE  IInv'
<1>t. /\ TypeOK /\ RequestInv /\ FileInv /\ LockInv /\ LineageInv /\ VerdictInv
      /\ NothingStrays /\ SucceededHasVerdict
  BY DEF IInv
<1>1. TypeOK'
  <2>1. DOMAIN tariffs' = DOMAIN tariffs /\ tariffs' = tariffs
    OBVIOUS
  <2>2. rowLocks' \subseteq Clients \X Catalog!Ids
    BY <1>t DEF TypeOK
  <2> QED BY <1>t, <2>1, <2>2 DEF TypeOK, SelectionKept, Selection!Handler, Selection!Run
<1>2. FileInv'
  <2>1. request[c].pc \notin Catalog!Endings
    BY DEF Catalog!Endings
  <2>2. \A d \in Clients : Catalog!StoredBy(d)' = IF d = c THEN {} ELSE Catalog!StoredBy(d)
    BY <1>t DEF Catalog!StoredBy, Moves, RequestInv
  <2> QED BY <1>t, <2>1, <2>2 DEF FileInv, Moves, Catalog!File
<1>3. NothingStrays'
  <2>1. \A f : f \notin Catalog!StoredBy(c)
    BY <1>t, StoredFiles DEF RequestInv
  <2>2. \A d \in Clients : d # c => Catalog!StoredBy(d)' = Catalog!StoredBy(d)
    BY DEF Catalog!StoredBy, Moves
  <2>3. SUFFICES ASSUME faults = 0, NEW f \in files, f \notin DOMAIN tariffs
                 PROVE \E d \in Clients : /\ request'[d].pc \notin Catalog!Endings
                                          /\ f \in Catalog!StoredBy(d)'
    BY <1>1, StraysByFile
  <2>4. PICK d \in Clients : request[d].pc \notin Catalog!Endings /\ f \in Catalog!StoredBy(d)
    BY <1>t, <2>3, StraysByFile
  <2> QED BY <2>1, <2>2, <2>4 DEF Moves
<1>4. LineageInv'
  BY <1>t, LineageFrame
<1>5. VerdictInv' /\ SucceededHasVerdict'
  BY <1>t, SelectionFrame
<1> QED BY <1>1, <1>2, <1>3, <1>4, <1>5 DEF IInv

LEMMA IdleRequest ==
    /\ Catalog!Idle \in Catalog!Request
    /\ Catalog!Idle.stored = 0 /\ Catalog!Idle.tariff = NoOne
BY TariffsAssumption DEF Catalog!Idle, Catalog!Request

LEMMA BeginStep ==
    ASSUME IInv, NEW c \in Clients, Catalog!Begin(c), SelectionKept
    PROVE  IInv'
<1>t. TypeOK /\ RequestInv /\ LockInv
  BY DEF IInv
<1>0. /\ request[c].pc = "idle" /\ UNCHANGED <<files, tariffs, rowLocks, faults>>
      /\ MaxFiles \in Nat \ {0}
  BY TariffsAssumption DEF Catalog!Begin, Catalog!At
<1>1. \E q \in Catalog!Request :
         /\ request' = [request EXCEPT ![c] = q]
         /\ q.stored = 0 /\ q.pc \in {"store", "lock", "read"}
         /\ q.pc = "store" => q.op = "upload" /\ q.count > 0 /\ q.tariff = NoOne
         /\ q.pc = "lock" => q.op = "version" /\ q.count = 1
         /\ q.pc = "read" => q.op \in {"update", "delete"}
         /\ q.pc # "store" => q.tariff \in DOMAIN tariffs
  <2>1. CASE \E n \in 1..MaxFiles :
             request' = [request EXCEPT ![c] = [Catalog!Idle EXCEPT
                            !.pc = "store", !.op = "upload", !.count = n]]
    <3>1. PICK n \in 1..MaxFiles :
             request' = [request EXCEPT ![c] = [Catalog!Idle EXCEPT
                            !.pc = "store", !.op = "upload", !.count = n]]
      BY <2>1
    <3>a. n \in 0..MaxFiles /\ n > 0
      BY <1>0
    <3> DEFINE q == [Catalog!Idle EXCEPT !.pc = "store", !.op = "upload", !.count = n]
    <3>2. q \in Catalog!Request /\ q.stored = 0 /\ q.pc = "store" /\ q.op = "upload"
          /\ q.count > 0 /\ q.tariff = NoOne
      BY <3>a, IdleRequest DEF Catalog!Request
    <3>3. request' = [request EXCEPT ![c] = q]
      BY <3>1
    <3> HIDE DEF q
    <3> QED BY <3>2, <3>3
  <2>2. CASE \E t \in DOMAIN tariffs :
             request' = [request EXCEPT ![c] = [Catalog!Idle EXCEPT
                            !.pc = "lock", !.op = "version", !.tariff = t, !.count = 1]]
    <3>1. PICK t \in DOMAIN tariffs :
             request' = [request EXCEPT ![c] = [Catalog!Idle EXCEPT
                            !.pc = "lock", !.op = "version", !.tariff = t, !.count = 1]]
      BY <2>2
    <3>a. 1 \in 0..MaxFiles /\ t \in Catalog!Ids
      BY <1>0, <1>t DEF TypeOK
    <3> DEFINE q == [Catalog!Idle EXCEPT !.pc = "lock", !.op = "version", !.tariff = t,
                                         !.count = 1]
    <3>2. q \in Catalog!Request /\ q.stored = 0 /\ q.pc = "lock" /\ q.op = "version"
          /\ q.count = 1 /\ q.tariff = t
      BY <3>a, IdleRequest DEF Catalog!Request
    <3>3. request' = [request EXCEPT ![c] = q]
      BY <3>1
    <3> HIDE DEF q
    <3> QED BY <3>2, <3>3
  <2>3. CASE \E t \in DOMAIN tariffs, active \in BOOLEAN :
             request' = [request EXCEPT ![c] = [Catalog!Idle EXCEPT
                            !.pc = "read", !.op = "update", !.tariff = t, !.wants = active]]
    <3>1. PICK t \in DOMAIN tariffs, active \in BOOLEAN :
             request' = [request EXCEPT ![c] = [Catalog!Idle EXCEPT
                            !.pc = "read", !.op = "update", !.tariff = t, !.wants = active]]
      BY <2>3
    <3> DEFINE q == [Catalog!Idle EXCEPT !.pc = "read", !.op = "update", !.tariff = t,
                                         !.wants = active]
    <3>2. q \in Catalog!Request /\ q.stored = 0 /\ q.pc = "read" /\ q.op = "update"
          /\ q.tariff = t
      BY <1>0, <1>t, IdleRequest DEF Catalog!Request, TypeOK
    <3>3. request' = [request EXCEPT ![c] = q]
      BY <3>1
    <3> HIDE DEF q
    <3> QED BY <3>2, <3>3
  <2>4. CASE \E t \in DOMAIN tariffs :
             request' = [request EXCEPT ![c] = [Catalog!Idle EXCEPT
                            !.pc = "read", !.op = "delete", !.tariff = t]]
    <3>1. PICK t \in DOMAIN tariffs :
             request' = [request EXCEPT ![c] = [Catalog!Idle EXCEPT
                            !.pc = "read", !.op = "delete", !.tariff = t]]
      BY <2>4
    <3> DEFINE q == [Catalog!Idle EXCEPT !.pc = "read", !.op = "delete", !.tariff = t]
    <3>2. q \in Catalog!Request /\ q.stored = 0 /\ q.pc = "read" /\ q.op = "delete"
          /\ q.tariff = t
      BY <1>0, <1>t, IdleRequest DEF Catalog!Request, TypeOK
    <3>3. request' = [request EXCEPT ![c] = q]
      BY <3>1
    <3> HIDE DEF q
    <3> QED BY <3>2, <3>3
  <2> QED BY <2>1, <2>2, <2>3, <2>4 DEF Catalog!Begin
<1>2. /\ request' \in [Clients -> Catalog!Request] /\ Moves(c) /\ request'[c].stored = 0
      /\ request'[c].pc \in {"store", "lock", "read"}
      /\ request'[c].pc = "store" => /\ request'[c].op = "upload" /\ request'[c].count > 0
                                     /\ request'[c].tariff = NoOne
      /\ request'[c].pc = "lock" => request'[c].op = "version" /\ request'[c].count = 1
      /\ request'[c].pc = "read" => request'[c].op \in {"update", "delete"}
      /\ request'[c].pc # "store" => request'[c].tariff \in DOMAIN tariffs
  BY <1>1, <1>t DEF TypeOK, Moves
<1>3. RequestInv'
  BY <1>0, <1>t, <1>2 DEF RequestInv, Moves
<1>4. LockInv'
  BY <1>0, <1>t, <1>2 DEF LockInv, Moves, Catalog!HasSuccessor
<1> QED BY <1>0, <1>2, <1>3, <1>4, LightStep

\* create_version has its predecessor's row to itself before it looks at it.
LEMMA LockTipStep ==
    ASSUME IInv, NEW c \in Clients, Catalog!LockTip(c), SelectionKept
    PROVE  IInv'
<1>t. TypeOK /\ RequestInv /\ LockInv
  BY DEF IInv
<1> DEFINE t == request[c].tariff
           label == IF tariffs[t].deleted THEN "404"
                    ELSE IF Catalog!HasSuccessor(t) THEN "409" ELSE "store"
<1>0. /\ request[c].pc = "lock" /\ request[c].op = "version" /\ t \in DOMAIN tariffs
      /\ request[c].stored = 0 /\ request[c].count = 1
      /\ UNCHANGED <<files, tariffs, faults>> /\ tariffs[t] \in Catalog!Row
      /\ Catalog!RowIsFree(t)
  BY <1>t DEF Catalog!LockTip, Catalog!At, RequestInv, TypeOK
<1>1. /\ request' = [request EXCEPT ![c].pc = label, ![c].seen = tariffs[t]]
      /\ rowLocks' = IF label = "store" THEN rowLocks \cup {<<c, t>>} ELSE rowLocks
  BY DEF Catalog!LockTip
<1>2. label \in {"404", "409", "store"}
      /\ (label = "store" => ~tariffs[t].deleted /\ ~Catalog!HasSuccessor(t))
  OBVIOUS
<1> HIDE DEF label
<1>3. /\ request' \in [Clients -> Catalog!Request] /\ Moves(c)
      /\ request'[c].pc = label /\ request'[c].seen = tariffs[t]
      /\ request'[c].op = "version" /\ request'[c].tariff = t
      /\ request'[c].stored = 0 /\ request'[c].count = 1
  <2>1. label \in Catalog!Endings \cup {"store"} /\ request \in [Clients -> Catalog!Request]
    BY <1>2, <1>t DEF Catalog!Endings, TypeOK
  <2>2. /\ Moves(c) /\ DOMAIN request' = Clients /\ request' = [d \in Clients |-> request'[d]]
        /\ request'[c] = [request[c] EXCEPT !.pc = label, !.seen = tariffs[t]]
    BY <1>1, <2>1 DEF Moves
  <2>3. ASSUME NEW q \in Catalog!Request
        PROVE  LET n == [q EXCEPT !.pc = label, !.seen = tariffs[t]]
               IN  /\ n \in Catalog!Request /\ n.pc = label /\ n.seen = tariffs[t]
                   /\ n.op = q.op /\ n.tariff = q.tariff /\ n.stored = q.stored
                   /\ n.count = q.count
    BY <1>0, <2>1 DEF Catalog!Request
  <2>4. /\ request'[c] \in Catalog!Request
        /\ request'[c].pc = label /\ request'[c].seen = tariffs[t]
        /\ request'[c].op = request[c].op /\ request'[c].tariff = request[c].tariff
        /\ request'[c].stored = request[c].stored /\ request'[c].count = request[c].count
    <3>1. request[c] \in Catalog!Request
      BY <2>1
    <3> QED BY <3>1, <2>2, <2>3
  <2>5. request' \in [Clients -> Catalog!Request]
    BY <2>1, <2>2, <2>4 DEF Moves
  <2> QED BY <1>0, <2>2, <2>4, <2>5
<1>4. RequestInv'
  BY <1>0, <1>2, <1>3, <1>t DEF RequestInv, Moves
<1>5. LockInv'
  <2>1. \A p, q \in rowLocks' : p[2] = q[2] => p[1] = q[1]
    BY <1>0, <1>1, <1>t DEF LockInv, Catalog!RowIsFree
  <2>2. \A d \in Clients : d # c => request'[d] = request[d]
    BY <1>3 DEF Moves
  <2>3. rowLocks \subseteq rowLocks' /\ tariffs' = tariffs
    BY <1>0, <1>1
  <2>4. \A x : Catalog!HasSuccessor(x)' <=> Catalog!HasSuccessor(x)
    BY <2>3 DEF Catalog!HasSuccessor
  <2>5. label = "store" => <<c, t>> \in rowLocks'
    BY <1>1
  <2> QED BY <1>0, <1>2, <1>3, <1>t, <2>1, <2>2, <2>3, <2>4, <2>5 DEF LockInv
<1> QED BY <1>0, <1>1, <1>3, <1>4, <1>5, LightStep

\* update_metadata and soft_delete look at the row without a lock.
LEMMA ReadStep ==
    ASSUME IInv, NEW c \in Clients, Catalog!Read(c), SelectionKept
    PROVE  IInv'
<1>t. TypeOK /\ RequestInv /\ LockInv
  BY DEF IInv
<1> DEFINE row == tariffs[request[c].tariff]
           label == CASE request[c].op = "update" /\ row.deleted -> "404"
                      [] request[c].op = "delete" /\ row.deleted -> "204"
                      [] OTHER                                   -> "write"
<1>0. /\ request[c].pc = "read" /\ request[c].op \in {"update", "delete"}
      /\ request[c].tariff \in DOMAIN tariffs /\ request[c].stored = 0
      /\ UNCHANGED <<files, tariffs, rowLocks, faults>> /\ row \in Catalog!Row
  BY <1>t DEF Catalog!Read, Catalog!At, RequestInv, TypeOK
<1>1. request' = [request EXCEPT ![c].seen = row, ![c].pc = label]
  BY DEF Catalog!Read
<1>2. label \in {"404", "204", "write"}
  BY <1>0 DEF Catalog!Row
<1> HIDE DEF label
<1>3. /\ request' \in [Clients -> Catalog!Request] /\ Moves(c)
      /\ request'[c].pc = label
      /\ request'[c].op = request[c].op /\ request'[c].tariff = request[c].tariff
      /\ request'[c].stored = 0 /\ request'[c].count = request[c].count
  BY <1>0, <1>1, <1>2, <1>t DEF TypeOK, Moves, Catalog!Request, Catalog!Endings
<1>4. RequestInv'
  BY <1>0, <1>2, <1>3, <1>t DEF RequestInv, Moves
<1>5. LockInv'
  BY <1>0, <1>2, <1>3, <1>t DEF LockInv, Moves, Catalog!HasSuccessor
<1> QED BY <1>0, <1>3, <1>4, <1>5, LightStep

\* They flush behind whoever holds the row.
LEMMA WriteStep ==
    ASSUME IInv, NEW c \in Clients, Catalog!Write(c), SelectionKept
    PROVE  IInv'
<1>t. TypeOK /\ RequestInv /\ LockInv
  BY DEF IInv
<1> DEFINE t == request[c].tariff
<1>0. /\ request[c].pc = "write" /\ request[c].op \in {"update", "delete"}
      /\ t \in DOMAIN tariffs /\ request[c].stored = 0
      /\ UNCHANGED <<files, tariffs, faults>>
  BY <1>t DEF Catalog!Write, Catalog!At, RequestInv
<1>1. /\ rowLocks' = rowLocks \/ (Catalog!RowIsFree(t) /\ rowLocks' = rowLocks \cup {<<c, t>>})
      /\ request[c].op = "delete" => <<c, t>> \in rowLocks'
  BY DEF Catalog!Write
<1>2. Catalog!GoTo(c, "commit")
  BY DEF Catalog!Write
<1>3. /\ request' \in [Clients -> Catalog!Request] /\ Moves(c)
      /\ request'[c].pc = "commit"
      /\ request'[c].op = request[c].op /\ request'[c].tariff = t
      /\ request'[c].stored = 0 /\ request'[c].count = request[c].count
  BY <1>0, <1>2, <1>t, GoToEffect
<1>4. RequestInv'
  BY <1>0, <1>3, <1>t DEF RequestInv, Moves
<1>5. LockInv'
  <2>1. \A p, q \in rowLocks' : p[2] = q[2] => p[1] = q[1]
    BY <1>0, <1>1, <1>t DEF LockInv, Catalog!RowIsFree
  <2>2. \A d \in Clients : d # c => request'[d] = request[d]
    BY <1>3 DEF Moves
  <2>3. rowLocks \subseteq rowLocks' /\ tariffs' = tariffs
    BY <1>0, <1>1
  <2>4. \A x : Catalog!HasSuccessor(x)' <=> Catalog!HasSuccessor(x)
    BY <2>3 DEF Catalog!HasSuccessor
  <2> QED BY <1>0, <1>1, <1>3, <1>t, <2>1, <2>2, <2>3, <2>4 DEF LockInv
<1> QED BY <1>0, <1>1, <1>3, <1>4, <1>5, LightStep

\* A step of c after it has begun to store, short of its commit.
LEMMA HeavyStep ==
    ASSUME IInv, NEW c \in Clients, SelectionKept, Moves(c),
           request' \in [Clients -> Catalog!Request],
           tariffs' = tariffs, files' \subseteq Catalog!Ids, faults' \in Nat,
           rowLocks' \subseteq rowLocks,
           \A p \in rowLocks : p[1] # c => p \in rowLocks',
           request'[c].op = request[c].op, request'[c].tariff = request[c].tariff,
           request'[c].seen = request[c].seen, request'[c].count = request[c].count,
           request[c].pc \notin Catalog!Endings,
           request'[c].pc \in {"store", "commit", "drop"} \cup Catalog!Endings,
           request'[c].pc \in {"store", "commit"} =>
              /\ request[c].pc = "store" /\ rowLocks' = rowLocks
              /\ Catalog!StoredBy(c)' \subseteq files',
           request'[c].pc = "store" => request'[c].stored < request'[c].count,
           request'[c].pc = "commit" => request'[c].stored = request'[c].count,
           request[c].op \in {"update", "delete"} => request'[c].stored = 0,
           \A f \in files : f \in files' \/ \E i \in 0..MaxFiles : f = <<c, i>>
    PROVE  /\ TypeOK' /\ RequestInv' /\ FileInv' /\ LockInv' /\ LineageInv' /\ VerdictInv'
           /\ SucceededHasVerdict'
<1>t. /\ TypeOK /\ RequestInv /\ FileInv /\ LockInv /\ LineageInv /\ VerdictInv
      /\ SucceededHasVerdict
  BY DEF IInv
<1>0. /\ \A d \in Clients : d # c => request'[d] = request[d]
      /\ \A d \in Clients : d # c => Catalog!StoredBy(d)' = Catalog!StoredBy(d)
      /\ \A d \in Clients : request[d] \in Catalog!Request
      /\ DOMAIN tariffs' = DOMAIN tariffs
  BY <1>t DEF Moves, Catalog!StoredBy, TypeOK
<1>1. TypeOK'
  BY <1>t, <1>0 DEF TypeOK, SelectionKept, Selection!Handler, Selection!Run
<1>2. RequestInv'
  BY <1>t, <1>0 DEF RequestInv, Catalog!Endings
<1>3. FileInv'
  <2>1. ASSUME NEW f \in DOMAIN tariffs PROVE f \in files'
    <3>1. SUFFICES ASSUME NEW i \in 0..MaxFiles, f = <<c, i>> PROVE FALSE
      BY <1>t DEF FileInv
    <3>2. f \in Catalog!Ids /\ f \notin Originals
      BY <1>t, <3>1, TariffsAssumption DEF TypeOK
    <3>3. i \in 1..MaxFiles
      BY <3>1, <3>2 DEF Catalog!Ids
    <3> QED BY <1>t, <3>1, <3>3 DEF FileInv, Catalog!File
  <2>2. ASSUME NEW d \in Clients, d # c, request[d].pc \in {"store", "commit"}
        PROVE  Catalog!StoredBy(d) \subseteq files'
    BY <1>t, <2>2 DEF FileInv, Catalog!StoredBy, Catalog!File
  <2>3. ASSUME NEW d \in Clients, NEW i \in 1..MaxFiles, Catalog!File(d, i) \in DOMAIN tariffs'
        PROVE  request'[d].pc \in Catalog!Endings
    BY <1>t, <1>0, <2>3 DEF FileInv, Catalog!File
  <2> QED BY <1>0, <2>1, <2>2, <2>3 DEF FileInv, Catalog!File
<1>4. LockInv'
  <2>1. \A x : Catalog!HasSuccessor(x)' <=> Catalog!HasSuccessor(x)
    BY DEF Catalog!HasSuccessor
  <2>2. request'[c].op = "delete" => request'[c].pc # "commit"
    BY <1>t DEF RequestInv
  <2> QED BY <1>t, <1>0, <2>1, <2>2 DEF LockInv, Catalog!Endings
<1>5. LineageInv'
  BY <1>t, LineageFrame
<1>6. VerdictInv' /\ SucceededHasVerdict'
  BY <1>t, <1>0, SelectionFrame
<1> QED BY <1>1, <1>2, <1>3, <1>4, <1>5, <1>6

LEMMA StoreStep ==
    ASSUME IInv, NEW c \in Clients, Catalog!Store(c), SelectionKept
    PROVE  IInv'
<1>t. /\ TypeOK /\ RequestInv /\ FileInv /\ NothingStrays
      /\ request \in [Clients -> Catalog!Request] /\ MaxFiles \in Nat
  BY TariffsAssumption DEF IInv, TypeOK
<1> DEFINE n == request[c].stored + 1
           label == IF n = request[c].count THEN "commit" ELSE "store"
<1>0. /\ request[c].pc = "store" /\ files' = files \cup {<<c, n>>} /\ n \in 1..MaxFiles
      /\ n <= request[c].count /\ request[c].stored \in Nat /\ request[c].count \in Nat
      /\ UNCHANGED <<tariffs, rowLocks, faults>>
      /\ request[c].op \in {"upload", "version"}
  BY <1>t DEF Catalog!Store, Catalog!At, Catalog!File, RequestInv, Catalog!Request
<1>1. /\ request' \in [Clients -> Catalog!Request] /\ Moves(c)
      /\ request'[c].stored = n /\ request'[c].pc = label
      /\ request'[c].op = request[c].op /\ request'[c].tariff = request[c].tariff
      /\ request'[c].seen = request[c].seen /\ request'[c].count = request[c].count
  <2>1. request' = [request EXCEPT ![c].stored = n, ![c].pc = label]
    BY <1>0, <1>t DEF Catalog!Store, Catalog!At
  <2>2. n \in 0..MaxFiles /\ label \in {"store", "commit"}
    BY <1>0
  <2> HIDE DEF n, label
  <2> QED BY <1>t, <2>1, <2>2 DEF Moves, Catalog!Request
<1>2. /\ request'[c].pc \in {"store", "commit"} /\ request[c].pc \notin Catalog!Endings
      /\ request'[c].pc \notin Catalog!Endings
  BY <1>0, <1>1 DEF Catalog!Endings
<1>3. \A f : f \in Catalog!StoredBy(c)' <=> f \in Catalog!StoredBy(c) \/ f = <<c, n>>
  BY <1>0, <1>1, StoredFiles
<1>4. /\ TypeOK' /\ RequestInv' /\ FileInv' /\ LockInv' /\ LineageInv' /\ VerdictInv'
      /\ SucceededHasVerdict'
  <2>1. Catalog!StoredBy(c)' \subseteq files'
    BY <1>0, <1>3, <1>t DEF FileInv
  <2>2. files' \subseteq Catalog!Ids
    BY <1>0, <1>t DEF TypeOK, Catalog!Ids
  <2>3. /\ request'[c].pc = "store" => request'[c].stored < request'[c].count
        /\ request'[c].pc = "commit" => request'[c].stored = request'[c].count
    BY <1>0, <1>1
  <2>4. faults' \in Nat /\ rowLocks' = rowLocks /\ tariffs' = tariffs /\ files \subseteq files'
    BY <1>0, <1>t DEF TypeOK
  <2> HIDE DEF n, label
  <2> QED BY <1>0, <1>1, <1>2, <2>1, <2>2, <2>3, <2>4, HeavyStep
<1>5. NothingStrays'
  <2>1. \A d \in Clients : d # c => Catalog!StoredBy(d)' = Catalog!StoredBy(d)
    BY <1>1 DEF Catalog!StoredBy, Moves
  <2> HIDE DEF n, label
  <2> QED BY <1>0, <1>1, <1>2, <1>3, <1>4, <1>t, <2>1, StraysByFile DEF Moves
<1> QED BY <1>4, <1>5 DEF IInv

LEMMA RefuseStep ==
    ASSUME IInv, NEW c \in Clients, Catalog!Refuse(c), SelectionKept
    PROVE  IInv'
<1>t. TypeOK /\ RequestInv /\ FileInv /\ NothingStrays
  BY DEF IInv
<1>0. /\ request[c].pc = "store" /\ UNCHANGED <<files, tariffs, faults>>
      /\ Catalog!GoTo(c, "drop") /\ Catalog!LetGo(c)
      /\ request[c].op \in {"upload", "version"}
  BY <1>t DEF Catalog!Refuse, Catalog!At, Catalog!GoTo, RequestInv
<1>1. /\ request' \in [Clients -> Catalog!Request] /\ Moves(c) /\ request'[c].pc = "drop"
      /\ request'[c].op = request[c].op /\ request'[c].tariff = request[c].tariff
      /\ request'[c].seen = request[c].seen /\ request'[c].count = request[c].count
      /\ request'[c].stored = request[c].stored
  BY <1>0, <1>t, GoToEffect
<1>2. rowLocks' \subseteq rowLocks /\ \A p \in rowLocks : p[1] # c => p \in rowLocks'
  BY <1>0, <1>t, Letting
<1>3. request[c].pc \notin Catalog!Endings /\ request'[c].pc \notin Catalog!Endings
  BY <1>0, <1>1 DEF Catalog!Endings
<1>4. /\ TypeOK' /\ RequestInv' /\ FileInv' /\ LockInv' /\ LineageInv' /\ VerdictInv'
      /\ SucceededHasVerdict'
  <2>1. faults' \in Nat /\ tariffs' = tariffs /\ files' \subseteq Catalog!Ids
    BY <1>0, <1>t DEF TypeOK
  <2> QED BY <1>0, <1>1, <1>2, <1>3, <2>1, HeavyStep
<1>5. NothingStrays'
  <2>1. \A d \in Clients : Catalog!StoredBy(d)' = Catalog!StoredBy(d)
    BY <1>1 DEF Catalog!StoredBy, Moves
  <2> QED BY <1>0, <1>1, <1>3, <1>4, <1>t, <2>1, StraysByFile DEF Moves
<1> QED BY <1>4, <1>5 DEF IInv

LEMMA DropStep ==
    ASSUME IInv, NEW c \in Clients, Catalog!Drop(c), SelectionKept
    PROVE  IInv'
<1>t. /\ TypeOK /\ RequestInv /\ FileInv /\ NothingStrays
      /\ request \in [Clients -> Catalog!Request] /\ MaxFiles \in Nat
  BY TariffsAssumption DEF IInv, TypeOK
<1> DEFINE n == request[c].stored
<1>0. /\ request[c].pc = "drop" /\ UNCHANGED <<tariffs, rowLocks, faults>>
      /\ n \in 0..MaxFiles /\ request[c].pc \notin Catalog!Endings
      /\ request[c].op \in {"update", "delete"} => n = 0
  BY <1>t DEF Catalog!Drop, Catalog!At, Catalog!Request, Catalog!Endings, RequestInv
<1>1. CASE n > 0
  <2>1. /\ request' \in [Clients -> Catalog!Request] /\ Moves(c) /\ request'[c].pc = "drop"
        /\ request'[c].op = request[c].op /\ request'[c].tariff = request[c].tariff
        /\ request'[c].seen = request[c].seen /\ request'[c].count = request[c].count
        /\ request'[c].stored = n - 1 /\ files' = files \ {<<c, n>>}
    <3>1. /\ request' = [request EXCEPT ![c].stored = n - 1] /\ files' = files \ {<<c, n>>}
          /\ n - 1 \in 0..MaxFiles
      BY <1>0, <1>1, <1>t DEF Catalog!Drop, Catalog!File
    <3> QED BY <1>0, <1>t, <3>1 DEF Moves, Catalog!Request
  <2>2. /\ TypeOK' /\ RequestInv' /\ FileInv' /\ LockInv' /\ LineageInv' /\ VerdictInv'
        /\ SucceededHasVerdict'
    <3>1. /\ faults' \in Nat /\ tariffs' = tariffs /\ rowLocks' = rowLocks
          /\ files' \subseteq Catalog!Ids /\ request[c].op \notin {"update", "delete"}
      BY <1>0, <1>1, <1>t, <2>1 DEF TypeOK
    <3>2. \A f \in files : f \in files' \/ \E i \in 0..MaxFiles : f = <<c, i>>
      BY <1>0, <2>1
    <3> HIDE DEF n
    <3> QED BY <1>0, <2>1, <3>1, <3>2, HeavyStep
  <2>3. NothingStrays'
    <3>1. \A d \in Clients : d # c => Catalog!StoredBy(d)' = Catalog!StoredBy(d)
      BY <2>1 DEF Catalog!StoredBy, Moves
    <3>2. \A f : f \in Catalog!StoredBy(c) => f = <<c, n>> \/ f \in Catalog!StoredBy(c)'
      BY <1>0, <1>1, <2>1, StoredFiles
    <3>3. request'[c].pc \notin Catalog!Endings
      BY <2>1 DEF Catalog!Endings
    <3> HIDE DEF n
    <3> QED BY <1>0, <1>t, <2>1, <2>2, <3>1, <3>2, <3>3, StraysByFile DEF Moves
  <2> QED BY <2>2, <2>3 DEF IInv
<1>2. CASE ~(n > 0)
  <2>0. n = 0 /\ files' = files /\ Catalog!GoTo(c, "422")
    BY <1>0, <1>2, <1>t DEF Catalog!Drop
  <2>1. /\ request' \in [Clients -> Catalog!Request] /\ Moves(c) /\ request'[c].pc = "422"
        /\ request'[c].op = request[c].op /\ request'[c].tariff = request[c].tariff
        /\ request'[c].seen = request[c].seen /\ request'[c].count = request[c].count
        /\ request'[c].stored = 0
    BY <2>0, <1>t, GoToEffect DEF Catalog!Endings
  <2>2. /\ TypeOK' /\ RequestInv' /\ FileInv' /\ LockInv' /\ LineageInv' /\ VerdictInv'
        /\ SucceededHasVerdict'
    <3>1. /\ faults' \in Nat /\ tariffs' = tariffs /\ rowLocks' = rowLocks
          /\ files' \subseteq Catalog!Ids /\ request'[c].pc \in Catalog!Endings
      BY <1>0, <1>t, <2>0, <2>1 DEF TypeOK, Catalog!Endings
    <3> HIDE DEF n
    <3> QED BY <1>0, <2>0, <2>1, <3>1, HeavyStep
  <2>3. NothingStrays'
    <3>1. \A d \in Clients : d # c => Catalog!StoredBy(d)' = Catalog!StoredBy(d)
      BY <2>1 DEF Catalog!StoredBy, Moves
    <3>2. \A f : f \notin Catalog!StoredBy(c)
      BY <2>0, StoredFiles
    <3> HIDE DEF n
    <3> QED BY <1>0, <1>t, <2>0, <2>1, <2>2, <3>1, <3>2, StraysByFile DEF Moves
  <2> QED BY <2>2, <2>3 DEF IInv
<1> QED BY <1>1, <1>2

\* A failure at any point: whatever is left over is counted as a fault.
LEMMA FailStep ==
    ASSUME IInv, NEW c \in Clients, Catalog!Fail(c), SelectionKept
    PROVE  IInv'
<1>t. TypeOK /\ RequestInv /\ FileInv /\ request \in [Clients -> Catalog!Request]
  BY DEF IInv, TypeOK
<1>0. /\ request[c].pc \notin Catalog!Endings /\ UNCHANGED tariffs
      /\ Catalog!GoTo(c, "500") /\ Catalog!LetGo(c) /\ faults' = faults + 1 /\ faults \in Nat
      /\ files' \in {files, files \ {<<c, request[c].stored>>}}
      /\ request[c].stored \in 0..MaxFiles
      /\ request[c].op \in {"update", "delete"} => request[c].stored = 0
  BY <1>t DEF Catalog!Fail, Catalog!Fault, Catalog!File, TypeOK, Catalog!Request, RequestInv
<1>1. /\ request' \in [Clients -> Catalog!Request] /\ Moves(c)
      /\ request'[c].pc = "500" /\ request'[c].pc \in Catalog!Endings
      /\ request'[c].op = request[c].op /\ request'[c].tariff = request[c].tariff
      /\ request'[c].seen = request[c].seen /\ request'[c].count = request[c].count
      /\ request'[c].stored = request[c].stored
  BY <1>0, <1>t, GoToEffect DEF Catalog!Endings
<1>2. rowLocks' \subseteq rowLocks /\ \A p \in rowLocks : p[1] # c => p \in rowLocks'
  BY <1>0, <1>t, Letting
<1>3. /\ TypeOK' /\ RequestInv' /\ FileInv' /\ LockInv' /\ LineageInv' /\ VerdictInv'
      /\ SucceededHasVerdict'
  <2>1. faults' \in Nat /\ files' \subseteq Catalog!Ids /\ tariffs' = tariffs
    BY <1>0, <1>t DEF TypeOK
  <2>2. \A f \in files : f \in files' \/ \E i \in 0..MaxFiles : f = <<c, i>>
    BY <1>0
  <2> QED BY <1>0, <1>1, <1>2, <2>1, <2>2, HeavyStep
<1>4. NothingStrays'
  <2>1. faults' # 0
    BY <1>0
  <2> QED BY <2>1 DEF NothingStrays
<1> QED BY <1>3, <1>4 DEF IInv

-----------------------------------------------------------------------------
(* The commit.                                                             *)

\* The columns of a lineage that no commit rewrites.
SameLineage(t) == /\ tariffs'[t].version = tariffs[t].version
                  /\ tariffs'[t].group = tariffs[t].group
                  /\ tariffs'[t].previous = tariffs[t].previous

LEMMA ChainedKept ==
    ASSUME LineageInv, DOMAIN tariffs \subseteq DOMAIN tariffs',
           \A t \in DOMAIN tariffs : SameLineage(t)
    PROVE  \A t \in DOMAIN tariffs : Chained(t)'
<1> TAKE t \in DOMAIN tariffs
<1>1. Chained(t)
  BY DEF LineageInv
<1>2. SameLineage(t) /\ SameLineage(tariffs[t].group)
  BY <1>1 DEF Chained
<1>3. tariffs[t].group # t => SameLineage(tariffs[t].previous)
  BY <1>1 DEF Chained
<1> QED BY <1>1, <1>2, <1>3 DEF Chained, SameLineage

\* A lineage that gets no row is still numbered.
LEMMA NumberedKept ==
    ASSUME NEW g, Numbered(g), Catalog!Versions(g)' = Catalog!Versions(g),
           \A t \in DOMAIN tariffs : SameLineage(t)
    PROVE  Numbered(g)'
<1>1. \A v \in Catalog!Versions(g) : tariffs'[v].version = tariffs[v].version
  BY DEF Catalog!Versions, SameLineage
<1>2. {tariffs'[v].version : v \in Catalog!Versions(g)}
        = {tariffs[v].version : v \in Catalog!Versions(g)}
  BY <1>1
<1> QED BY <1>2 DEF Numbered

\* New originals begin lineages of their own.
LEMMA LineageUpload ==
    ASSUME LineageInv, NEW New, New \cap DOMAIN tariffs = {},
           DOMAIN tariffs' = DOMAIN tariffs \cup New,
           \A t \in DOMAIN tariffs : SameLineage(t),
           \A t \in New : tariffs'[t] = Catalog!First(t)
    PROVE  LineageInv'
<1>1. ASSUME NEW t \in New
      PROVE tariffs'[t].version = 1 /\ tariffs'[t].group = t /\ tariffs'[t].previous = NoOne
  BY DEF Catalog!First
<1>2. ASSUME NEW t \in DOMAIN tariffs, tariffs'[t].group = t PROVE Numbered(t)'
  <2>1. Numbered(t)
    BY <1>2 DEF LineageInv, SameLineage
  <2>2. Catalog!Versions(t)' = Catalog!Versions(t)
    BY <1>1 DEF Catalog!Versions, SameLineage
  <2> QED BY <2>1, <2>2, NumberedKept
<1>3. ASSUME NEW t \in New PROVE Numbered(t)'
  <2>1. \A s \in DOMAIN tariffs : tariffs'[s].group # t
    BY DEF LineageInv, Chained, SameLineage
  <2>2. Catalog!Versions(t)' = {t}
    BY <1>1, <2>1 DEF Catalog!Versions
  <2>3. {tariffs'[v].version : v \in {t}} = {1}
    BY <1>1
  <2>4. IsFiniteSet({t}) /\ Cardinality({t}) = 1
    BY FS_Singleton
  <2>5. 1..1 = {1}
    OBVIOUS
  <2> QED BY <2>2, <2>3, <2>4, <2>5 DEF Numbered
<1>4. ASSUME NEW s \in DOMAIN tariffs', NEW t \in DOMAIN tariffs',
             tariffs'[s].group = tariffs'[t].group, tariffs'[s].version = tariffs'[t].version
      PROVE  s = t
  <2>1. CASE s \in DOMAIN tariffs /\ t \in DOMAIN tariffs
    BY <1>4, <2>1 DEF LineageInv, SameLineage
  <2>2. CASE s \in New /\ t \in New
    BY <1>1, <1>4, <2>2
  <2>3. CASE (s \in New /\ t \in DOMAIN tariffs) \/ (t \in New /\ s \in DOMAIN tariffs)
    BY <1>1, <1>4, <2>3 DEF LineageInv, Chained, SameLineage
  <2> QED BY <2>1, <2>2, <2>3
<1>5. \A t \in New : Chained(t)'
  BY <1>1 DEF Chained
<1>6. \A t \in DOMAIN tariffs' : Chained(t)' /\ (tariffs'[t].group = t => Numbered(t)')
  BY <1>2, <1>3, <1>5, ChainedKept
<1> QED BY <1>4, <1>6 DEF LineageInv

\* A version that continues the newest row of its lineage gets the next number:
\* a row without a successor has as its version the length of its lineage.
LEMMA LineageVersion ==
    ASSUME LineageInv, TypeOK, NEW n, n \notin DOMAIN tariffs,
           NEW p \in DOMAIN tariffs, ~Catalog!HasSuccessor(p),
           DOMAIN tariffs' = DOMAIN tariffs \cup {n},
           \A t \in DOMAIN tariffs : SameLineage(t),
           tariffs'[n].version = tariffs[p].version + 1,
           tariffs'[n].group = tariffs[p].group, tariffs'[n].previous = p
    PROVE  LineageInv'
<1>g. PICK g : g = tariffs[p].group
  OBVIOUS
<1> DEFINE L == Catalog!Versions(g)
           k == tariffs[p].version
<1>0. /\ \A t \in DOMAIN tariffs : tariffs[t].version \in Nat \ {0}
      /\ g \in DOMAIN tariffs /\ p \in L /\ L \subseteq DOMAIN tariffs /\ n \notin L /\ g # n
      /\ \A v \in L : tariffs[v].group = g
      /\ tariffs[g].group = g /\ tariffs'[n].group = g
  BY <1>g DEF TypeOK, Catalog!Row, LineageInv, Chained, Catalog!Versions
<1>1. /\ IsFiniteSet(L) /\ {tariffs[v].version : v \in L} = 1..Cardinality(L)
      /\ Cardinality(L) \in Nat
  BY <1>0, FS_CardinalityType DEF LineageInv, Numbered
<1>2. k = Cardinality(L)
  <2>1. k \in 1..Cardinality(L)
    BY <1>0, <1>1
  <2>2. SUFFICES ASSUME k < Cardinality(L) PROVE FALSE
    BY <1>1, <2>1
  <2>3. k + 1 \in 1..Cardinality(L)
    BY <1>1, <2>1, <2>2
  <2>4. PICK v \in L : tariffs[v].version = k + 1
    BY <1>1, <2>3
  <2>5. v \in DOMAIN tariffs /\ tariffs[v].group = g /\ Chained(v) /\ k \in Nat \ {0}
    BY <1>0, <2>4 DEF LineageInv
  <2>6. v # g
    BY <2>4, <2>5 DEF Chained
  <2>7. /\ tariffs[v].previous \in DOMAIN tariffs
        /\ tariffs[tariffs[v].previous].group = g
        /\ tariffs[v].version = tariffs[tariffs[v].previous].version + 1
    BY <2>5, <2>6 DEF Chained
  <2>8. tariffs[tariffs[v].previous].version = k
    BY <1>0, <2>4, <2>5, <2>7
  <2>9. tariffs[v].previous = p
    BY <1>g, <2>7, <2>8 DEF LineageInv
  <2> QED BY <2>5, <2>9 DEF Catalog!HasSuccessor
<1>3. /\ Catalog!Versions(g)' = L \cup {n} /\ IsFiniteSet(L \cup {n})
      /\ Cardinality(L \cup {n}) = k + 1
  <2>1. Catalog!Versions(g)' = L \cup {n}
    BY <1>0 DEF Catalog!Versions, SameLineage
  <2> QED BY <1>0, <1>1, <1>2, <2>1, FS_AddElement
<1>4. Numbered(g)'
  <2>1. \A v \in L : tariffs'[v].version = tariffs[v].version
    BY <1>0 DEF SameLineage
  <2>2. {tariffs'[v].version : v \in L \cup {n}} = {tariffs[v].version : v \in L} \cup {k + 1}
    BY <2>1
  <2>3. (1..k) \cup {k + 1} = 1..(k + 1)
    BY <1>0
  <2> QED BY <1>1, <1>2, <1>3, <2>2, <2>3 DEF Numbered
<1>5. ASSUME NEW t \in DOMAIN tariffs, tariffs'[t].group = t PROVE Numbered(t)'
  <2>1. Numbered(t) /\ tariffs[t].group = t
    BY <1>5 DEF LineageInv, SameLineage
  <2>2. CASE t = g
    BY <1>4, <2>2
  <2>3. CASE t # g
    <3>1. Catalog!Versions(t)' = Catalog!Versions(t)
      BY <1>0, <2>3 DEF Catalog!Versions, SameLineage
    <3> QED BY <2>1, <3>1, NumberedKept
  <2> QED BY <2>2, <2>3
<1>6. ASSUME NEW s \in DOMAIN tariffs', NEW t \in DOMAIN tariffs',
             tariffs'[s].group = tariffs'[t].group, tariffs'[s].version = tariffs'[t].version
      PROVE  s = t
  <2>1. ASSUME NEW v \in DOMAIN tariffs, tariffs[v].group = g PROVE tariffs[v].version # k + 1
    <3>1. v \in L
      BY <2>1 DEF Catalog!Versions
    <3>2. tariffs[v].version \in 1..k
      BY <1>1, <1>2, <3>1
    <3> QED BY <1>0, <3>2
  <2>2. CASE s \in DOMAIN tariffs /\ t \in DOMAIN tariffs
    BY <1>6, <2>2 DEF LineageInv, SameLineage
  <2>3. CASE s = n /\ t \in DOMAIN tariffs
    BY <1>0, <1>6, <2>1, <2>3 DEF SameLineage
  <2>4. CASE t = n /\ s \in DOMAIN tariffs
    BY <1>0, <1>6, <2>1, <2>4 DEF SameLineage
  <2> QED BY <2>2, <2>3, <2>4
<1>7. Chained(n)'
  <2>1. SameLineage(p) /\ SameLineage(g)
    BY <1>0
  <2> QED BY <1>0, <1>g, <2>1 DEF Chained, SameLineage
<1>8. \A t \in DOMAIN tariffs' : Chained(t)' /\ (tariffs'[t].group = t => Numbered(t)')
  BY <1>0, <1>5, <1>7, ChainedKept
<1> QED BY <1>6, <1>8 DEF LineageInv

\* What a commit does to the table.
LEMMA CommitEffect ==
    ASSUME IInv, NEW c \in Clients, request[c].pc = "commit", tariffs' = Catalog!Committed(c)
    PROVE  /\ DOMAIN tariffs' = DOMAIN tariffs \cup Catalog!StoredBy(c)
           /\ Catalog!StoredBy(c) \cap DOMAIN tariffs = {}
           /\ Catalog!StoredBy(c) \subseteq files
           /\ \A t \in DOMAIN tariffs :
                 /\ tariffs'[t] \in Catalog!Row /\ SameLineage(t)
                 /\ tariffs[t].deleted => tariffs'[t].deleted
                 /\ tariffs'[t].deleted => tariffs[t].deleted \/ (t = request[c].tariff /\ request[c].op = "delete")
           /\ \A t \in Catalog!StoredBy(c) :
                 /\ tariffs'[t] = Catalog!NewRow(c, t) /\ tariffs'[t] \in Catalog!Row
                 /\ ~tariffs'[t].deleted
<1>t. /\ TypeOK /\ RequestInv /\ FileInv /\ LockInv
      /\ request[c] \in Catalog!Request /\ MaxFiles \in Nat
  BY TariffsAssumption DEF IInv, TypeOK
<1>1. Catalog!StoredBy(c) \cap DOMAIN tariffs = {} /\ Catalog!StoredBy(c) \subseteq files
  <2>1. \A i \in 1..request[c].stored : <<c, i>> \notin DOMAIN tariffs
    <3>1. request[c].stored \in 0..MaxFiles /\ request[c].pc \notin Catalog!Endings
      BY <1>t DEF Catalog!Request, Catalog!Endings
    <3> QED BY <1>t, <3>1 DEF FileInv, Catalog!File
  <2> QED BY <1>t, <2>1, StoredFiles DEF FileInv
<1>2. /\ DOMAIN tariffs' = DOMAIN tariffs \cup Catalog!StoredBy(c)
      /\ \A t \in Catalog!StoredBy(c) : tariffs'[t] = Catalog!NewRow(c, t)
      /\ \A t \in DOMAIN tariffs : tariffs'[t] = IF t = request[c].tariff
                                  THEN Catalog!Changed(c, tariffs[t]) ELSE tariffs[t]
  BY <1>1 DEF Catalog!Committed
<1>3. ASSUME NEW row \in Catalog!Row
      PROVE LET new == Catalog!Changed(c, row)
            IN  /\ new \in Catalog!Row /\ new.version = row.version /\ new.group = row.group
                /\ new.previous = row.previous
                /\ row.deleted => new.deleted
                /\ new.deleted => row.deleted \/ request[c].op = "delete"
  <2> DEFINE active == request[c].op = "update" /\ request[c].wants
             a == Catalog!Assign(row.active, request[c].seen.active, active)
             d == row.deleted \/ request[c].op = "delete"
  <2>1. a \in BOOLEAN /\ d \in BOOLEAN
    <3>1. row.active \in BOOLEAN /\ active \in BOOLEAN
      BY DEF Catalog!Row
    <3> QED BY <3>1 DEF Catalog!Assign
  <2>2. Catalog!Changed(c, row) = [row EXCEPT !.active = a, !.deleted = d]
    BY DEF Catalog!Changed
  <2>3. (row.deleted => d) /\ (d => row.deleted \/ request[c].op = "delete")
    OBVIOUS
  <2> HIDE DEF a, d
  <2> QED BY <2>1, <2>2, <2>3 DEF Catalog!Row
<1>4. ASSUME NEW t \in Catalog!StoredBy(c)
      PROVE  Catalog!NewRow(c, t) \in Catalog!Row /\ ~Catalog!NewRow(c, t).deleted
  <2>1. t \in Catalog!Ids
    BY <1>1, <1>t DEF TypeOK
  <2>2. CASE request[c].op = "upload"
    BY <2>1, <2>2 DEF Catalog!NewRow, Catalog!First, Catalog!Row
  <2>3. CASE request[c].op # "upload"
    <3>1. request[c].op = "version"
      <4>1. request[c].op \notin {"update", "delete"}
        BY <1>t, StoredFiles DEF RequestInv
      <4>2. request[c].op # "none" /\ request[c].op \in {"none", "upload", "version", "update", "delete"}
        BY <1>t DEF RequestInv, Catalog!Request
      <4> QED BY <2>3, <4>1, <4>2
    <3>2. request[c].seen \in Catalog!Row /\ request[c].tariff \in Catalog!Ids
      BY <1>t, <3>1 DEF LockInv, RequestInv, TypeOK
    <3> QED BY <2>3, <3>2 DEF Catalog!NewRow, Catalog!Row
  <2> QED BY <2>2, <2>3
<1>5. ASSUME NEW t \in DOMAIN tariffs
      PROVE  /\ tariffs'[t] \in Catalog!Row /\ SameLineage(t)
             /\ tariffs[t].deleted => tariffs'[t].deleted
             /\ tariffs'[t].deleted => tariffs[t].deleted \/ (t = request[c].tariff /\ request[c].op = "delete")
  <2>1. tariffs[t] \in Catalog!Row
    BY <1>t DEF TypeOK
  <2>2. CASE t = request[c].tariff
    <3>1. tariffs'[t] = Catalog!Changed(c, tariffs[t])
      BY <1>2, <2>2
    <3> QED BY <1>3, <2>1, <2>2, <3>1 DEF SameLineage
  <2>3. CASE t # request[c].tariff
    <3>1. tariffs'[t] = tariffs[t]
      BY <1>2, <2>3
    <3> QED BY <2>1, <3>1 DEF SameLineage
  <2> QED BY <2>2, <2>3
<1> QED BY <1>1, <1>2, <1>4, <1>5

\* Commit, whether or not its acknowledgement arrives.
LEMMA CommitStep ==
    ASSUME IInv, NEW c \in Clients, Catalog!Commit(c) \/ Catalog!LoseCommit(c), SelectionKept
    PROVE  IInv'
<1>t. /\ TypeOK /\ RequestInv /\ FileInv /\ LockInv /\ LineageInv /\ VerdictInv
      /\ NothingStrays /\ SucceededHasVerdict
      /\ request \in [Clients -> Catalog!Request] /\ MaxFiles \in Nat \ {0}
  BY TariffsAssumption DEF IInv, TypeOK
<1>0. /\ request[c].pc = "commit" /\ tariffs' = Catalog!Committed(c) /\ Catalog!LetGo(c)
      /\ files' = files /\ faults' \in Nat /\ (faults' = 0 => faults = 0)
      /\ \E label \in Catalog!Endings : Catalog!GoTo(c, label)
  BY <1>t DEF Catalog!Commit, Catalog!LoseCommit, Catalog!At, Catalog!Fault, Catalog!Answer,
        Catalog!Endings, TypeOK
<1>1. /\ request' \in [Clients -> Catalog!Request] /\ Moves(c)
      /\ request'[c].pc \in Catalog!Endings
      /\ request'[c].op = request[c].op /\ request'[c].tariff = request[c].tariff
      /\ request'[c].count = request[c].count /\ request'[c].stored = request[c].stored
  BY <1>0, <1>t, GoToEffect
<1>2. rowLocks' \subseteq rowLocks /\ \A p \in rowLocks : p[1] # c => p \in rowLocks'
  BY <1>0, <1>t, Letting
<1>3. /\ DOMAIN tariffs' = DOMAIN tariffs \cup Catalog!StoredBy(c)
      /\ Catalog!StoredBy(c) \cap DOMAIN tariffs = {} /\ Catalog!StoredBy(c) \subseteq files
      /\ \A t \in DOMAIN tariffs :
            /\ tariffs'[t] \in Catalog!Row /\ SameLineage(t)
            /\ tariffs'[t].deleted => tariffs[t].deleted \/ (t = request[c].tariff
                                                            /\ request[c].op = "delete")
      /\ \A t \in Catalog!StoredBy(c) :
            tariffs'[t] = Catalog!NewRow(c, t) /\ tariffs'[t] \in Catalog!Row
  BY <1>0, CommitEffect
<1>4. request[c].op \in {"upload", "version", "update", "delete"}
  BY <1>0, <1>t DEF RequestInv, Catalog!Request
<1>5. request[c].op \in {"update", "delete"} => Catalog!StoredBy(c) = {}
  BY <1>t DEF RequestInv, Catalog!StoredBy
<1>6. TypeOK'
  <2>1. tariffs' \in [DOMAIN tariffs' -> Catalog!Row]
    BY <1>0, <1>3 DEF Catalog!Committed
  <2> QED BY <1>t, <1>0, <1>1, <1>2, <1>3, <2>1 DEF TypeOK, SelectionKept, Selection!Handler, Selection!Run
<1>7. RequestInv'
  BY <1>t, <1>0, <1>1, <1>3 DEF RequestInv, Moves, Catalog!Endings
<1>8. FileInv'
  <2>1. \A d \in Clients : Catalog!StoredBy(d)' = Catalog!StoredBy(d)
    BY <1>1 DEF Catalog!StoredBy, Moves
  <2>2. ASSUME NEW d \in Clients, NEW i \in 1..MaxFiles, <<d, i>> \in DOMAIN tariffs'
        PROVE  request'[d].pc \in Catalog!Endings
    <3>1. CASE <<d, i>> \in DOMAIN tariffs
      BY <1>t, <1>1, <3>1 DEF FileInv, Catalog!File, Moves
    <3>2. CASE <<d, i>> \in Catalog!StoredBy(c)
      BY <1>1, <3>2, StoredFiles
    <3> QED BY <1>3, <2>2, <3>1, <3>2
  <2>3. request'[c].pc \notin {"store", "commit"}
    BY <1>1 DEF Catalog!Endings
  <2> QED BY <1>t, <1>0, <1>1, <1>3, <2>1, <2>2, <2>3 DEF FileInv, Catalog!File, Moves
<1>9. LockInv'
  <2>1. ASSUME NEW d \in Clients, d # c, request[d].op = "version",
               request[d].pc \in {"store", "commit"}
        PROVE  LET t == request[d].tariff
               IN  /\ t \in DOMAIN tariffs /\ tariffs'[t].version = tariffs[t].version
                   /\ tariffs'[t].group = tariffs[t].group
                   /\ ~tariffs'[t].deleted /\ ~Catalog!HasSuccessor(t)'
    <3> DEFINE t == request[d].tariff
    <3>1. /\ t \in DOMAIN tariffs /\ <<d, t>> \in rowLocks /\ ~tariffs[t].deleted
          /\ ~Catalog!HasSuccessor(t)
      BY <1>t, <2>1 DEF LockInv, RequestInv
    <3>2. request[c].op \in {"version", "delete"} => request[c].tariff # t
      <4>1. request[c].op \in {"version", "delete"} => <<c, request[c].tariff>> \in rowLocks
        BY <1>t, <1>0 DEF LockInv
      <4>2. \A p, q \in rowLocks : p[2] = q[2] => p[1] = q[1]
        BY <1>t DEF LockInv
      <4> QED BY <2>1, <3>1, <4>1, <4>2
    <3>3. ~tariffs'[t].deleted
      BY <1>3, <3>1, <3>2
    <3>4. ASSUME NEW s \in DOMAIN tariffs', tariffs'[s].previous = t PROVE FALSE
      <4>1. CASE s \in DOMAIN tariffs
        BY <1>3, <3>1, <3>4, <4>1 DEF SameLineage, Catalog!HasSuccessor
      <4>2. CASE s \in Catalog!StoredBy(c)
        <5>1. CASE request[c].op = "upload"
          <6>1. tariffs'[s].previous = NoOne
            BY <1>3, <4>2, <5>1 DEF Catalog!NewRow, Catalog!First
          <6>2. NoOne \notin Catalog!Ids
            BY TariffsAssumption DEF Catalog!Ids
          <6> QED BY <1>t, <3>1, <3>4, <6>1, <6>2 DEF TypeOK
        <5>2. CASE request[c].op = "version"
          <6>1. tariffs'[s].previous = request[c].tariff
            BY <1>3, <4>2, <5>2 DEF Catalog!NewRow
          <6> QED BY <3>2, <3>4, <5>2, <6>1
        <5> QED BY <1>4, <1>5, <4>2, <5>1, <5>2
      <4> QED BY <1>3, <3>4, <4>1, <4>2
    <3>5. ~Catalog!HasSuccessor(request[d].tariff)'
      <4>1. request'[d].tariff = t
        BY <1>1, <2>1 DEF Moves
      <4> QED BY <3>4, <4>1 DEF Catalog!HasSuccessor
    <3> QED BY <1>3, <3>1, <3>3, <3>5 DEF SameLineage
  <2>2. request'[c].pc \notin {"store", "commit"}
    BY <1>1 DEF Catalog!Endings
  <2>3. \A d \in Clients : d # c => request'[d] = request[d]
    BY <1>1 DEF Moves
  <2> QED BY <1>t, <1>2, <2>1, <2>2, <2>3 DEF LockInv
<1>10. LineageInv'
  <2>1. CASE request[c].op = "version"
    <3>1. Catalog!StoredBy(c) = {<<c, 1>>}
      <4>1. request[c].stored = 1
        BY <1>0, <1>t, <2>1 DEF RequestInv
      <4>2. 1..1 = {1}
        OBVIOUS
      <4> QED BY <4>1, <4>2 DEF Catalog!StoredBy, Catalog!File
    <3>2. /\ request[c].tariff \in DOMAIN tariffs /\ ~Catalog!HasSuccessor(request[c].tariff)
          /\ request[c].seen.version = tariffs[request[c].tariff].version
          /\ request[c].seen.group = tariffs[request[c].tariff].group
      BY <1>0, <1>t, <2>1 DEF LockInv, RequestInv
    <3>3. tariffs'[<<c, 1>>] = [version |-> request[c].seen.version + 1,
             group |-> request[c].seen.group, previous |-> request[c].tariff,
             active |-> TRUE, deleted |-> FALSE]
      BY <1>3, <2>1, <3>1 DEF Catalog!NewRow
    <3>4. PICK p : p = request[c].tariff
      OBVIOUS
    <3> QED BY <1>t, <1>3, <3>1, <3>2, <3>3, <3>4, LineageVersion
  <2>2. CASE request[c].op # "version"
    <3>1. \A t \in Catalog!StoredBy(c) : tariffs'[t] = Catalog!First(t)
      BY <1>3, <1>4, <1>5, <2>2 DEF Catalog!NewRow
    <3>2. PICK New : New = Catalog!StoredBy(c)
      OBVIOUS
    <3> QED BY <1>t, <1>3, <3>1, <3>2, LineageUpload
  <2> QED BY <2>1, <2>2
<1>11. VerdictInv' /\ SucceededHasVerdict'
  BY <1>t, <1>3, SelectionFrame
<1>12. NothingStrays'
  <2>1. \A d \in Clients : Catalog!StoredBy(d)' = Catalog!StoredBy(d)
    BY <1>1 DEF Catalog!StoredBy, Moves
  <2> QED BY <1>t, <1>0, <1>1, <1>3, <1>6, <2>1, StraysByFile DEF Moves
<1> QED BY <1>6, <1>7, <1>8, <1>9, <1>10, <1>11, <1>12 DEF IInv

-----------------------------------------------------------------------------
(* Steps of the selection.                                                 *)

CatalogKept == UNCHANGED <<files, tariffs, rowLocks, request>>

Job == [state : {"queued", "running"} \cup Selection!Settled,
        tries : 0..MaxAttempts, owner : Workers \cup {NoOne}]

LEMMA CatalogFrame ==
    ASSUME IInv, CatalogKept, faults' \in {faults, faults + 1}
    PROVE  RequestInv' /\ FileInv' /\ LockInv' /\ LineageInv' /\ NothingStrays'
<1>t. /\ RequestInv /\ FileInv /\ LockInv /\ LineageInv /\ NothingStrays
      /\ files' = files /\ tariffs' = tariffs /\ rowLocks' = rowLocks /\ request' = request
  BY DEF IInv, CatalogKept
<1>0. faults' = 0 => faults = 0
  BY DEF IInv, TypeOK
<1>1. /\ \A d : Catalog!StoredBy(d)' = Catalog!StoredBy(d)
      /\ \A x : Catalog!HasSuccessor(x)' <=> Catalog!HasSuccessor(x)
  BY <1>t DEF Catalog!StoredBy, Catalog!HasSuccessor
<1>2. RequestInv' /\ FileInv'
  BY <1>t, <1>1 DEF RequestInv, FileInv
<1>3. LockInv'
  BY <1>t, <1>1 DEF LockInv
<1>4. LineageInv'
  BY <1>t, LineageFrame
<1>5. NothingStrays'
  BY <1>t, <1>0 DEF NothingStrays, Catalog!StoredBy, Catalog!File
<1> QED BY <1>2, <1>3, <1>4, <1>5

\* What a step of the handler of w owes: its record keeps its type and is told
\* the truth, and a job that succeeds has its verdict.
LEMMA QuietSelection ==
    ASSUME IInv, NEW w \in Workers, CatalogKept, UNCHANGED <<runs, pending>>,
           handler' \in [Workers -> Selection!Handler],
           \A v \in Workers : v # w => handler'[v] = handler[v],
           handler'[w].pc # "idle" => handler'[w].invoice \in Invoices,
           handler'[w].pc = "return" => Selection!RunsOf(handler[w].invoice) # {}
                                        /\ handler'[w].invoice = handler[w].invoice,
           handler'[w].candidates \cup handler'[w].tariffs \subseteq DOMAIN tariffs,
           job' \in [Invoices -> Job],
           \A i \in Invoices : job'[i].state = "SUCCEEDED"
                                => job[i].state = "SUCCEEDED" \/ Selection!RunsOf(i) # {},
           guard' \subseteq Workers \X Invoices, rowLock' \subseteq Workers \X Invoices,
           faults' \in {faults, faults + 1}
    PROVE  IInv'
<1>t. TypeOK /\ VerdictInv /\ SucceededHasVerdict
  BY DEF IInv
<1>1. RequestInv' /\ FileInv' /\ LockInv' /\ LineageInv' /\ NothingStrays'
  BY CatalogFrame
<1>2. TypeOK'
  BY <1>t DEF TypeOK, CatalogKept, Selection!Handler, Selection!Run, Job
<1>3. \A i : Selection!RunsOf(i)' = Selection!RunsOf(i)
  BY DEF Selection!RunsOf
<1>4. VerdictInv'
  BY <1>t, <1>3 DEF VerdictInv, CatalogKept, Selection!RunsOf
<1>5. SucceededHasVerdict'
  BY <1>t, <1>3 DEF SucceededHasVerdict
<1> QED BY <1>1, <1>2, <1>4, <1>5 DEF IInv

LEMMA SelectionGoTo ==
    ASSUME TypeOK, NEW w \in Workers, NEW label \in Selection!Labels, Selection!GoTo(w, label)
    PROVE  /\ handler' \in [Workers -> Selection!Handler]
           /\ \A v \in Workers : v # w => handler'[v] = handler[v]
           /\ handler'[w].pc = label /\ handler'[w].invoice = handler[w].invoice
           /\ handler'[w].candidates = handler[w].candidates
           /\ handler'[w].status = handler[w].status
           /\ handler'[w].tariffs = handler[w].tariffs
<1>1. handler' = [handler EXCEPT ![w].pc = label] /\ handler \in [Workers -> Selection!Handler]
  BY DEF Selection!GoTo, TypeOK
<1> QED BY <1>1 DEF Selection!Handler

LEMMA SelectionLocks ==
    ASSUME TypeOK
    PROVE  /\ guard \subseteq Workers \X Invoices /\ rowLock \subseteq Workers \X Invoices
           /\ \A w : Selection!Without(guard, w) \subseteq Workers \X Invoices
           /\ \A w : Selection!Without(rowLock, w) \subseteq Workers \X Invoices
           /\ job \in [Invoices -> Job] /\ handler \in [Workers -> Selection!Handler]
BY DEF TypeOK, Selection!Without, Job

\* The steps that only move the handler on.
LEMMA HandlerStep ==
    ASSUME IInv, NEW w \in Workers, CatalogKept,
           \/ Selection!Guard(w) \/ Selection!Existing(w) \/ Selection!AskFails(w)
           \/ Selection!Save(w) \/ Selection!LockInvoice(w)
    PROVE  IInv'
<1>t. /\ TypeOK /\ VerdictInv /\ job \in [Invoices -> Job]
      /\ guard \subseteq Workers \X Invoices /\ rowLock \subseteq Workers \X Invoices
      /\ handler[w].candidates \cup handler[w].tariffs \subseteq DOMAIN tariffs
  BY SelectionLocks DEF IInv, VerdictInv
<1>0. /\ handler[w].pc # "idle" /\ handler[w].invoice \in Invoices
      /\ UNCHANGED <<job, runs, pending, faults>>
  BY <1>t DEF Selection!Guard, Selection!Existing, Selection!AskFails, Selection!Save,
        Selection!LockInvoice, Selection!At, VerdictInv
<1>1. guard' \subseteq Workers \X Invoices /\ rowLock' \subseteq Workers \X Invoices
  BY <1>t, <1>0 DEF Selection!Guard, Selection!Existing, Selection!AskFails, Selection!Save,
        Selection!LockInvoice, Selection!InvoiceOf
<1>2. \E label \in Selection!Labels :
         /\ Selection!GoTo(w, label)
         /\ label = "return" => Selection!RunsOf(handler[w].invoice) # {}
  BY DEF Selection!Guard, Selection!Existing, Selection!AskFails, Selection!Save,
        Selection!LockInvoice, Selection!InvoiceOf, Selection!Labels
<1>3. /\ handler' \in [Workers -> Selection!Handler]
      /\ \A v \in Workers : v # w => handler'[v] = handler[v]
      /\ handler'[w].invoice = handler[w].invoice
      /\ handler'[w].pc = "return" => Selection!RunsOf(handler[w].invoice) # {}
      /\ handler'[w].candidates \cup handler'[w].tariffs \subseteq DOMAIN tariffs
  BY <1>t, <1>2, SelectionGoTo
<1> QED BY <1>t, <1>0, <1>1, <1>3, QuietSelection

LEMMA ContextStep ==
    ASSUME IInv, NEW w \in Workers, CatalogKept, Selection!Context(w) \/ Selection!Ask(w)
    PROVE  IInv'
<1>t. /\ TypeOK /\ VerdictInv /\ job \in [Invoices -> Job]
      /\ guard \subseteq Workers \X Invoices /\ rowLock \subseteq Workers \X Invoices
      /\ handler[w].candidates \cup handler[w].tariffs \subseteq DOMAIN tariffs
      /\ handler \in [Workers -> Selection!Handler] /\ DOMAIN tariffs \subseteq Catalog!Ids
  BY SelectionLocks DEF IInv, VerdictInv, TypeOK
<1>0. /\ handler[w].pc # "idle" /\ handler[w].invoice \in Invoices
      /\ UNCHANGED <<job, guard, rowLock, runs, pending, faults>>
  BY <1>t DEF Selection!Context, Selection!Ask, Selection!At, VerdictInv
<1>1. /\ handler' \in [Workers -> Selection!Handler]
      /\ \A v \in Workers : v # w => handler'[v] = handler[v]
      /\ handler'[w].invoice = handler[w].invoice
      /\ handler'[w].pc # "return"
      /\ handler'[w].candidates \cup handler'[w].tariffs \subseteq DOMAIN tariffs
  <2>1. CASE Selection!Context(w)
    <3>1. PICK label \in {"save", "ask"} :
             handler' = [handler EXCEPT ![w].candidates = Catalog!Offered, ![w].pc = label]
      BY <2>1 DEF Selection!Context
    <3>2. Catalog!Offered \subseteq DOMAIN tariffs
      BY DEF Catalog!Offered
    <3> QED BY <1>t, <3>1, <3>2 DEF Selection!Handler, Selection!Labels
  <2>2. CASE Selection!Ask(w)
    <3>1. PICK status \in Selection!Statuses, chosen \in SUBSET handler[w].candidates :
             handler' = [handler EXCEPT ![w].pc = "save", ![w].status = status,
                                        ![w].tariffs = chosen]
      BY <2>2 DEF Selection!Ask
    <3>2. chosen \subseteq Catalog!Ids /\ chosen \subseteq DOMAIN tariffs
      BY <1>t
    <3> DEFINE h == [handler[w] EXCEPT !.pc = "save", !.status = status, !.tariffs = chosen]
    <3>3. /\ h \in Selection!Handler /\ h.invoice = handler[w].invoice /\ h.pc = "save"
          /\ h.candidates = handler[w].candidates /\ h.tariffs = chosen
      <4>1. handler[w] \in Selection!Handler
        BY <1>t
      <4> QED BY <3>2, <4>1 DEF Selection!Handler, Selection!Labels
    <3>4. handler' = [handler EXCEPT ![w] = h]
      BY <1>t, <3>1
    <3> HIDE DEF h
    <3> QED BY <1>t, <3>2, <3>3, <3>4
  <2> QED BY <2>1, <2>2
<1> QED BY <1>t, <1>0, <1>1, QuietSelection

\* A claim, and a second one while the first handler still runs.
LEMMA ClaimStep ==
    ASSUME IInv, NEW w \in Workers, NEW i \in Invoices, CatalogKept,
           Selection!Claim(w, i) \/ Selection!TakeOver(w, i)
    PROVE  IInv'
<1>t. /\ TypeOK /\ job \in [Invoices -> Job] /\ handler \in [Workers -> Selection!Handler]
      /\ guard \subseteq Workers \X Invoices /\ rowLock \subseteq Workers \X Invoices
      /\ MaxAttempts \in Nat
  BY SelectionLocks, TariffsAssumption DEF IInv
<1>0. Selection!Claimed(w, i) /\ faults' \in {faults, faults + 1}
  BY DEF Selection!Claim, Selection!TakeOver, Selection!Fault
<1>1. /\ UNCHANGED <<guard, rowLock, runs, pending>> /\ job[i].tries < MaxAttempts
      /\ job' = [job EXCEPT ![i] = [state |-> "running", tries |-> job[i].tries + 1, owner |-> w]]
      /\ handler' = [handler EXCEPT ![w] = [Selection!Idle EXCEPT !.pc = "guard", !.invoice = i]]
  BY <1>0, <1>t DEF Selection!Claimed
<1>2. /\ job' \in [Invoices -> Job]
      /\ \A j \in Invoices : job'[j].state = "SUCCEEDED" => job[j].state = "SUCCEEDED"
  <2>1. job[i].tries + 1 \in 0..MaxAttempts
    BY <1>t, <1>1 DEF Job
  <2> QED BY <1>t, <1>1, <2>1 DEF Job
<1>3. /\ handler' \in [Workers -> Selection!Handler]
      /\ \A v \in Workers : v # w => handler'[v] = handler[v]
      /\ handler'[w].invoice = i /\ handler'[w].pc = "guard"
      /\ handler'[w].candidates \cup handler'[w].tariffs = {}
  <2> DEFINE h == [Selection!Idle EXCEPT !.pc = "guard", !.invoice = i]
  <2>1. /\ h \in Selection!Handler /\ h.invoice = i /\ h.pc = "guard"
        /\ h.candidates = {} /\ h.tariffs = {}
    BY DEF Selection!Idle, Selection!Handler, Selection!Labels, Selection!Statuses
  <2>2. handler' = [handler EXCEPT ![w] = h]
    BY <1>1
  <2> HIDE DEF h
  <2> QED BY <1>t, <2>1, <2>2
<1> QED BY <1>t, <1>0, <1>1, <1>2, <1>3, QuietSelection

\* The end of an attempt: a job succeeds only when its handler returned.
LEMMA EndedStep ==
    ASSUME IInv, NEW w \in Workers, CatalogKept, NEW ok \in BOOLEAN, Selection!Ended(w, ok),
           handler[w].pc # "idle", ok => handler[w].pc = "return",
           faults' \in {faults, faults + 1}
    PROVE  IInv'
<1>t. /\ TypeOK /\ VerdictInv
      /\ job \in [Invoices -> Job] /\ handler \in [Workers -> Selection!Handler]
      /\ handler[w].invoice \in Invoices
      /\ ok => Selection!RunsOf(handler[w].invoice) # {}
  BY SelectionLocks DEF IInv, VerdictInv
<1>1. /\ handler' = [handler EXCEPT ![w] = Selection!Idle] /\ UNCHANGED <<runs, pending>>
      /\ guard' \subseteq Workers \X Invoices /\ rowLock' \subseteq Workers \X Invoices
      /\ job' = Selection!After(w, ok)
  BY <1>t, SelectionLocks DEF Selection!Ended
<1>2. /\ job' \in [Invoices -> Job]
      /\ \A i \in Invoices : job'[i].state = "SUCCEEDED"
                             => job[i].state = "SUCCEEDED" \/ Selection!RunsOf(i) # {}
  <2>1. CASE job' = job
    BY <1>t, <2>1
  <2>2. CASE job' # job
    <3>1. PICK state \in {"SUCCEEDED", "queued", "FAILED"} :
             /\ job' = [job EXCEPT ![handler[w].invoice].state = state]
             /\ state = "SUCCEEDED" => ok
      BY <1>1, <2>2 DEF Selection!After, Selection!InvoiceOf
    <3> QED BY <1>t, <3>1 DEF Job, Selection!Settled
  <2> QED BY <2>1, <2>2
<1>3. Selection!Idle \in Selection!Handler /\ Selection!Idle.pc = "idle"
      /\ Selection!Idle.candidates = {} /\ Selection!Idle.tariffs = {}
  BY DEF Selection!Idle, Selection!Handler, Selection!Labels, Selection!Statuses
<1>4. /\ handler' \in [Workers -> Selection!Handler]
      /\ \A v \in Workers : v # w => handler'[v] = handler[v]
      /\ handler'[w].pc = "idle"
      /\ handler'[w].candidates \cup handler'[w].tariffs = {}
  BY <1>t, <1>1, <1>3
<1> QED BY <1>1, <1>2, <1>4, QuietSelection

LEMMA LeaveStep ==
    ASSUME IInv, NEW w \in Workers, CatalogKept, Selection!Leave(w) \/ Selection!Crash(w)
    PROVE  IInv'
<1>1. CASE Selection!At(w, "return") /\ Selection!Ended(w, TRUE) /\ UNCHANGED faults
  BY <1>1, EndedStep DEF Selection!At
<1>2. CASE Selection!At(w, "raise") /\ Selection!Ended(w, FALSE) /\ UNCHANGED faults
  BY <1>2, EndedStep DEF Selection!At
<1>3. CASE Selection!Crash(w)
  BY <1>3, EndedStep DEF Selection!Crash, Selection!Fault
<1> QED BY <1>1, <1>2, <1>3 DEF Selection!Leave

LEMMA LoseGuardStep ==
    ASSUME IInv, NEW w \in Workers, CatalogKept, Selection!LoseGuard(w)
    PROVE  IInv'
<1>t. TypeOK /\ VerdictInv
  BY DEF IInv
<1>1. /\ UNCHANGED <<job, handler, rowLock, runs, pending>> /\ faults' = faults + 1
      /\ guard' \subseteq Workers \X Invoices
  BY <1>t, SelectionLocks DEF Selection!LoseGuard, Selection!Fault
<1> QED BY <1>t, <1>1, SelectionLocks, QuietSelection DEF VerdictInv

\* The insert of the one run an invoice gets.
LEMMA WrittenStep ==
    ASSUME IInv, NEW w \in Workers, CatalogKept, Selection!Written(w),
           Selection!At(w, "insert"), Selection!RunsOf(handler[w].invoice) = {},
           NEW label \in {"return", "raise"}, Selection!GoTo(w, label),
           UNCHANGED <<job, guard>>, faults' \in {faults, faults + 1}
    PROVE  IInv'
<1>t. /\ TypeOK /\ VerdictInv /\ SucceededHasVerdict
      /\ handler \in [Workers -> Selection!Handler]
      /\ handler[w].invoice \in Invoices
      /\ handler[w].tariffs \subseteq DOMAIN tariffs /\ DOMAIN tariffs \subseteq Catalog!Ids
  BY SelectionLocks DEF IInv, VerdictInv, Selection!At, TypeOK
<1>0. RequestInv' /\ FileInv' /\ LockInv' /\ LineageInv' /\ NothingStrays'
  BY CatalogFrame
<1>1. /\ handler' \in [Workers -> Selection!Handler]
      /\ \A v \in Workers : v # w => handler'[v] = handler[v]
      /\ handler'[w].pc # "idle" /\ handler'[w].invoice = handler[w].invoice
      /\ handler'[w].candidates = handler[w].candidates
      /\ handler'[w].tariffs = handler[w].tariffs
  BY <1>t, SelectionGoTo DEF Selection!Labels
<1> DEFINE i == handler[w].invoice
<1>2. PICK run : run = Selection!Chosen(w)
  OBVIOUS
<1>3. /\ run \in Selection!Run /\ run.invoice = i /\ run.status = handler[w].status
      /\ run.tariffs = handler[w].tariffs /\ runs' = runs \cup {run}
      /\ pending' = IF run.status = "SELECTED" THEN pending ELSE pending \cup {i}
      /\ rowLock' = Selection!Without(rowLock, w)
  BY <1>t, <1>2 DEF Selection!Written, Selection!Chosen, Selection!Run, Selection!Handler, Selection!InvoiceOf
<1>4. TypeOK'
  <2>1. rowLock' \subseteq Workers \X Invoices /\ guard' \subseteq Workers \X Invoices
    BY <1>3, <1>t, SelectionLocks
  <2>2. runs' \subseteq Selection!Run /\ pending' \subseteq Invoices /\ faults' \in Nat
    BY <1>3, <1>t DEF TypeOK
  <2> QED BY <1>t, <1>1, <2>1, <2>2 DEF TypeOK, CatalogKept, Selection!Handler, Selection!Run
<1>5. \A j : Selection!RunsOf(j)' = IF j = i THEN {run} ELSE Selection!RunsOf(j)
  BY <1>3 DEF Selection!RunsOf
<1>6. VerdictInv'
  <2>1. \A r, s \in runs' : r.invoice = s.invoice => r = s
    BY <1>t, <1>3 DEF VerdictInv, Selection!RunsOf
  <2>2. ASSUME NEW j \in Invoices
        PROVE j \in pending' <=> \E r \in Selection!RunsOf(j)' : r.status # "SELECTED"
    <3>1. j \in pending <=> \E r \in Selection!RunsOf(j) : r.status # "SELECTED"
      BY <1>t DEF VerdictInv
    <3> QED BY <1>3, <1>5, <3>1
  <2>3. ASSUME NEW v \in Workers
        PROVE  /\ handler'[v].pc # "idle" => handler'[v].invoice \in Invoices
               /\ handler'[v].pc = "return" =>
                     \E r \in runs' : r.invoice = handler'[v].invoice
               /\ handler'[v].candidates \cup handler'[v].tariffs \subseteq DOMAIN tariffs'
    <3>1. CASE v = w
      BY <1>t, <1>1, <1>3, <3>1 DEF VerdictInv, CatalogKept
    <3>2. CASE v # w
      BY <1>t, <1>1, <1>3, <3>2 DEF VerdictInv, CatalogKept, Selection!RunsOf
    <3> QED BY <3>1, <3>2
  <2>4. \A r \in runs' : r.tariffs \subseteq DOMAIN tariffs'
    BY <1>t, <1>3 DEF VerdictInv, CatalogKept
  <2> QED BY <2>1, <2>2, <2>3, <2>4 DEF VerdictInv, Selection!RunsOf
<1>7. SucceededHasVerdict'
  BY <1>t, <1>5 DEF SucceededHasVerdict
<1> QED BY <1>0, <1>4, <1>6, <1>7 DEF IInv

LEMMA InsertStep ==
    ASSUME IInv, NEW w \in Workers, CatalogKept, Selection!Insert(w) \/ Selection!LoseCommit(w)
    PROVE  IInv'
<1>t. /\ TypeOK /\ VerdictInv
      /\ handler[w].candidates \cup handler[w].tariffs \subseteq DOMAIN tariffs
  BY DEF IInv, VerdictInv
<1>1. CASE Selection!Insert(w) /\ Selection!RunsOf(handler[w].invoice) = {}
  <2>1. /\ Selection!Written(w) /\ Selection!At(w, "insert") /\ Selection!GoTo(w, "return")
        /\ UNCHANGED <<job, guard>> /\ faults' = faults
    BY <1>1 DEF Selection!Insert, Selection!InvoiceOf
  <2> QED BY <1>1, <2>1, WrittenStep
<1>2. CASE Selection!Insert(w) /\ Selection!RunsOf(handler[w].invoice) # {}
  <2>1. /\ handler[w].pc # "idle" /\ Selection!GoTo(w, "raise") /\ "raise" \in Selection!Labels
        /\ rowLock' \subseteq Workers \X Invoices
        /\ UNCHANGED <<job, guard, runs, pending, faults>>
    BY <1>2, <1>t, SelectionLocks DEF Selection!Insert, Selection!InvoiceOf, Selection!At, Selection!Labels
  <2>2. /\ handler' \in [Workers -> Selection!Handler]
        /\ \A v \in Workers : v # w => handler'[v] = handler[v]
        /\ handler'[w].pc = "raise" /\ handler'[w].invoice \in Invoices
        /\ handler'[w].candidates \cup handler'[w].tariffs \subseteq DOMAIN tariffs
    BY <1>t, <2>1, SelectionGoTo DEF VerdictInv
  <2> QED BY <1>t, <2>1, <2>2, SelectionLocks, QuietSelection
<1>3. CASE Selection!LoseCommit(w)
  <2>1. /\ Selection!Written(w) /\ Selection!At(w, "insert") /\ Selection!GoTo(w, "raise")
        /\ Selection!RunsOf(handler[w].invoice) = {}
        /\ UNCHANGED <<job, guard>> /\ faults' = faults + 1
    BY <1>3 DEF Selection!LoseCommit, Selection!InvoiceOf, Selection!Fault
  <2> QED BY <2>1, WrittenStep
<1> QED BY <1>1, <1>2, <1>3

-----------------------------------------------------------------------------
(* The theorems.                                                           *)

LEMMA NextIInv == IInv /\ [Next]_vars => IInv'
<1> SUFFICES ASSUME IInv, [Next]_vars PROVE IInv'
  OBVIOUS
<1>1. CASE Manage(Catalog!Next)
  <2>1. SelectionKept
    BY <1>1 DEF Manage, SelectionKept
  <2>2. PICK c \in Clients : \/ Catalog!Begin(c) \/ Catalog!Progress(c) \/ Catalog!Refuse(c)
                            \/ Catalog!LoseCommit(c) \/ Catalog!Fail(c)
    BY <1>1 DEF Manage, Catalog!Next
  <2> QED BY <2>1, <2>2, BeginStep, LockTipStep, StoreStep, DropStep, ReadStep, WriteStep,
             CommitStep, RefuseStep, FailStep DEF Catalog!Progress
<1>2. CASE Select(Selection!Next)
  <2>1. CatalogKept
    BY <1>2 DEF Select, CatalogKept
  <2>2. PICK w \in Workers : \/ Selection!Progress(w) \/ Selection!AskFails(w)
                            \/ Selection!LoseCommit(w)
                            \/ Selection!Crash(w) \/ Selection!LoseGuard(w)
                            \/ \E i \in Invoices : Selection!Claim(w, i) \/ Selection!TakeOver(w, i)
    BY <1>2 DEF Select, Selection!Next
  <2> QED BY <2>1, <2>2, HandlerStep, ContextStep, ClaimStep, LeaveStep, LoseGuardStep,
             InsertStep DEF Selection!Progress
<1>3. CASE UNCHANGED vars
  <2>1. /\ CatalogKept /\ SelectionKept /\ faults' = faults /\ tariffs' = tariffs
    BY <1>3 DEF vars, CatalogKept, SelectionKept
  <2>2. RequestInv' /\ FileInv' /\ LockInv' /\ LineageInv' /\ NothingStrays'
    BY <2>1, CatalogFrame
  <2>3. VerdictInv' /\ SucceededHasVerdict'
    BY <2>1, SelectionFrame DEF IInv
  <2>4. TypeOK'
    BY <2>1 DEF IInv, TypeOK, CatalogKept, SelectionKept, Selection!Handler, Selection!Run
  <2> QED BY <2>2, <2>3, <2>4 DEF IInv
<1> QED BY <1>1, <1>2, <1>3 DEF Next

\* The inductive invariant of Tariffs.
THEOREM TariffsInvariant == Spec => []IInv
<1>1. Init => IInv
  BY InitIInv
<1>2. IInv /\ [Next]_vars => IInv'
  BY NextIInv
<1> QED BY <1>1, <1>2, PTL DEF Spec

\* The tables, requests and handlers keep their types.
THEOREM TariffsTypeCorrect == Spec => []TypeOK
<1>1. IInv => TypeOK
  BY DEF IInv
<1> QED BY <1>1, TariffsInvariant, PTL

\* However uploads of versions, edits and deletions overlap, lineages do not
\* fork and their versions have no gap.
THEOREM LineagesAreChainsHolds == Spec => []LineagesAreChains
<1>1. IInv => LineagesAreChains
  <2> SUFFICES ASSUME IInv, NEW t \in DOMAIN tariffs
               PROVE  LET lineage == Catalog!Versions(tariffs[t].group)
                      IN  /\ {tariffs[v].version : v \in lineage} = 1..Cardinality(lineage)
                          /\ \A v \in lineage \ {tariffs[t].group} :
                                tariffs[tariffs[v].previous].version = tariffs[v].version - 1
    BY DEF LineagesAreChains
  <2>0. /\ LineageInv /\ \A s \in DOMAIN tariffs : tariffs[s].version \in Nat
    BY DEF IInv, TypeOK, Catalog!Row
  <2>1. PICK g : g = tariffs[t].group
    OBVIOUS
  <2>2. g \in DOMAIN tariffs /\ tariffs[g].group = g
    BY <2>0, <2>1 DEF LineageInv, Chained
  <2>3. {tariffs[v].version : v \in Catalog!Versions(g)} = 1..Cardinality(Catalog!Versions(g))
    BY <2>0, <2>2 DEF LineageInv, Numbered
  <2>4. ASSUME NEW v \in Catalog!Versions(g), v # g
        PROVE  tariffs[tariffs[v].previous].version = tariffs[v].version - 1
    <3>1. v \in DOMAIN tariffs /\ tariffs[v].group = g /\ Chained(v)
      BY <2>0 DEF Catalog!Versions, LineageInv
    <3>2. /\ tariffs[v].previous \in DOMAIN tariffs
          /\ tariffs[v].version = tariffs[tariffs[v].previous].version + 1
      BY <2>4, <3>1 DEF Chained
    <3> QED BY <2>0, <3>1, <3>2
  <2> QED BY <2>1, <2>3, <2>4
<1> QED BY <1>1, TariffsInvariant, PTL

\* No compensation takes the file of a committed row.
THEOREM BytesSurviveHolds == Spec => []BytesSurvive
<1>1. IInv => BytesSurvive
  BY DEF IInv, FileInv, VerdictInv, BytesSurvive
<1> QED BY <1>1, TariffsInvariant, PTL

\* Without a failure no file is left that no row needs.
THEOREM NothingStraysHolds == Spec => []NothingStrays
<1>1. IInv => NothingStrays
  BY DEF IInv
<1> QED BY <1>1, TariffsInvariant, PTL

\* An invoice gets one verdict and is PENDING exactly when nothing was selected.
THEOREM OneVerdictHolds == Spec => []OneVerdict
<1>1. IInv => OneVerdict
  <2> SUFFICES ASSUME IInv, NEW i \in Invoices
               PROVE  /\ Cardinality(Selection!RunsOf(i)) <= 1
                      /\ i \in pending <=> \E r \in Selection!RunsOf(i) : r.status # "SELECTED"
    BY DEF OneVerdict
  <2>1. CASE Selection!RunsOf(i) = {}
    BY <2>1, FS_EmptySet DEF IInv, VerdictInv
  <2>2. CASE Selection!RunsOf(i) # {}
    <3>1. PICK r : r \in Selection!RunsOf(i)
      BY <2>2
    <3>2. Selection!RunsOf(i) = {r}
      BY <3>1 DEF IInv, VerdictInv, Selection!RunsOf
    <3>3. Cardinality(Selection!RunsOf(i)) = 1
      BY <3>2, FS_Singleton
    <3> QED BY <3>3 DEF IInv, VerdictInv
  <2> QED BY <2>1, <2>2
<1> QED BY <1>1, TariffsInvariant, PTL

\* A selection job that succeeded leaves a verdict.
THEOREM SucceededHasVerdictHolds == Spec => []SucceededHasVerdict
<1>1. IInv => SucceededHasVerdict
  BY DEF IInv
<1> QED BY <1>1, TariffsInvariant, PTL

\* The table under any step: only a commit changes it.
LEMMA TableSteps ==
    ASSUME IInv, [Next]_vars
    PROVE  \/ tariffs' = tariffs
           \/ \E c \in Clients : /\ request[c].pc = "commit"
                                 /\ tariffs' = Catalog!Committed(c)
BY DEF Next, vars, Manage, Select, Catalog!Next, Catalog!Progress, Catalog!Begin, Catalog!LockTip,
   Catalog!Store, Catalog!Refuse, Catalog!Drop, Catalog!Read, Catalog!Write, Catalog!Commit,
   Catalog!LoseCommit, Catalog!Fail, Catalog!At

\* A deleted tariff stays deleted and gets no successor.
THEOREM DeletedIsFinalHolds == Spec => DeletedIsFinal
<1> DEFINE Final == \A t \in DOMAIN tariffs : tariffs[t].deleted =>
                      tariffs'[t].deleted /\ ~\E s \in DOMAIN tariffs' \ DOMAIN tariffs :
                                                tariffs'[s].previous = t
<1>1. IInv /\ [Next]_vars => Final
  <2> SUFFICES ASSUME IInv, [Next]_vars PROVE Final
    OBVIOUS
  <2>1. CASE tariffs' = tariffs
    BY <2>1
  <2>2. ASSUME NEW c \in Clients, request[c].pc = "commit", tariffs' = Catalog!Committed(c)
        PROVE  Final
    <3>t. TypeOK /\ RequestInv /\ LockInv
      BY DEF IInv
    <3>1. /\ DOMAIN tariffs' = DOMAIN tariffs \cup Catalog!StoredBy(c)
          /\ \A t \in DOMAIN tariffs : tariffs[t].deleted => tariffs'[t].deleted
          /\ \A t \in Catalog!StoredBy(c) : tariffs'[t] = Catalog!NewRow(c, t)
      BY <2>2, CommitEffect
    <3>2. ASSUME NEW t \in DOMAIN tariffs, tariffs[t].deleted, NEW s \in Catalog!StoredBy(c)
          PROVE  tariffs'[s].previous # t
      <4>1. CASE request[c].op = "upload"
        <5>1. tariffs'[s].previous = NoOne
          BY <3>1, <4>1 DEF Catalog!NewRow, Catalog!First
        <5>2. NoOne \notin Catalog!Ids
          BY TariffsAssumption DEF Catalog!Ids
        <5> QED BY <3>t, <5>1, <5>2 DEF TypeOK
      <4>2. CASE request[c].op # "upload"
        <5>1. request[c].op = "version"
          BY <2>2, <3>t, <4>2, StoredFiles DEF RequestInv, TypeOK, Catalog!Request
        <5>2. tariffs'[s].previous = request[c].tariff
          BY <3>1, <4>2 DEF Catalog!NewRow
        <5>3. ~tariffs[request[c].tariff].deleted
          BY <2>2, <3>t, <5>1 DEF LockInv
        <5> QED BY <3>2, <5>2, <5>3
      <4> QED BY <4>1, <4>2
    <3> QED BY <3>1, <3>2
  <2> QED BY <2>1, <2>2, TableSteps
<1>2. IInv /\ [Next]_vars => [Final]_vars
  BY <1>1
<1> QED BY <1>2, TariffsInvariant, PTL DEF Spec, DeletedIsFinal

\* A withdrawn tariff is selected only if it is withdrawn between the check and
\* the insert of save.
THEOREM StaleChoiceHolds == Spec => StaleChoiceNeedsTheWindow
<1> DEFINE Window == \A w \in Workers : (Selection!At(w, "insert") /\ ~Selection!Valid(w))'
                                            => Selection!At(w, "insert")
<1>1. IInv /\ [Next]_vars => Window
  <2> SUFFICES ASSUME IInv, [Next]_vars, NEW w \in Workers,
                      (Selection!At(w, "insert") /\ ~Selection!Valid(w))'
               PROVE  Selection!At(w, "insert")
    OBVIOUS
  <2>t. TypeOK
    BY DEF IInv
  <2>1. handler'[w].pc = "insert"
    BY DEF Selection!At
  <2>2. CASE handler' = handler
    BY <2>1, <2>2 DEF Selection!At
  <2>3. CASE Select(Selection!Next)
    <3>1. tariffs' = tariffs
      BY <2>3 DEF Select
    <3>2. PICK v \in Workers : \/ Selection!Progress(v) \/ Selection!AskFails(v)
                              \/ Selection!LoseCommit(v)
                              \/ Selection!Crash(v) \/ Selection!LoseGuard(v)
                              \/ \E i \in Invoices : Selection!Claim(v, i) \/ Selection!TakeOver(v, i)
      BY <2>3 DEF Select, Selection!Next
    <3>3. CASE v # w
      <4>1. handler'[w] = handler[w]
        BY <3>2, <3>3, <2>t DEF TypeOK, Selection!Progress, Selection!Guard, Selection!Existing,
           Selection!Context, Selection!Ask, Selection!AskFails, Selection!Save,
           Selection!LockInvoice, Selection!Insert, Selection!LoseCommit, Selection!Leave,
           Selection!Crash, Selection!LoseGuard, Selection!Claim, Selection!TakeOver,
           Selection!Claimed, Selection!Ended, Selection!GoTo
      <4> QED BY <2>1, <4>1 DEF Selection!At
    <3>4. CASE v = w /\ Selection!LockInvoice(w)
      <4>1. CASE Selection!Valid(w)
        <5>1. Selection!GoTo(w, "insert")
          BY <3>4, <4>1 DEF Selection!LockInvoice
        <5>2. handler'[w].status = handler[w].status /\ handler'[w].tariffs = handler[w].tariffs
          BY <2>t, <5>1, SelectionGoTo DEF Selection!Labels
        <5>3. Catalog!Offered' = Catalog!Offered
          BY <3>1 DEF Catalog!Offered
        <5>4. Selection!Valid(w)'
          BY <4>1, <5>2, <5>3 DEF Selection!Valid
        <5> QED BY <5>4
      <4>2. CASE ~Selection!Valid(w)
        <5>1. Selection!GoTo(w, "raise")
          BY <3>4, <4>2 DEF Selection!LockInvoice
        <5> QED BY <2>t, <2>1, <5>1, SelectionGoTo DEF Selection!Labels
      <4> QED BY <4>1, <4>2
    <3>5. CASE v = w /\ ~Selection!LockInvoice(w)
      <4>1. handler' = handler \/ handler'[w].pc # "insert"
        <5>t. handler \in [Workers -> Selection!Handler]
          BY <2>t DEF TypeOK
        <5>1. CASE \/ Selection!Guard(w) \/ Selection!Existing(w) \/ Selection!AskFails(w)
                   \/ Selection!Save(w) \/ Selection!Insert(w) \/ Selection!LoseCommit(w)
          <6>1. \E label \in Selection!Labels : label # "insert" /\ Selection!GoTo(w, label)
            BY <5>1 DEF Selection!Guard, Selection!Existing, Selection!AskFails, Selection!Save,
               Selection!Insert, Selection!LoseCommit, Selection!Labels
          <6> QED BY <2>t, <6>1, SelectionGoTo
        <5>2. CASE Selection!Context(w) \/ Selection!Ask(w)
          <6>1. CASE Selection!Context(w)
            BY <5>t, <6>1 DEF Selection!Context, Selection!Handler
          <6>2. CASE Selection!Ask(w)
            <7>1. PICK status, chosen :
                     handler' = [handler EXCEPT ![w].pc = "save", ![w].status = status,
                                                ![w].tariffs = chosen]
              BY <6>2 DEF Selection!Ask
            <7> QED BY <5>t, <7>1 DEF Selection!Handler
          <6> QED BY <5>2, <6>1, <6>2
        <5>3. CASE Selection!Leave(w) \/ Selection!Crash(w)
          <6>1. handler' = [handler EXCEPT ![w] = Selection!Idle]
            BY <5>3 DEF Selection!Leave, Selection!Crash, Selection!Ended
          <6> QED BY <5>t, <6>1 DEF Selection!Idle
        <5>4. CASE \E i \in Invoices : Selection!Claim(w, i) \/ Selection!TakeOver(w, i)
          BY <5>t, <5>4 DEF Selection!Claim, Selection!TakeOver, Selection!Claimed, Selection!Idle
        <5>5. CASE Selection!LoseGuard(w)
          BY <5>5 DEF Selection!LoseGuard
        <5> QED BY <3>2, <3>5, <5>1, <5>2, <5>3, <5>4, <5>5 DEF Selection!Progress
      <4> QED BY <2>1, <2>2, <4>1
    <3> QED BY <3>3, <3>4, <3>5
  <2> QED BY <2>2, <2>3 DEF Next, Manage, vars
<1>2. IInv /\ [Next]_vars => [Window]_vars
  BY <1>1
<1> QED BY <1>2, TariffsInvariant, PTL DEF Spec, StaleChoiceNeedsTheWindow

=============================================================================
