-------------------------- MODULE TransactionLocks --------------------------
(***************************************************************************)
(* pg_advisory_xact_lock as the repositories use it: a transaction takes   *)
(* its locks one at a time, waits for each as long as another transaction  *)
(* has it, and gives them all back when it commits, rolls back or its      *)
(* connection dies.  A lock is named by a string; the repositories hash it *)
(* to 64 bits and sort by the hash.                                        *)
(***************************************************************************)
EXTENDS Naturals

CONSTANT AdvisoryKey(_)   \* the number a lock's name is hashed to

VARIABLE held             \* who holds what: a set of <<process, lock>>

LocksOf(p)  == {pair[2] : pair \in {h \in held : h[1] = p}}
Taken(lock) == \E h \in held : h[2] = lock

\* The first lock of S, in the order of the sorted keys, that p still lacks.
NextOf(p, S) == CHOOSE lock \in S \ LocksOf(p) :
                   \A other \in S \ LocksOf(p) : AdvisoryKey(lock) <= AdvisoryKey(other)

\* No other lock of S is left after it.
IsLast(p, S) == S \ LocksOf(p) = {NextOf(p, S)}

Has(p, S) == S \subseteq LocksOf(p)

\* p goes on to the next lock of S, which must be free.
TakeNext(p, S) == /\ ~Has(p, S)
                  /\ ~Taken(NextOf(p, S))
                  /\ held' = held \cup {<<p, NextOf(p, S)>>}

LetGo(p) == held' = {h \in held : h[1] # p}

\* Each process of Waiting waits for wanted[p].  No set of them waits for one
\* another: that is a deadlock, which PostgreSQL ends by aborting one of them.
NoCycle(Waiting, wanted) ==
    \A S \in SUBSET Waiting :
       S # {} => \E p \in S : \A q \in S : <<q, wanted[p]>> \notin held
=============================================================================
