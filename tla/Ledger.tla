-------------------------------- MODULE Ledger --------------------------------
(***************************************************************************)
(* What a door of the system promises to those who bring something in: it  *)
(* is entered unless its key or its content is in the ledger already, they *)
(* are told which of the two was the case, and whoever is told "created" or*)
(* "duplicate" can rely on the work that follows.                          *)
(*                                                                         *)
(* Search and insert are one step here, taken at some moment between the   *)
(* question and its answer.  What the code does around it (files, locks,   *)
(* queries, clean-ups) nobody sees.                                        *)
(***************************************************************************)
CONSTANTS Askers,      \* jobs or requests
          Keys,        \* names that a source or a client gave
          Contents,    \* hashes
          KeyIsName    \* whether one key always stands for one thing

VARIABLES entries,     \* <<key, content>> of everything accepted
          handed,      \* the contents whose further work is enqueued
          ask          \* what each asker wants and was told

vars == <<entries, handed, ask>>

Entry    == Keys \X Contents
Stages   == {"idle", "asked", "decided", "answered", "failed"}
Verdicts == {"none", "created", "duplicate", "conflict", "refused"}

LedgerTypeOK ==
    /\ entries \subseteq Entry
    /\ handed \subseteq Contents
    /\ ask \in [Askers -> [stage : Stages, wish : Entry \cup {<<>>},
                           verdict : Verdicts, told : Contents \cup {"none"}]]

Place(stage, wish, verdict, told) ==
    [stage |-> stage, wish |-> wish, verdict |-> verdict, told |-> told]

Resting == Place("idle", <<>>, "none", "none")
GivenUp == Place("failed", <<>>, "none", "none")

Init == entries = {} /\ handed = {} /\ ask = [a \in Askers |-> Resting]

Become(a, r) == ask' = [ask EXCEPT ![a] = r]

Decide(a, verdict, told) == Become(a, Place("decided", ask[a].wish, verdict, told))

Alike(e, f) == e[1] = f[1] \/ e[2] = f[2]

\* What makes an entry the answer to a wish.
Same(e, wish) == e[2] = wish[2] \/ (KeyIsName /\ e[1] = wish[1])

-----------------------------------------------------------------------------
\* Anything can be asked.
Ask(a) == /\ ask[a].stage = "idle"
          /\ ask'[a].wish \in Entry
          /\ Become(a, Place("asked", ask'[a].wish, "none", "none"))
          /\ UNCHANGED <<entries, handed>>

\* The asker is told, unless the acknowledgement is lost.
Enter(a) == /\ ask[a].stage = "asked"
            /\ \A e \in entries : ~Alike(e, ask[a].wish)
            /\ entries' = entries \cup {ask[a].wish}
            /\ \/ Decide(a, "created", ask[a].wish[2])
               \/ Decide(a, "refused", "none")
               \/ Become(a, GivenUp)
            /\ UNCHANGED handed

Recognise(a) == /\ ask[a].stage = "asked"
                /\ \E e \in entries : /\ Same(e, ask[a].wish)
                                      /\ Decide(a, "duplicate", e[2])
                /\ UNCHANGED <<entries, handed>>

\* The key was used for something else.
Object(a) == /\ ask[a].stage = "asked"
             /\ ~KeyIsName
             /\ \E e \in entries : e[1] = ask[a].wish[1] /\ e[2] # ask[a].wish[2]
             /\ Decide(a, "conflict", "none")
             /\ UNCHANGED <<entries, handed>>

Refuse(a) == /\ ask[a].stage = "asked"
             /\ Decide(a, "refused", "none")
             /\ UNCHANGED <<entries, handed>>

HandOn(a) == /\ ask[a].stage = "decided"
             /\ ask[a].verdict \in {"created", "duplicate"}
             /\ handed' = handed \cup {ask[a].told}
             /\ \E s \in {"decided", "answered"} : Become(a, [ask[a] EXCEPT !.stage = s])
             /\ UNCHANGED entries

Answer(a) == /\ ask[a].stage = "decided"
             /\ ask[a].verdict \in {"created", "duplicate"} => ask[a].told \in handed
             /\ Become(a, [ask[a] EXCEPT !.stage = "answered"])
             /\ UNCHANGED <<entries, handed>>

\* A failure at any moment before the answer: another attempt, or none.
GiveUp(a) == /\ ask[a].stage \notin {"answered", "failed"}
             /\ \E r \in {Resting, GivenUp} : Become(a, r)
             /\ UNCHANGED <<entries, handed>>

Next == \E a \in Askers : \/ Ask(a) \/ Enter(a) \/ Recognise(a) \/ Object(a)
                          \/ Refuse(a) \/ HandOn(a) \/ Answer(a) \/ GiveUp(a)

Spec == Init /\ [][Next]_vars

-----------------------------------------------------------------------------
(* What follows for whoever uses the ledger.                               *)

\* Nothing is in the ledger twice, under either of its names.
UniqueEntries == \A e, f \in entries : Alike(e, f) => e = f

\* No two askers are both told that they brought the same thing first.
OneCreator ==
    \A a, b \in Askers : /\ a # b
                         /\ ask[a].verdict = "created" /\ ask[b].verdict = "created"
                         => ~Alike(ask[a].wish, ask[b].wish)

\* Who is told "created" or "duplicate" is told of an entry that is what it
\* brought; once answered, the further work of that entry is enqueued.
ToldTheTruth ==
    \A a \in Askers : ask[a].verdict \in {"created", "duplicate"} =>
       /\ \E e \in entries : Same(e, ask[a].wish) /\ e[2] = ask[a].told
       /\ ask[a].stage = "answered" => ask[a].told \in handed

\* An answer is final and nothing is ever taken out of the ledger.
NothingIsTakenBack ==
    [][/\ entries \subseteq entries' /\ handed \subseteq handed'
       /\ \A a \in Askers : ask[a].stage = "answered" => ask'[a] = ask[a]]_vars

\* A wish lasts from the question to the answer, and so does its verdict.
Wishes ==
    \A a \in Askers :
       /\ ask[a].stage \in {"asked", "decided", "answered"} => ask[a].wish \in Entry
       /\ ask[a].stage \notin {"decided", "answered"} => ask[a].verdict = "none"
       /\ ask[a].verdict = "created" => ask[a].wish \in entries

LedgerInv == LedgerTypeOK /\ Wishes /\ UniqueEntries /\ OneCreator /\ ToldTheTruth
=============================================================================
