----------------------------- MODULE ObjectStore -----------------------------
(***************************************************************************)
(* What StorageProvider promises: an object becomes readable at once and   *)
(* whole, and the key that store has returned is readable, through power   *)
(* failures too, until somebody asks for its deletion; a key is never used *)
(* again.                                                                  *)
(***************************************************************************)
CONSTANT Objects

VARIABLES readable,   \* objects that open_read returns
          owed,       \* objects whose key was returned and not given to delete
          deleted     \* objects whose key was given to delete

vars == <<readable, owed, deleted>>

Init == readable = {} /\ owed = {} /\ deleted = {}

Publish(o) == /\ o \notin readable \cup deleted
              /\ readable' = readable \cup {o}
              /\ UNCHANGED <<owed, deleted>>

Return(o)  == /\ o \in readable \ deleted
              /\ owed' = owed \cup {o}
              /\ UNCHANGED <<readable, deleted>>

Delete(o)  == /\ o \in readable
              /\ owed' = owed \ {o}
              /\ deleted' = deleted \cup {o}
              /\ UNCHANGED readable

\* What is not owed may go at any time; only what was being deleted may come back.
Lose(gone, back) == /\ gone \cap owed = {}
                    /\ back \subseteq deleted
                    /\ readable' = (readable \ gone) \cup back
                    /\ UNCHANGED <<owed, deleted>>

Next == \/ \E o \in Objects : Publish(o) \/ Return(o) \/ Delete(o)
        \/ \E gone, back \in SUBSET Objects : Lose(gone, back)

Spec == Init /\ [][Next]_vars
=============================================================================
