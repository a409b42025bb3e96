------------------------------ MODULE MCIntake ------------------------------
(* Instances of Intake for TLC.                                            *)
EXTENDS Intake, TLC

CONSTANTS t1, t2, t3, t4

\* t2 is the same mail again, t3 the same mail under another UID, t4 another
\* mail with the UID of t1 in another folder.
MCSourceOf(t) == [key     |-> IF t = t3 THEN "k2" ELSE "k1",
                  content |-> IF t = t4 THEN "c2" ELSE "c1"]

\* An order that puts locks of different kinds, and the two locks of some
\* process in either order.
MCAdvisoryKey(lock) ==
    CASE lock[1] = "server"             -> IF lock[2] = "k1" THEN 1 ELSE 5
      [] lock[1] = "content"            -> IF lock[2] = "c1" THEN 3 ELSE 4
      [] lock[1] = "submission-key"     -> IF lock[2] = <<"manual", "x">> THEN 12 ELSE 10
      [] lock[1] = "submission-content" -> 11
      [] OTHER                          -> 20

\* Requests with the same partner, with the same document id under another
\* name, with a name alone and with no partner at all.
MCPartnerOf(content) ==
    CASE content \in {"h1", "c2"} -> [name |-> "acme", document |-> "d1"]
      [] content = "h2"           -> [name |-> "acme ltd", document |-> "d1"]
      [] content = "c1"           -> [name |-> "acme ltd", document |-> "none"]
      [] OTHER                    -> NoPartner
=============================================================================
