----------------------- MODULE MCEmailClassification -----------------------
(* Instances of EmailClassification for TLC.                               *)
EXTENDS EmailClassification, TLC

WorkerSymmetry == Permutations(Workers)
=============================================================================
