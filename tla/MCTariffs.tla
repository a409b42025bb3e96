----------------------------- MODULE MCTariffs -----------------------------
(* Instances of Tariffs for TLC.                                           *)
EXTENDS Tariffs, TLC
=============================================================================
