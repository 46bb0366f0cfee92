----------------------------- MODULE MCStratum ------------------------------
(* Symmetry for the safety runs: nothing orders the clients.                *)
EXTENDS Stratum, TLC

MCSymmetry == Permutations(Clients)
=============================================================================
