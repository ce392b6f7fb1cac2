---------------------------- MODULE MCSweepCutoff -----------------------------
(***************************************************************************)
(* Instances of the connection sweep for TLC.                              *)
(***************************************************************************)
EXTENDS SweepCutoff, TLC

CONSTANTS d1, d2, d3

Symmetry == Permutations(Deals)
==============================================================================
