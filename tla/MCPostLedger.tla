----------------------------- MODULE MCPostLedger -----------------------------
(***************************************************************************)
(* Instances of the post ledgers for TLC.                                  *)
(***************************************************************************)
EXTENDS PostLedger, TLC

CONSTANTS w1, w2, w3

Symmetry == Permutations({w1, w2, w3} \intersect Workers)
==============================================================================
