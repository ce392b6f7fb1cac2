---------------------------- MODULE MCFollowUpLane ----------------------------
(***************************************************************************)
(* Instances of the LinkedIn follow-ups for TLC.                           *)
(***************************************************************************)
EXTENDS FollowUpLane, TLC

CONSTANTS w1, w2, w3, d1, d2

Symmetry == Permutations(Workers) \union Permutations(Deals)
==============================================================================
