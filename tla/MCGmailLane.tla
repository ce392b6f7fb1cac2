----------------------------- MODULE MCGmailLane ------------------------------
(***************************************************************************)
(* Instances of the Gmail lane for TLC.                                    *)
(***************************************************************************)
EXTENDS GmailLane, TLC

CONSTANTS w1, w2

Symmetry == Permutations(Workers)
==============================================================================
