---------------------------- MODULE MCCallbackOutbox ----------------------------
(***************************************************************************)
(* Instances of the callback outbox for TLC.                               *)
(***************************************************************************)
EXTENDS CallbackOutbox, TLC

CONSTANTS w1, w2, w3

Symmetry == Permutations({w1, w2, w3} \intersect (Workers \ Exporters))
==============================================================================
