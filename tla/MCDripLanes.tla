----------------------------- MODULE MCDripLanes -----------------------------
(***************************************************************************)
(* An instance of the drip lanes for TLC.                                  *)
(***************************************************************************)
EXTENDS DripLanes

CONSTANTS l1, l2, g1

Serves == [w \in Workers |-> IF w = g1 THEN Gmail ELSE LinkedIn]
Length == [c \in Channels |-> IF c = LinkedIn THEN 1 ELSE 0]
==============================================================================
