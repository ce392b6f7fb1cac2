------------------------------ MODULE MCTaskQueue ------------------------------
(***************************************************************************)
(* Instances of the shared task table for TLC.                             *)
(***************************************************************************)
EXTENDS TaskQueue, TLC

CONSTANTS o1, o2, c1, c2, r1, r2, r3

\* o1 answers c1, o2 answers c2.
Owners == [c \in Replies |-> IF c = c1 THEN o1 ELSE o2]

Symmetry == Permutations({r1, r2, r3} \intersect Rows)
==============================================================================
