-------------------------- MODULE MCMediaStore --------------------------
(* MediaStore on small instances. *)
EXTENDS MediaStore, TLC

CONSTANTS a1, a2, u1, w1, w2, r1, r2

Merged   == {<<a1, a2>>}
Symmetry == Permutations(Worker) \cup Permutations(Reader)

\* Of a fault, a restart and a move, at most two happen.
TwoIncidents == faults + restarts + moves <= 2
=============================================================================
