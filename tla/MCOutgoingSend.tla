--------------------------- MODULE MCOutgoingSend ---------------------------
(* OutgoingSend on small instances. *)
EXTENDS OutgoingSend, TLC

CONSTANTS r1, r2, k1, k2, u1, u2, t1, w1, w2

\* The keys, and the workers, are interchangeable.
Symmetry == Permutations(Key) \cup Permutations(Worker) \cup Permutations(Upload)
=============================================================================
