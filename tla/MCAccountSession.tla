-------------------------- MODULE MCAccountSession --------------------------
(* AccountSession on small instances. *)
EXTENDS AccountSession, TLC

CONSTANTS a1, a2

Symmetry == Permutations(Account)
=============================================================================
