--------------------------- MODULE MCAvatarCache ---------------------------
(* Instances of AvatarCache for TLC. *)
EXTENDS AvatarCache, TLC

CONSTANTS w1, w2, r1

Workers == Permutations({w1, w2})
=============================================================================
