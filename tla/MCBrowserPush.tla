-------------------------- MODULE MCBrowserPush --------------------------
(* BrowserPush on small instances. *)
EXTENDS BrowserPush, TLC

CONSTANTS s1, s2, e1, m1, m2, w1, w2

Symmetry == Permutations(Session) \cup Permutations(Worker)
=============================================================================
