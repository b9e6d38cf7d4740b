----------------------------- MODULE MCCommReady -----------------------------
(* CommReady for TLC: ranks are interchangeable.                            *)
EXTENDS CommReady, TLC

Symmetry == Permutations(Ranks)
=============================================================================
