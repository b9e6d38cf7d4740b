----------------------------- MODULE MCMpDefault -----------------------------
(* MpDefault for TLC: request structures and streams are interchangeable.   *)
EXTENDS MpDefault, TLC

Symmetry == Permutations(Reqs) \union Permutations(Streams)
=============================================================================
