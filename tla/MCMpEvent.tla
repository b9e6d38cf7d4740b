------------------------------ MODULE MCMpEvent ------------------------------
(* MpEvent for TLC: request structures and streams are interchangeable.     *)
EXTENDS MpEvent, TLC

Symmetry == Permutations(Reqs) \union Permutations(Streams)
=============================================================================
