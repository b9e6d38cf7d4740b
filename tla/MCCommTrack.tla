----------------------------- MODULE MCCommTrack -----------------------------
(* CommTrack for TLC.                                                       *)
EXTENDS CommTrack
=============================================================================
