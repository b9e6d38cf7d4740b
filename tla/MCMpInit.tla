------------------------------ MODULE MCMpInit ------------------------------
(* MpInit for TLC: four ranks in a row.  The ranks in the middle have two   *)
(* peers, at client indices that differ from the ranks, the others one.     *)
EXTENDS MpInit, TLC

Row == 0 :> <<1>> @@ 1 :> <<2, 0>> @@ 2 :> <<3, 1>> @@ 3 :> <<2>>
=============================================================================
