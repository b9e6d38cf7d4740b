--------------------------- MODULE MCCommPingpong ---------------------------
(* CommPingpong for TLC: which ranks run async_exchange.                    *)
EXTENDS CommPingpong

EveryMix == [Ranks -> BOOLEAN]
=============================================================================
