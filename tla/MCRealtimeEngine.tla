-------------------------- MODULE MCRealtimeEngine --------------------------
(* Instances of RealtimeEngine for TLC: the lists of symbols the feed polls. *)
EXTENDS RealtimeEngine

CONSTANTS s1, s2

TwoSymbols == <<s1, s2>>

=============================================================================
