-------------------------- MODULE MCSessionTracking --------------------------
(* Instance of SessionTracking for TLC: two agents that overlap, two rows    *)
(* and one failure anywhere.                                                 *)
EXTENDS SessionTracking

=============================================================================
