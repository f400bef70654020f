------------------------- MODULE MCAgentLifecycle -------------------------
(* Instance of AgentLifecycle for TLC.  Two agents alive at once are a      *)
(* registered one and one that winds down or is lost; two requests race.    *)
EXTENDS AgentLifecycle

=============================================================================
