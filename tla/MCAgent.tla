-------------------------------- MODULE MCAgent --------------------------------
(* Two process ids for TLC. *)
EXTENDS AgentProcess

TwoPids == 1 .. 2
=============================================================================
