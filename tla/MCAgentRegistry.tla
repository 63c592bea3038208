---------------------------- MODULE MCAgentRegistry ----------------------------
(* Constants for the run of AgentRegistry. *)
EXTENDS AgentRegistry

CONSTANTS a1, c1, c2, n1, n2
================================================================================
