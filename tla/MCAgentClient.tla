----------------------------- MODULE MCAgentClient -----------------------------
(* Constants for the runs of AgentClient. *)
EXTENDS AgentClient

CONSTANTS j1, j2, j3
================================================================================
