----------------------------- MODULE MCDnsMonitor -----------------------------
(* Constants for the runs of DnsMonitor. *)
EXTENDS DnsMonitor

CONSTANTS r1, p1

MCScopes ==
    {[prefs |-> {TRUE}, changes |-> 1, disables |-> 1, restarts |-> 0, slips |-> 1],
     [prefs |-> {TRUE, FALSE}, changes |-> 1, disables |-> 0, restarts |-> 1, slips |-> 0]}

SeedScopes ==
    {[prefs |-> {FALSE}, changes |-> 1, disables |-> 1, restarts |-> 1, slips |-> 0]}
================================================================================
