----------------------------- MODULE MCRetention -----------------------------
(* Hours of two ticks, days of four, and a backlog longer than one run takes. *)
EXTENDS Retention

MCPeriods == {1, 3, 4, 9}
=============================================================================
