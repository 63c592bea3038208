----------------------------- MODULE AgentExchange -----------------------------
(***************************************************************************)
(* What a caller of check_with_agents() relies on: a round of requests is   *)
(* sent to some of the agents, and each of them gets one outcome, for good. *)
(***************************************************************************)
CONSTANTS Rounds, Agents

VARIABLES begun, outcome

Init ==
    /\ begun = {}
    /\ outcome = [j \in Rounds \X Agents |-> "none"]

Begin(n, chosen) ==
    /\ n \notin begun
    /\ begun' = begun \cup {n}
    /\ outcome' = [j \in Rounds \X Agents |->
                     IF j[1] = n /\ j[2] \in chosen THEN "asked" ELSE outcome[j]]

Settle(j, result) ==
    /\ outcome[j] = "asked"
    /\ outcome' = [outcome EXCEPT ![j] = result]
    /\ UNCHANGED begun

Next ==
    \/ \E n \in Rounds, chosen \in SUBSET Agents : Begin(n, chosen)
    \/ \E j \in Rounds \X Agents, result \in {"answer", "error"} : Settle(j, result)

Spec == Init /\ [][Next]_<<begun, outcome>>
================================================================================
