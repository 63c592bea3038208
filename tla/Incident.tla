------------------------------- MODULE Incident -------------------------------
(***************************************************************************)
(* What the monitor promises about the outages of each site.  An outage is  *)
(* open, then told to the owner, then recorded as told; it ends before the  *)
(* next one begins.  "void" is a site the promise no longer covers.         *)
(***************************************************************************)
CONSTANT Sites

VARIABLE phase

Init == phase = [s \in Sites |-> "none"]

Open(s)   == phase[s] = "none" /\ phase' = [phase EXCEPT ![s] = "open"]

Tell(s)   == phase[s] = "open" /\ phase' = [phase EXCEPT ![s] = "told"]

Record(s) == phase[s] = "told" /\ phase' = [phase EXCEPT ![s] = "alerted"]

Close(s)  == /\ phase[s] \in {"open", "told", "alerted"}
             /\ phase' = [phase EXCEPT ![s] = "none"]

Void(some) == phase' = [s \in Sites |-> IF s \in some THEN "void" ELSE phase[s]]

Next ==
    \/ \E s \in Sites : Open(s) \/ Tell(s) \/ Record(s) \/ Close(s)
    \/ \E some \in SUBSET Sites : Void(some)

Spec == Init /\ [][Next]_phase
================================================================================
