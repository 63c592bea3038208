---------------------------- MODULE MCSiteMonitor ----------------------------
(* Values for the runs of SiteMonitor. *)
EXTENDS SiteMonitor, TLC

CONSTANTS s1, r1, r2

\* Every kind of message about an outage.
OutagePrefs == {{"down", "recovery", "repeat", "prolonged"}}

\* With and without DOWN and recovery messages, and those about the certificate.
DownOnOff == {{"down", "recovery", "ssl"}, {"recovery"}, {"down"}}

\* The defaults, as far as they are about outages.
DefaultPrefs == {{"down", "recovery"}}

RunSymmetry == Permutations(Runs)

\* A site once tainted stays so, and no property then reads what was heard of it or
\* counted: states that differ only there are taken for one.
SoundHistory ==
    <<sites, prefs, blocked, up, jobs, tasks, crashes, tainted,
      [s \in Sites |-> IF s \in tainted THEN Unheard ELSE heard[s]],
      [s \in Sites |-> IF s \in tainted THEN 0 ELSE streak[s]]>>
================================================================================
