------------------------------ MODULE DnsMonitor ------------------------------
(***************************************************************************)
(* DNS monitoring of one site: monitor_site_dns() of the scheduler with the *)
(* snapshot and the change events of db.py, against the settings requests   *)
(* of the Mini App.                                                         *)
(*                                                                         *)
(* The database calls of this part run in worker threads, so they interleave*)
(* with everything.  In record_dns_snapshot() the repository gives up the   *)
(* row lock of each SELECT ... FOR UPDATE when the row is fetched (see      *)
(* repository.py), so the recheck of the setting, the read of the snapshot  *)
(* and the transaction that writes are three steps.                         *)
(***************************************************************************)
EXTENDS Naturals, Sequences, FiniteSets

CONSTANTS
    Tasks,          \* process_site() tasks that may work on the site at once
    Requests,       \* PUT requests for the check settings
    Types,          \* record types: "IP", and "NS", "MX"
    Records,        \* addresses, or names, numbered as they are sorted
    Answers,        \* sets of them that the DNS may answer
    Null,           \* a lookup that failed; no address
    Scopes          \* bounds of the behaviours considered, see Scope

\* In one behaviour the owner gives notify_dns some values; the DNS changes, "disabled"
\* is saved, the process restarts, and a message is delivered but not recorded as such
\* so many times.
Scope == [prefs : SUBSET BOOLEAN, changes : Nat, disables : Nat, restarts : Nat, slips : Nat]

DnsAssumption ==
    /\ "IP" \in Types /\ Types \subseteq {"IP", "NS", "MX"}
    /\ Records \subseteq Nat \ {0} /\ Records # {}
    /\ Answers \subseteq (SUBSET Records) \ {{}}
    /\ Null \notin Records /\ \A S \in SUBSET Records : S # Null
    /\ Scopes \subseteq Scope

ASSUME DnsAssumption

VARIABLES
    world,      \* what the DNS answers now
    enabled,    \* site_check_settings.dns_monitoring_enabled
    pref,       \* the owner's notify_dns
    ip,         \* sites.last_resolved_ip
    snap,       \* the row of site_dns_snapshots
    log,        \* dns_change_events, by record type
    tasks,
    puts,
    interval,   \* history: 1 + the number of times "disabled" was saved
    torn,       \* history: a run recorded what it found although it began before "disabled"
    spent,      \* history: [changes, restarts, slips] so far
    scope       \* the bounds of this behaviour

vars == <<world, enabled, pref, ip, snap, log, tasks, puts, interval, torn, spent, scope>>

\* since and first are history: the interval in which the run began that found a value,
\* 0 for an address that the migration copied from last_resolved_ip; and the value that
\* became the baseline, with the number of events at that time.
NoSnap == [there |-> FALSE, v |-> [t \in Types |-> Null], base |-> FALSE,
           since |-> [t \in Types |-> 0],
           first |-> [t \in Types |-> <<Null, 0>>]]

\* from and to are history: the intervals in which the runs began that found the values;
\* so is told, the number of messages that named the event, counted to scope.slips + 2.
Event == [prev : SUBSET Records, new : SUBSET Records, from : Nat, to : Nat,
          notified : BOOLEAN, told : Nat]

Idle == [pc |-> "idle", got |-> [t \in Types |-> Null], row |-> NoSnap, pref |-> FALSE,
         ids |-> {}, sent |-> FALSE, at |-> 0, bad |-> FALSE]

\* at is history: the interval in which this run began, before all its lookups.  So is
\* bad: something failed in this run or the last one.
Failed == [Idle EXCEPT !.bad = TRUE]

NoPut == [pc |-> "idle", want |-> FALSE]

Lowest(S) == CHOOSE x \in S : \A y \in S : x <= y

Init ==
    /\ world \in [Types -> Answers]
    /\ enabled = TRUE
    /\ scope \in Scopes
    /\ pref \in scope.prefs
    /\ ip = Null
    /\ snap = NoSnap
    /\ log = [t \in Types |-> <<>>]
    /\ tasks = [r \in Tasks |-> Idle]
    /\ puts = [p \in Requests |-> NoPut]
    /\ interval = 1
    /\ torn = FALSE
    /\ spent = [changes |-> 0, restarts |-> 0, slips |-> 0]

-----------------------------------------------------------------------------
(* The task of one site.                                                   *)

Goto(r, pc) == tasks' = [tasks EXCEPT ![r].pc = pc]

ToList(r, bad) ==
    tasks' = [tasks EXCEPT ![r] = [Idle EXCEPT !.pc = "list", !.pref = tasks[r].pref,
                                               !.bad = bad]]

Rest == <<world, enabled, pref, puts, interval, torn, scope>>

\* process_site() reads the check settings and starts the HTTP check.
Start(r) ==
    /\ tasks[r].pc = "idle"
    /\ tasks' = [tasks EXCEPT ![r] =
                   [Idle EXCEPT !.pc = IF enabled THEN "check" ELSE "checkOnly",
                                !.at = interval]]
    /\ UNCHANGED <<Rest, ip, snap, log, spent>>

\* The check succeeded with these addresses: preferences are read and
\* update_site_success() stores one of them.
Checked(r) ==
    /\ tasks[r].pc \in {"check", "checkOnly"}
    /\ ip' \in world["IP"]
    /\ tasks' = [tasks EXCEPT ![r] =
                   IF @.pc = "checkOnly" THEN Idle
                   ELSE [@ EXCEPT !.pc = "look", !.got["IP"] = world["IP"], !.pref = pref]]
    /\ UNCHANGED <<Rest, snap, log, spent>>

\* The check failed: process_site() does not come to the DNS.
CheckFailed(r) ==
    /\ tasks[r].pc \in {"check", "checkOnly"}
    /\ tasks' = [tasks EXCEPT ![r] = Failed]
    /\ UNCHANGED <<Rest, ip, snap, log, spent>>

\* resolve_dns_snapshot(): some lookups may fail; without a zone there is no MX.
LookedUp(r, failed) ==
    /\ tasks[r].pc = "look"
    /\ "NS" \in failed => Types \cap {"MX"} \subseteq failed
    /\ tasks' = [tasks EXCEPT ![r] = [@ EXCEPT
                   !.pc = "recheck", !.bad = failed # {},
                   !.got = [t \in Types |-> IF t = "IP" THEN tasks[r].got[t]
                                            ELSE IF t \in failed THEN Null ELSE world[t]]]]
    /\ UNCHANGED <<Rest, ip, snap, log, spent>>

\* record_dns_snapshot(): the setting is read again.
Recheck(r) ==
    /\ tasks[r].pc = "recheck"
    /\ IF enabled THEN Goto(r, "read") ELSE ToList(r, tasks[r].bad)
    /\ UNCHANGED <<Rest, ip, snap, log, spent>>

Read(r) ==
    /\ tasks[r].pc = "read"
    /\ tasks' = [tasks EXCEPT ![r].pc = "write", ![r].row = snap]
    /\ UNCHANGED <<Rest, ip, snap, log, spent>>

Changed(row, got) ==
    {t \in Types : ~row.base /\ Null \notin {got[t], row.v[t]} /\ got[t] # row.v[t]}

Merged(row, got) == [t \in Types |-> IF got[t] = Null THEN row.v[t] ELSE got[t]]

\* The history of a snapshot: when its values were found, and from which value on
\* changes are reported.
Since(row, got, n) == [t \in Types |-> IF got[t] = Null THEN row.since[t] ELSE n]

First(row, got) ==
    [t \in Types |-> IF got[t] # Null /\ (row.base \/ row.v[t] = Null)
                     THEN <<got[t], Len(log[t])>> ELSE row.first[t]]

Incomplete(got) == \E t \in Types : got[t] = Null

\* Mutated form of Updated: the mark is never taken back.
UpdatedForever(row, got, n) ==
    [there |-> TRUE, v |-> Merged(row, got), base |-> row.base,
     since |-> Since(row, got, n), first |-> First(row, got)]

\* Mutated form of Updated: one snapshot is enough for a new baseline.
UpdatedPartly(row, got, n) ==
    [there |-> TRUE, v |-> Merged(row, got), base |-> FALSE,
     since |-> Since(row, got, n), first |-> First(row, got)]

\* The snapshot after the lookups got, found when the row was read.
Updated(row, got, n) ==
    [there |-> TRUE, v |-> Merged(row, got), base |-> row.base /\ Incomplete(got),
     since |-> Since(row, got, n), first |-> First(row, got)]

\* Mutated form of Write: the events are not stored.
WriteSnapshotOnly(r) ==
    /\ tasks[r].pc = "write"
    /\ snap' = Updated(tasks[r].row, tasks[r].got, tasks[r].at)
    /\ ToList(r, tasks[r].bad)
    /\ torn' = (torn \/ tasks[r].at # interval)
    /\ UNCHANGED <<world, enabled, pref, puts, interval, scope, ip, log, spent>>

\* The transaction that writes; a second first snapshot breaks the unique key.
Write(r) ==
    LET task == tasks[r]
        row  == task.row
        new  == Updated(row, task.got, task.at)
        event(t) == [prev |-> row.v[t], new |-> task.got[t], from |-> row.since[t],
                     to |-> task.at, notified |-> FALSE, told |-> 0]
    IN  /\ task.pc = "write"
        /\ \/ row.there /\ snap' = new /\ ip' = Lowest(new.v["IP"])
           \/ ~row.there /\ ~snap.there /\ snap' = new /\ UNCHANGED ip
           \/ ~row.there /\ snap.there /\ UNCHANGED <<snap, ip>>
        /\ log' = [t \in Types |-> IF t \in Changed(row, task.got)
                                   THEN Append(log[t], event(t)) ELSE log[t]]
        /\ ToList(r, task.bad)
        /\ torn' = (torn \/ task.at # interval)
        /\ UNCHANGED <<world, enabled, pref, puts, interval, scope, spent>>

\* A lookup or the database raised; the except clause goes on with the list.
RecordFails(r) ==
    /\ tasks[r].pc \in {"look", "recheck", "read", "write"}
    /\ ToList(r, TRUE)
    /\ UNCHANGED <<Rest, ip, snap, log, spent>>

Ids == UNION {{t} \X (1..Len(log[t])) : t \in Types}

Pending == {e \in Ids : ~log[e[1]][e[2]].notified}

\* get_pending_dns_changes()
List(r) ==
    /\ tasks[r].pc = "list"
    /\ tasks' = [tasks EXCEPT ![r] =
                   IF enabled /\ Pending # {}
                   THEN [@ EXCEPT !.pc = IF tasks[r].pref THEN "send" ELSE "mark", !.ids = Pending]
                   ELSE Idle]
    /\ UNCHANGED <<Rest, ip, snap, log, spent>>

Told(ids) == [t \in Types |-> [i \in DOMAIN log[t] |->
                [log[t][i] EXCEPT !.told = IF <<t, i>> \in ids /\ @ < scope.slips + 2 THEN @ + 1 ELSE @]]]

Marked(ids) == [t \in Types |-> [i \in DOMAIN log[t] |->
                  [log[t][i] EXCEPT !.notified = @ \/ <<t, i>> \in ids]]]

Slip == spent.slips < scope.slips /\ spent' = [spent EXCEPT !.slips = @ + 1]

Send(r) ==
    /\ tasks[r].pc = "send"
    /\ log' = Told(tasks[r].ids)
    /\ tasks' = [tasks EXCEPT ![r].pc = "mark", ![r].sent = TRUE]
    /\ UNCHANGED <<Rest, ip, snap, spent>>

\* send_message() raised, with the message delivered or not.
SendFails(r) ==
    /\ tasks[r].pc = "send"
    /\ \/ UNCHANGED <<log, spent>>
       \/ log' = Told(tasks[r].ids) /\ Slip
    /\ tasks' = [tasks EXCEPT ![r] = Failed]
    /\ UNCHANGED <<Rest, ip, snap>>

\* Mutated form of Mark: the events stay pending.
MarkNothing(r) ==
    /\ tasks[r].pc = "mark"
    /\ tasks' = [tasks EXCEPT ![r] = Idle]
    /\ UNCHANGED <<Rest, ip, snap, log, spent>>

\* mark_dns_changes_notified()
Mark(r) ==
    /\ tasks[r].pc = "mark"
    /\ log' = Marked(tasks[r].ids)
    /\ tasks' = [tasks EXCEPT ![r] = Idle]
    /\ UNCHANGED <<Rest, ip, snap, spent>>

\* The database raised while the changes were listed or marked: process_site()
\* ends with its error report.
Fails(r) ==
    /\ tasks[r].pc \in {"list", "mark"}
    /\ IF tasks[r].sent THEN Slip ELSE UNCHANGED spent
    /\ tasks' = [tasks EXCEPT ![r] = Failed]
    /\ UNCHANGED <<Rest, ip, snap, log>>

TaskStep(r) ==
    \/ Start(r) \/ Checked(r) \/ CheckFailed(r) \/ Recheck(r) \/ Read(r) \/ Write(r)
    \/ \E failed \in SUBSET (Types \ {"IP"}) : LookedUp(r, failed)
    \/ RecordFails(r) \/ List(r) \/ Send(r) \/ SendFails(r) \/ Mark(r) \/ Fails(r)

-----------------------------------------------------------------------------
(* Settings.                                                               *)

\* Mutated form of Put: what is given need not be a boolean.
PutUnchecked(p) ==
    /\ puts[p].pc = "idle"
    /\ \E want \in BOOLEAN \cup {Null} :
         puts' = [puts EXCEPT ![p] = [pc |-> "validate", want |-> want]]
    /\ UNCHANGED <<world, enabled, pref, ip, snap, log, tasks, interval, torn, spent, scope>>

\* site_check_settings(): the request gives the boolean, or takes over the one
\* it reads now; then the target is validated.
Put(p) ==
    /\ puts[p].pc = "idle"
    /\ \E want \in BOOLEAN :
         puts' = [puts EXCEPT ![p] = [pc |-> "validate", want |-> want]]
    /\ UNCHANGED <<world, enabled, pref, ip, snap, log, tasks, interval, torn, spent, scope>>

\* set_site_check_settings(): "disabled" asks for a new baseline and retires
\* what is pending.
Save(p) ==
    LET want == puts[p].want
    IN  /\ puts[p].pc = "validate"
        /\ want \/ interval <= scope.disables
        /\ enabled' = want
        /\ snap' = IF want \/ ~snap.there THEN snap ELSE [snap EXCEPT !.base = TRUE]
        /\ log' = IF want THEN log ELSE Marked(Pending)
        /\ interval' = IF want THEN interval ELSE interval + 1
        /\ puts' = [puts EXCEPT ![p] = NoPut]
        /\ UNCHANGED <<world, pref, ip, tasks, torn, spent, scope>>

\* The target is refused, or the site is managed by someone else by now.
Refuse(p) ==
    /\ puts[p].pc = "validate"
    /\ puts' = [puts EXCEPT ![p] = NoPut]
    /\ UNCHANGED <<world, enabled, pref, ip, snap, log, tasks, interval, torn, spent, scope>>

SetPref ==
    /\ pref' \in scope.prefs \ {pref}
    /\ UNCHANGED <<world, enabled, ip, snap, log, tasks, puts, interval, torn, spent, scope>>

-----------------------------------------------------------------------------
(* The world.                                                              *)

DnsChanges(t) ==
    /\ spent.changes < scope.changes
    /\ \E a \in Answers \ {world[t]} : world' = [world EXCEPT ![t] = a]
    /\ spent' = [spent EXCEPT !.changes = @ + 1]
    /\ UNCHANGED <<enabled, pref, ip, snap, log, tasks, puts, interval, torn, scope>>

\* A crash, and the start with its migration: a site without a snapshot gets
\* one from last_resolved_ip.
Restart ==
    LET lost == \E r \in Tasks : tasks[r].sent
    IN  /\ spent.restarts < scope.restarts
        /\ lost => spent.slips < scope.slips
        /\ spent' = [spent EXCEPT !.restarts = @ + 1, !.slips = IF lost THEN @ + 1 ELSE @]
        /\ snap' = IF snap.there \/ ip = Null THEN snap
                   ELSE [NoSnap EXCEPT !.there = TRUE, !.v["IP"] = {ip},
                                         !.first["IP"] = <<{ip}, 0>>]
        /\ tasks' = [r \in Tasks |-> Idle]
        /\ puts' = [p \in Requests |-> NoPut]
        /\ UNCHANGED <<world, enabled, pref, ip, log, interval, torn, scope>>

Next ==
    \/ \E r \in Tasks : TaskStep(r)
    \/ \E p \in Requests : Put(p) \/ Save(p) \/ Refuse(p)
    \/ SetPref
    \/ \E t \in Types : DnsChanges(t)
    \/ Restart

Spec == Init /\ [][Next]_vars

-----------------------------------------------------------------------------
(* Properties.                                                             *)

Value == {Null} \cup SUBSET Records

Snap == [there : BOOLEAN, v : [Types -> Value], base : BOOLEAN,
         since : [Types -> Nat], first : [Types -> Value \X Nat]]

Task == [pc : {"idle", "check", "checkOnly", "look", "recheck", "read", "write",
               "list", "send", "mark"},
         got : [Types -> Value], row : Snap, pref : BOOLEAN, ids : SUBSET Ids,
         sent : BOOLEAN, at : Nat, bad : BOOLEAN]

TypeOK ==
    /\ scope \in Scopes
    /\ world \in [Types -> Answers]
    /\ enabled \in BOOLEAN /\ pref \in scope.prefs
    /\ ip \in Records \cup {Null}
    /\ snap \in Snap
    /\ log \in [Types -> Seq(Event)]
    /\ tasks \in [Tasks -> Task]
    /\ puts \in [Requests -> [pc : {"idle", "validate"}, want : BOOLEAN]]
    /\ interval \in 1..(scope.disables + 1)
    /\ torn \in BOOLEAN
    /\ spent \in [changes : 0..scope.changes, restarts : 0..scope.restarts, slips : 0..scope.slips]

Events == {log[e[1]][e[2]] : e \in Ids}

\* A reported change lies between two values that were looked up in the same enabled
\* interval: what an earlier interval left in the snapshot is never compared with, although
\* a lookup of one type fails for as long as it likes.  Two exceptions: an address that the
\* migration copied, and all that comes after a run of the task that began before
\* "disabled" was saved and that record_dns_snapshot() let record all the same, because
\* monitoring was enabled again before its recheck, or disabled only after it.
SameInterval == ~torn => \A e \in Events : e.from \in {0, e.to}

\* No change is lost: from the baseline over the events of a type one comes to
\* the snapshot, although the task works on a copy of the row.
NoChangeLost ==
    \A t \in Types :
        LET first == snap.first[t]
        IN  snap.v[t] = IF Len(log[t]) > first[2] THEN log[t][Len(log[t])].new ELSE first[1]

\* The owner reads of each change once, and once more for every message that
\* was delivered without being recorded.
ToldOnce == \A e \in Events : e.told <= 1 + spent.slips

\* What the README says of re-enabling, of an address that the migration copied: it
\* does not serve as the baseline of monitoring that was enabled again.  It does.
SeedIsNoBaseline == \A e \in Events : e.from = 0 => e.to = 1

-----------------------------------------------------------------------------
(* Liveness.                                                               *)

\* The scheduler starts the task again and again, and each await ends.
FairSpec == Spec /\ \A r \in Tasks : WF_vars(TaskStep(r))

\* From some time on nothing fails.
Calm == <>[](\A r \in Tasks : ~tasks[r].bad)

\* Whatever failed before, a stored change is told or put away in the end, while
\* monitoring is enabled.
PendingSettled ==
    Calm => \A t \in Types :
              (\E i \in DOMAIN log[t] : ~log[t][i].notified) ~> (Pending = {} \/ ~enabled)

\* Whatever failed before, and wherever a save fell, the snapshot catches up with
\* the DNS and is a baseline again.
CatchesUp == Calm /\ <>[]enabled => <>[](snap.v = world /\ ~snap.base)
================================================================================
