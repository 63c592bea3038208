------------------------------ MODULE SiteMonitor ------------------------------
(***************************************************************************)
(* The scheduled monitor of bot/telegram/scheduler.py: monitor() starts a   *)
(* run over all due sites, process_site() checks one site and keeps its     *)
(* incident, its failure counter and its notification flags, and tells the  *)
(* owner through Telegram.                                                  *)
(*                                                                         *)
(* One action is the code between two awaits: the event loop runs nothing   *)
(* else in between.  A step of a task is named after the await it is        *)
(* suspended in.  The sites of the model belong to one owner and have valid *)
(* addresses (process_site returns at once for the others).                 *)
(***************************************************************************)
EXTENDS Naturals, FiniteSets

CONSTANTS
    Sites,          \* the rows of table sites at the start
    SharedSites,    \* those whose project has members besides the owner
    Runs,           \* identities for executions of monitor() in flight
    MaxInstances,   \* MONITOR_MAX_INSTANCES
    MaxConcurrent,  \* MAX_CONCURRENT_CHECKS
    Threshold,      \* HTTP_FAILURE_THRESHOLD
    FailCap,        \* bound: failure counts saturate here
    ConfirmDown,    \* MONITOR_CONFIRM_DOWN_ENABLED
    Expiries,       \* subset of {"ssl", "domain"}: expiries that may come near
    PrefChoices,    \* the sets of notification preferences the owner picks from
    DbErrors,       \* may the database fail between two commits of a handler?
    MaxCrashes      \* bound: restarts of the process

MonitorAssumption ==
    /\ SharedSites \subseteq Sites
    /\ IsFiniteSet(Sites) /\ IsFiniteSet(Runs)
    /\ MaxInstances \in Nat \ {0} /\ MaxConcurrent \in Nat \ {0}
    /\ Threshold \in Nat \ {0}
    /\ FailCap \in Nat /\ FailCap >= Threshold
    /\ ConfirmDown \in BOOLEAN /\ DbErrors \in BOOLEAN
    /\ Expiries \subseteq {"ssl", "domain"}
    /\ PrefChoices # {}
    /\ PrefChoices \subseteq
         SUBSET {"down", "recovery", "repeat", "prolonged", "ssl", "domain"}
    /\ MaxCrashes \in Nat

ASSUME MonitorAssumption

VARIABLES
    sites,    \* the row of each site with its open central incident
    prefs,    \* the owner's effective preferences per site
    blocked,  \* has the owner blocked the bot?
    up,       \* does the site answer at this moment?
    jobs,     \* the scheduler's view of each run
    tasks,    \* process_site() of each run and site
    crashes,
    \* History, read by properties only:
    heard,    \* what the owner received about the current incident
    streak,   \* evaluations in a row that found the site down
    tainted   \* sites two tasks handled at once, or whose commits were torn

vars == <<sites, prefs, blocked, up, jobs, tasks, crashes, heard, streak, tainted>>

Reminder == {"repeat", "prolonged"}
PrefKind == {"down", "recovery", "ssl", "domain"} \cup Reminder
Issue    == {"down"} \cup Reminder \cup Expiries
Awaiting == {"idle", "queued", "check", "domain", "confirm", "recSend", "recAck",
             "dns", "renewSend", "alertSend", "alertAck", "background", "errSend",
             "operSend", "operLast"}

\* started is sites.incident_started_at, open the open central_incidents row,
\* acked and prolonged two of that row's columns.
Row == [exists : BOOLEAN, excluded : BOOLEAN, started : BOOLEAN, open : BOOLEAN,
        acked : BOOLEAN, prolonged : BOOLEAN, notified : BOOLEAN,
        fails : 0..FailCap, warned : SUBSET Expiries]

\* The local variables of process_site() that are still read later.
Task == [pc : Awaiting, inc : BOOLEAN, ok : BOOLEAN, notified : BOOLEAN,
         fails : 0..FailCap, prefs : SUBSET PrefKind,
         renew : SUBSET Expiries, issues : SUBSET Issue]

\* unacked: the kinds delivered in a message whose answer the bot never got.
Notice == [downs : 0..2, prolonged : 0..2, late : 0..2, unacked : SUBSET {"down", "prolonged"}]

NewRow == [exists |-> TRUE, excluded |-> FALSE, started |-> FALSE, open |-> FALSE,
           acked |-> FALSE, prolonged |-> FALSE, notified |-> FALSE,
           fails |-> 0, warned |-> {}]
GoneRow == [NewRow EXCEPT !.exists = FALSE]

Idle == [pc |-> "idle", inc |-> FALSE, ok |-> FALSE, notified |-> FALSE,
         fails |-> 0, prefs |-> {}, renew |-> {}, issues |-> {}]

Unheard == [downs |-> 0, prolonged |-> 0, late |-> 0, unacked |-> {}]

Init ==
    /\ sites = [s \in Sites |-> NewRow]
    /\ prefs \in [Sites -> PrefChoices]
    /\ blocked = FALSE
    /\ up = [s \in Sites |-> TRUE]
    /\ jobs = [r \in Runs |-> "free"]
    /\ tasks = [r \in Runs |-> [s \in Sites |-> Idle]]
    /\ crashes = 0
    /\ heard = [s \in Sites |-> Unheard]
    /\ streak = [s \in Sites |-> 0]
    /\ tainted = {}

-----------------------------------------------------------------------------
(* Database rows.  An UPDATE of a deleted row changes nothing.             *)

\* Mutated form of Put: the row is written as if it were still there.
PutAnyway(s, row) == [sites EXCEPT ![s] = row]

Put(s, row) == [sites EXCEPT ![s] = IF sites[s].exists THEN row ELSE @]

OpenIncident(row) == [row EXCEPT !.started = TRUE, !.open = TRUE]

\* Mutated form of ClearIncident: the legacy column is left alone.
ClearCentralOnly(row) ==
    [row EXCEPT !.open = FALSE, !.acked = FALSE, !.prolonged = FALSE]

ClearIncident(row) ==
    [row EXCEPT !.started = FALSE, !.open = FALSE, !.acked = FALSE, !.prolonged = FALSE]

\* The code counts on; it only compares the count with the threshold.
Bump(n) == IF n < FailCap THEN n + 1 ELSE n

Twice(n) == IF n < 2 THEN n + 1 ELSE n

-----------------------------------------------------------------------------
(* Control flow of a task.                                                 *)

Goto(r, s, t) == tasks' = [tasks EXCEPT ![r][s] = t]

AlsoActive(r, s) == {q \in Sites \ {s} : tasks[r][q].pc # "idle"}

\* process_site() returns; gather() and the job end with the last task.
End(r, s) ==
    /\ Goto(r, s, Idle)
    /\ jobs' = [jobs EXCEPT ![r] = IF AlsoActive(r, s) = {} THEN "free" ELSE @]

\* process_site() raises: gather() propagates at once, the scheduler sees the
\* job as finished, and the other tasks of the run go on.
Abandon(r, s) ==
    /\ Goto(r, s, Idle)
    /\ jobs' = [jobs EXCEPT ![r] = IF AlsoActive(r, s) = {} THEN "free" ELSE "abandoned"]

\* The next await after the HTTP and DNS parts.
NextStop(t) ==
    [Idle EXCEPT !.pc = IF t.renew # {} THEN "renewSend"
                        ELSE IF t.issues # {} THEN "alertSend" ELSE "background",
                 !.renew = t.renew, !.issues = t.issues]

ToErrorReport(r, s) == Goto(r, s, [Idle EXCEPT !.pc = "errSend"])

\* Two commits in a row; the database may refuse the first or the second.
Commits(r, s, first, second, next) ==
    \/ /\ sites' = Put(s, second)
       /\ Goto(r, s, next)
       /\ UNCHANGED tainted
    \/ /\ DbErrors /\ sites[s].exists
       /\ \E row \in {sites[s], first} : row # second /\ sites' = Put(s, row)
       /\ ToErrorReport(r, s)
       /\ tainted' = tainted \cup {s}

\* The incident is over: what was heard of it no longer counts.
Forget(s) == heard' = [heard EXCEPT ![s] = Unheard]

-----------------------------------------------------------------------------
(* The scheduler and the semaphore.                                        *)

\* monitor(): the rows are read once; incident_started_at travels with them.
StartRun(r) ==
    LET due == {s \in Sites : sites[s].exists /\ ~sites[s].excluded}
    IN  /\ jobs[r] = "free"
        /\ Cardinality({q \in Runs : jobs[q] = "gathering"}) < MaxInstances
        /\ due # {}
        /\ jobs' = [jobs EXCEPT ![r] = "gathering"]
        /\ tasks' = [tasks EXCEPT ![r] = [s \in Sites |->
                       IF s \in due
                       THEN [Idle EXCEPT !.pc = "queued", !.inc = sites[s].started]
                       ELSE Idle]]
        /\ tainted' = tainted \cup
             {s \in due : \E q \in Runs \ {r} : tasks[q][s].pc # "idle"}
        /\ UNCHANGED <<sites, prefs, blocked, up, crashes, heard, streak>>

\* process_site_limited(): the semaphore of the run admits the task.
Acquire(r, s) ==
    /\ tasks[r][s].pc = "queued"
    /\ Cardinality({q \in Sites : tasks[r][q].pc \notin {"idle", "queued"}})
         < MaxConcurrent
    /\ Goto(r, s, [tasks[r][s] EXCEPT !.pc = "check"])
    /\ UNCHANGED <<sites, prefs, blocked, up, jobs, crashes, heard, streak, tainted>>

-----------------------------------------------------------------------------
(* Evaluating a check.                                                     *)

\* should_confirm_http_down(), with the condition of its caller.
MustConfirm(t) ==
    /\ ~t.ok /\ "down" \in t.prefs
    /\ ConfirmDown /\ ~t.notified /\ t.fails + 1 >= Threshold

Recovering(t) == t.notified \/ (t.inc /\ t.fails >= Threshold)

\* reminder_kind(), the clock left out: which reminder may be due.
DueReminder(t, row) ==
    {{}} \cup
    {{k} : k \in IF ~row.exists \/ row.acked THEN {}
                 ELSE t.prefs \cap (IF row.prolonged THEN {"repeat"} ELSE Reminder)}

\* Mutated form of Failed: the flag http is not consulted.
FailedAgain(r, s, t) ==
    LET fails == Bump(t.fails)
        opened == OpenIncident(sites[s])
    IN  /\ Commits(r, s, opened, [opened EXCEPT !.fails = fails],
                   NextStop([t EXCEPT !.issues = @ \cup
                       (IF fails >= Threshold /\ "down" \in t.prefs THEN {"down"} ELSE {})]))
        /\ streak' = [streak EXCEPT ![s] = IF sites[s].exists THEN Bump(@) ELSE @]
        /\ UNCHANGED heard

\* Mutated form of Failed: the flag is set before the alert is sent.
FailedMarksFirst(r, s, t) ==
    LET fails == Bump(t.fails)
        opened == OpenIncident(sites[s])
        alert == fails >= Threshold /\ ~t.notified /\ "down" \in t.prefs
    IN  /\ Commits(r, s, opened, [opened EXCEPT !.fails = fails, !.notified = @ \/ alert],
                   NextStop([t EXCEPT !.issues = @ \cup (IF alert THEN {"down"} ELSE {})]))
        /\ streak' = [streak EXCEPT ![s] = IF sites[s].exists THEN Bump(@) ELSE @]
        /\ UNCHANGED heard

\* The site is down: open the incident, count, decide what to tell.
Failed(r, s, t) ==
    LET fails  == Bump(t.fails)
        opened == OpenIncident(sites[s])
        alert  == IF fails >= Threshold /\ ~t.notified /\ "down" \in t.prefs
                  THEN {"down"} ELSE {}
    IN  /\ \E reminder \in IF t.notified THEN DueReminder(t, sites[s]) ELSE {{}} :
             Commits(r, s, opened, [opened EXCEPT !.fails = fails],
                     NextStop([t EXCEPT !.issues = @ \cup alert \cup reminder]))
        /\ streak' = [streak EXCEPT ![s] = IF sites[s].exists THEN Bump(@) ELSE @]
        /\ UNCHANGED heard

\* Back up, and the owner must hear of it first.
Announce(r, s, t) ==
    /\ Goto(r, s, [Idle EXCEPT !.pc = "recSend", !.renew = t.renew, !.issues = t.issues])
    /\ streak' = [streak EXCEPT ![s] = 0]
    /\ UNCHANGED <<sites, heard, tainted>>

\* Mutated form of CloseOutage: the notification flags are not reset.
CloseKeepsFlags(r, s, t) ==
    /\ sites' = Put(s, [ClearIncident(sites[s]) EXCEPT !.fails = 0])
    /\ Goto(r, s, [Idle EXCEPT !.pc = "dns", !.renew = t.renew, !.issues = t.issues])
    /\ Forget(s)
    /\ UNCHANGED tainted

\* Lines 308-322: the incident is closed, then the flags are reset.
CloseOutage(r, s, t) ==
    LET closed == ClearIncident(sites[s])
    IN  /\ Commits(r, s, closed, [closed EXCEPT !.notified = FALSE, !.fails = 0],
                   [Idle EXCEPT !.pc = "dns", !.renew = t.renew, !.issues = t.issues])
        /\ Forget(s)

\* Mutated form of StayUp: the failure counter is not reset.
StayUpKeepsCount(r, s, t) ==
    /\ sites' = IF t.inc THEN Put(s, ClearIncident(sites[s])) ELSE sites
    /\ Goto(r, s, [Idle EXCEPT !.pc = "dns", !.renew = t.renew, !.issues = t.issues])
    /\ IF t.inc THEN Forget(s) ELSE UNCHANGED heard
    /\ UNCHANGED tainted

\* Mutated form of StayUp: the incident is not closed.
StayUpLeavesOpen(r, s, t) ==
    /\ sites' = Put(s, [sites[s] EXCEPT !.fails = 0])
    /\ Goto(r, s, [Idle EXCEPT !.pc = "dns", !.renew = t.renew, !.issues = t.issues])
    /\ UNCHANGED <<heard, tainted>>

\* Lines 323-339: an incident known from the snapshot is closed without a word.
StayUp(r, s, t) ==
    LET closed == IF t.inc THEN ClearIncident(sites[s]) ELSE sites[s]
    IN  /\ Commits(r, s, closed,
                   IF t.fails # 0 THEN [closed EXCEPT !.fails = 0] ELSE closed,
                   [Idle EXCEPT !.pc = "dns", !.renew = t.renew, !.issues = t.issues])
        /\ IF t.inc THEN Forget(s) ELSE UNCHANGED heard

\* Mutated form of Decide: every recovery is announced, told of or not.
AnnounceAlways(r, s, t, transient) ==
    \/ ~t.ok /\ Failed(r, s, t)
    \/ t.ok /\ ~transient /\ Recovering(t) /\ Announce(r, s, t)
    \/ /\ t.ok /\ (transient \/ ~Recovering(t))
       /\ StayUp(r, s, t)
       /\ streak' = [streak EXCEPT ![s] = 0]

Decide(r, s, t, transient) ==
    \/ ~t.ok /\ Failed(r, s, t)
    \/ /\ t.ok /\ ~transient /\ t.notified /\ "recovery" \in t.prefs
       /\ Announce(r, s, t)
    \/ /\ t.ok /\ ~transient /\ Recovering(t)
       /\ ~(t.notified /\ "recovery" \in t.prefs)
       /\ CloseOutage(r, s, t)
       /\ streak' = [streak EXCEPT ![s] = 0]
    \/ /\ t.ok /\ (transient \/ ~Recovering(t))
       /\ StayUp(r, s, t)
       /\ streak' = [streak EXCEPT ![s] = 0]

Evaluate(r, s, t) ==
    \/ /\ MustConfirm(t)
       /\ Goto(r, s, [t EXCEPT !.pc = "confirm"])
       /\ UNCHANGED <<sites, heard, streak, tainted>>
    \/ ~MustConfirm(t) /\ Decide(r, s, t, FALSE)

\* check_resource() returned; flags and preferences are read now and used to
\* the end.  near: the expiries less than 15 days away; again: those warned of
\* more than a day ago.  A stale domain cache adds one more await.
CheckDone(r, s) ==
    /\ tasks[r][s].pc = "check"
    /\ \E near \in SUBSET Expiries : \E again \in SUBSET (near \cap sites[s].warned) :
         LET row == sites[s]
             t == [tasks[r][s] EXCEPT
                     !.ok = up[s], !.notified = row.notified, !.fails = row.fails,
                     !.prefs = prefs[s], !.renew = (row.warned \ near) \cap prefs[s],
                     !.issues = ((near \ row.warned) \cup again) \cap prefs[s]]
         IN  \/ /\ Goto(r, s, [t EXCEPT !.pc = "domain"])
                /\ UNCHANGED <<sites, heard, streak, tainted>>
             \/ Evaluate(r, s, t)
    /\ UNCHANGED <<prefs, blocked, up, jobs, crashes>>

DomainDone(r, s) ==
    /\ tasks[r][s].pc = "domain"
    /\ Evaluate(r, s, tasks[r][s])
    /\ UNCHANGED <<prefs, blocked, up, jobs, crashes>>

\* confirm_http_down() returned: an answer means the outage was transient.
ConfirmDone(r, s) ==
    /\ tasks[r][s].pc = "confirm"
    /\ Decide(r, s, [tasks[r][s] EXCEPT !.ok = up[s]], up[s])
    /\ UNCHANGED <<prefs, blocked, up, jobs, crashes>>

-----------------------------------------------------------------------------
(* Messages.  Delivery and the answer to the bot are separate events.      *)

Received(h, issues, acked) ==
    LET reminded == issues \cap Reminder # {}
    IN  [h EXCEPT !.downs = IF "down" \in issues THEN Twice(@) ELSE @,
                  !.prolonged = IF "prolonged" \in issues THEN Twice(@) ELSE @,
                  !.late = IF reminded /\ acked THEN Twice(@) ELSE @]

\* Telegram shows a recovery message or an alert to the owner.
Deliver(r, s) ==
    LET t == tasks[r][s]
    IN  /\ t.pc \in {"recSend", "alertSend"} /\ ~blocked
        /\ Goto(r, s, [t EXCEPT !.pc = IF t.pc = "recSend" THEN "recAck" ELSE "alertAck"])
        /\ heard' = IF t.pc = "alertSend" /\ sites[s].exists
                    THEN [heard EXCEPT ![s] = Received(@, t.issues, sites[s].acked)]
                    ELSE heard
        /\ UNCHANGED <<sites, prefs, blocked, up, jobs, crashes, streak, tainted>>

RecoveryDone(r, s) ==
    /\ tasks[r][s].pc = "recAck"
    /\ CloseOutage(r, s, tasks[r][s])
    /\ UNCHANGED <<prefs, blocked, up, jobs, crashes, streak>>

\* monitor_site_dns() returned True.
DnsDone(r, s) ==
    /\ tasks[r][s].pc = "dns"
    /\ Goto(r, s, NextStop(tasks[r][s]))
    /\ UNCHANGED <<sites, prefs, blocked, up, jobs, crashes, heard, streak, tainted>>

\* The "renewed" message was sent: for the certificate first, then the domain.
RenewDone(r, s) ==
    LET t == tasks[r][s]
        x == IF "ssl" \in t.renew THEN "ssl" ELSE "domain"
    IN  /\ t.pc = "renewSend" /\ ~blocked
        /\ sites' = Put(s, [sites[s] EXCEPT !.warned = @ \ {x}])
        /\ Goto(r, s, NextStop([t EXCEPT !.renew = @ \ {x}]))
        /\ UNCHANGED <<prefs, blocked, up, jobs, crashes, heard, streak, tainted>>

\* The alert was sent: mark_incident_reminder(), then the notification flags.
AlertDone(r, s) ==
    LET t      == tasks[r][s]
        marked == [sites[s] EXCEPT
                     !.prolonged = @ \/ ("prolonged" \in t.issues /\ sites[s].open)]
    IN  /\ t.pc = "alertAck"
        /\ Commits(r, s, marked,
                   [marked EXCEPT !.notified = @ \/ "down" \in t.issues,
                                  !.warned = @ \cup (t.issues \cap Expiries)],
                   [Idle EXCEPT !.pc = "background"])
        /\ UNCHANGED <<prefs, blocked, up, jobs, crashes, heard, streak>>

\* The agents answered the background check.
BackgroundDone(r, s) ==
    /\ tasks[r][s].pc = "background"
    /\ End(r, s)
    /\ UNCHANGED <<sites, prefs, blocked, up, crashes, heard, streak, tainted>>

\* The owner was told that the check itself failed.
ErrorReported(r, s) ==
    /\ tasks[r][s].pc = "errSend" /\ ~blocked
    /\ End(r, s)
    /\ UNCHANGED <<sites, prefs, blocked, up, crashes, heard, streak, tainted>>

\* What the owner received and the bot has no answer for yet.
Unanswered(t) ==
    IF t.pc = "alertAck" THEN t.issues \cap {"down", "prolonged"} ELSE {}

Lost(r, s) == heard' = [heard EXCEPT ![s].unacked = @ \cup Unanswered(tasks[r][s])]

\* notify_block() raises: within the error report nobody catches it any more.
Raises(r, s) ==
    IF tasks[r][s].pc \in {"errSend", "operLast"}
    THEN Abandon(r, s)
    ELSE ToErrorReport(r, s) /\ UNCHANGED jobs

\* delete_user_sites()
DeletePrivateSites ==
    /\ sites' = [q \in Sites |-> IF q \in SharedSites THEN sites[q] ELSE GoneRow]
    /\ heard' = [q \in Sites |-> IF q \in SharedSites THEN heard[q] ELSE Unheard]
    /\ streak' = [q \in Sites |-> IF q \in SharedSites THEN streak[q] ELSE 0]

\* TelegramForbiddenError: notify_block() deletes the owner's private sites and, if
\* there were any, tells the operator; the deletion or its log entry may be refused.
SendForbidden(r, s) ==
    LET pc      == tasks[r][s].pc
        private == {q \in Sites \ SharedSites : sites[q].exists}
    IN  /\ pc \in {"recSend", "dns", "renewSend", "alertSend", "errSend"} /\ blocked
        /\ \/ /\ DeletePrivateSites
              /\ \/ private = {} /\ End(r, s)
                 \/ /\ private # {}
                    /\ Goto(r, s, [Idle EXCEPT !.pc =
                                     IF pc = "errSend" THEN "operLast" ELSE "operSend"])
                    /\ UNCHANGED jobs
                 \/ private # {} /\ DbErrors /\ Raises(r, s)
           \/ DbErrors /\ Raises(r, s) /\ UNCHANGED <<sites, heard, streak>>
        /\ UNCHANGED <<prefs, blocked, up, crashes, tainted>>

\* The message to the operator was sent or not; what is logged of it may be refused.
OperatorTold(r, s) ==
    /\ tasks[r][s].pc \in {"operSend", "operLast"}
    /\ End(r, s) \/ (DbErrors /\ Raises(r, s))
    /\ UNCHANGED <<sites, prefs, blocked, up, crashes, heard, streak, tainted>>

\* Any other error of a send, before or after Telegram delivered the message.  The
\* agents' check for the text of a DOWN alert is outside of the try around the send.
SendFails(r, s) ==
    LET pc == tasks[r][s].pc
    IN  /\ \/ pc \in {"recSend", "recAck", "renewSend"}
              /\ ToErrorReport(r, s) /\ UNCHANGED <<jobs, heard>>
           \/ pc = "alertSend" /\ "down" \in tasks[r][s].issues
              /\ ToErrorReport(r, s) /\ UNCHANGED <<jobs, heard>>
           \/ pc = "alertSend" /\ End(r, s) /\ UNCHANGED heard
           \/ pc = "alertAck" /\ End(r, s) /\ Lost(r, s)
           \/ pc = "errSend" /\ Abandon(r, s) /\ UNCHANGED heard
        /\ UNCHANGED <<sites, prefs, blocked, up, crashes, streak, tainted>>

\* An await outside the sends raises: the handler reports the error.
CheckRaises(r, s) ==
    /\ tasks[r][s].pc \in {"check", "domain", "confirm", "dns", "background"}
    /\ ToErrorReport(r, s)
    /\ UNCHANGED <<sites, prefs, blocked, up, jobs, crashes, heard, streak, tainted>>

-----------------------------------------------------------------------------
(* The owner, the site and the machine.                                    *)

\* acknowledge_site_incident()
Acknowledge(s) ==
    /\ sites[s].open /\ ~sites[s].acked
    /\ sites' = [sites EXCEPT ![s].acked = TRUE]
    /\ UNCHANGED <<prefs, blocked, up, jobs, tasks, crashes, heard, streak, tainted>>

\* A pause or a maintenance window begins or ends.
Exclude(s) ==
    /\ sites[s].exists
    /\ sites' = [sites EXCEPT ![s].excluded = ~@]
    /\ UNCHANGED <<prefs, blocked, up, jobs, tasks, crashes, heard, streak, tainted>>

SetPreferences(s, choice) ==
    /\ prefs' = [prefs EXCEPT ![s] = choice]
    /\ UNCHANGED <<sites, blocked, up, jobs, tasks, crashes, heard, streak, tainted>>

DeleteSite(s) ==
    /\ sites[s].exists
    /\ sites' = [sites EXCEPT ![s] = GoneRow]
    /\ heard' = [heard EXCEPT ![s] = Unheard]
    /\ streak' = [streak EXCEPT ![s] = 0]
    /\ UNCHANGED <<prefs, blocked, up, jobs, tasks, crashes, tainted>>

BlockBot ==
    /\ blocked' = ~blocked
    /\ UNCHANGED <<sites, prefs, up, jobs, tasks, crashes, heard, streak, tainted>>

SiteToggles(s) ==
    /\ up' = [up EXCEPT ![s] = ~@]
    /\ UNCHANGED <<sites, prefs, blocked, jobs, tasks, crashes, heard, streak, tainted>>

\* The process dies and starts again: only the database survives.
Restart ==
    /\ crashes < MaxCrashes
    /\ crashes' = crashes + 1
    /\ tasks' = [r \in Runs |-> [s \in Sites |-> Idle]]
    /\ jobs' = [r \in Runs |-> "free"]
    /\ heard' = [s \in Sites |-> [heard[s] EXCEPT
                    !.unacked = @ \cup UNION {Unanswered(tasks[r][s]) : r \in Runs}]]
    /\ UNCHANGED <<sites, prefs, blocked, up, streak, tainted>>

TaskStep(r, s) ==
    \/ Acquire(r, s) \/ CheckDone(r, s) \/ DomainDone(r, s) \/ ConfirmDone(r, s)
    \/ Deliver(r, s) \/ RecoveryDone(r, s) \/ DnsDone(r, s) \/ RenewDone(r, s)
    \/ AlertDone(r, s) \/ BackgroundDone(r, s) \/ ErrorReported(r, s)
    \/ SendForbidden(r, s) \/ OperatorTold(r, s) \/ SendFails(r, s)
    \/ CheckRaises(r, s)

UserStep(s) ==
    \/ Acknowledge(s) \/ Exclude(s) \/ DeleteSite(s)
    \/ \E choice \in PrefChoices : SetPreferences(s, choice)

Next ==
    \/ \E r \in Runs : StartRun(r) \/ \E s \in Sites : TaskStep(r, s)
    \/ \E s \in Sites : UserStep(s) \/ SiteToggles(s)
    \/ BlockBot
    \/ Restart

Spec == Init /\ [][Next]_vars

-----------------------------------------------------------------------------
(* Properties.  A site is sound while no two tasks handled it at once and  *)
(* no database error fell between two commits.                             *)

Sound(s) == sites[s].exists /\ s \notin tainted

Types ==
    /\ sites \in [Sites -> Row]
    /\ prefs \in [Sites -> PrefChoices]
    /\ blocked \in BOOLEAN
    /\ up \in [Sites -> BOOLEAN]
    /\ jobs \in [Runs -> {"free", "gathering", "abandoned"}]
    /\ tasks \in [Runs -> [Sites -> Task]]
    /\ crashes \in Nat
    /\ heard \in [Sites -> Notice]
    /\ streak \in [Sites -> 0..FailCap]
    /\ tainted \subseteq Sites

\* Every variable keeps its type, and a late task leaves nothing behind in the place of
\* a row that was deleted while it was suspended: no incident, count or flag.
TypeOK == Types /\ \A s \in Sites : ~sites[s].exists => sites[s] = GoneRow

\* sites.incident_started_at and the open central_incidents row never disagree,
\* whatever overlaps, crashes or fails: both change in one transaction.
IncidentViewsAgree == \A s \in Sites : sites[s].started = sites[s].open

\* A DOWN alert under way was preceded by Threshold failed evaluations in a row.
DownAfterThreshold ==
    \A r \in Runs, s \in Sites :
        Sound(s) /\ "down" \in tasks[r][s].issues => streak[s] >= Threshold

\* A recovery message under way is about an outage the owner heard of.
RecoveryOnlyAfterDown ==
    \A r \in Runs, s \in Sites :
        Sound(s) /\ tasks[r][s].pc \in {"recSend", "recAck"} => heard[s].downs > 0

\* The flags deduplicate: a second DOWN (or prolonged) message about one incident only
\* arrives when the bot never learned that one of that kind was delivered, and after the
\* responder accepted the incident at most one reminder, already under way, still arrives.
OneAlertPerIncident ==
    \A s \in Sites : Sound(s) =>
        /\ heard[s].downs > 1 => "down" \in heard[s].unacked
        /\ heard[s].prolonged > 1 => "prolonged" \in heard[s].unacked
        /\ heard[s].late <= 1

\* Seen from outside, a sound site goes through the phases of module Incident.
Phase ==
    [s \in Sites |->
        IF ~Sound(s) THEN "void"
        ELSE IF ~sites[s].open THEN "none"
        ELSE IF sites[s].notified THEN "alerted"
        ELSE IF heard[s].downs > 0 THEN "told" ELSE "open"]

Lifecycle == INSTANCE Incident WITH phase <- Phase

\* The monitor implements the outage lifecycle: no outage is recorded as told
\* before it was told, and none starts out told because of an earlier one.
ImplementsLifecycle == Lifecycle!Spec

-----------------------------------------------------------------------------
(* Liveness.                                                               *)

\* The scheduler starts a run when it may; a suspended task gets some answer;
\* what is tried again and again does not fail every time.
Fairness ==
    /\ WF_vars(\E r \in Runs : StartRun(r))
    /\ \A r \in Runs, s \in Sites :
         /\ WF_vars(TaskStep(r, s))
         /\ SF_vars(CheckDone(r, s)) /\ SF_vars(DomainDone(r, s))
         /\ SF_vars(ConfirmDone(r, s)) /\ SF_vars(DnsDone(r, s))
         /\ SF_vars(Deliver(r, s)) /\ SF_vars(RecoveryDone(r, s))
         /\ SF_vars(RenewDone(r, s)) /\ SF_vars(SendForbidden(r, s))

FairSpec == Spec /\ Fairness

\* An outage that lasts reaches the owner who wants to know and can be reached.
OutageAlerted ==
    \A s \in Sites :
        <>[](/\ ~up[s] /\ sites[s].exists /\ ~sites[s].excluded
             /\ "down" \in prefs[s] /\ ~blocked)
          => <>[](s \in tainted \/ heard[s].downs > 0)

\* The incident of a site that answers for good is closed in the end.  Excepted is a
\* shared site whose owner blocked the bot: there the forbidden recovery message keeps
\* ending the task before the incident is closed.
RecoveryCloses ==
    \A s \in Sites :
        <>[](/\ up[s] /\ sites[s].exists /\ ~sites[s].excluded
             /\ s \in SharedSites => ~blocked)
          => <>[](~sites[s].open)

\* "recovery still closes the incident" (ARCHITECTURE.md): the same without the
\* exception, whoever can be reached.
RecoveryAlwaysCloses ==
    \A s \in Sites :
        <>[](up[s] /\ sites[s].exists /\ ~sites[s].excluded)
          => <>[](~sites[s].open)
================================================================================
