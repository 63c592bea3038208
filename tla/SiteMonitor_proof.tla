--------------------------- MODULE SiteMonitor_proof ---------------------------
(* Theorems about SiteMonitor, for every value of its constants. *)
EXTENDS SiteMonitor, FiniteSetTheorems, TLAPS

LEMMA Bounds ==
    /\ Threshold \in Nat /\ Threshold > 0 /\ FailCap \in Nat /\ FailCap >= Threshold
    /\ MaxCrashes \in Nat /\ DbErrors \in BOOLEAN
    /\ Expiries \subseteq {"ssl", "domain"}
    /\ \A p \in PrefChoices : p \subseteq PrefKind
  BY MonitorAssumption DEF MonitorAssumption, PrefKind, Reminder

-----------------------------------------------------------------------------
(* Types.                                                                  *)

LEMMA BumpType ==
    ASSUME NEW n \in 0..FailCap
    PROVE  Bump(n) \in 0..FailCap /\ Bump(n) >= n
  BY Bounds DEF Bump

LEMMA TwiceType ==
    ASSUME NEW n \in 0..2
    PROVE  Twice(n) \in 0..2
  BY DEF Twice

LEMMA UnansweredType ==
    \A t : Unanswered(t) \subseteq {"down", "prolonged"}
  BY DEF Unanswered

LEMMA IdleType == Idle \in Task
  BY Bounds DEF Idle, Task, Awaiting

LEMMA GoneType == GoneRow \in Row /\ NewRow \in Row
  <1>1. NewRow \in Row
    BY Bounds DEF NewRow, Row
  <1> QED
    BY <1>1 DEF GoneRow, Row

LEMMA RowOps ==
    ASSUME NEW row \in Row
    PROVE  /\ OpenIncident(row) \in Row /\ ClearIncident(row) \in Row
           /\ OpenIncident(row).started = OpenIncident(row).open
           /\ ClearIncident(row).started = ClearIncident(row).open
           /\ OpenIncident(row).exists = row.exists /\ ClearIncident(row).exists = row.exists
  BY DEF OpenIncident, ClearIncident, Row

LEMMA PutType ==
    ASSUME Types, NEW s \in Sites, NEW row \in Row
    PROVE  Put(s, row) \in [Sites -> Row]
  BY DEF Types, Put

LEMMA GotoType ==
    ASSUME Types, NEW r \in Runs, NEW s \in Sites, NEW t \in Task, Goto(r, s, t)
    PROVE  tasks' \in [Runs -> [Sites -> Task]]
  BY DEF Types, Goto

LEMMA NextStopType ==
    ASSUME NEW t \in Task
    PROVE  NextStop(t) \in Task
  BY IdleType DEF NextStop, Task, Awaiting

LEMMA EndType ==
    ASSUME Types, NEW r \in Runs, NEW s \in Sites, End(r, s) \/ Abandon(r, s)
    PROVE  /\ tasks' \in [Runs -> [Sites -> Task]]
           /\ jobs' \in [Runs -> {"free", "gathering", "abandoned"}]
  BY GotoType, IdleType DEF End, Abandon, Types

LEMMA ErrorReportType ==
    ASSUME Types, NEW r \in Runs, NEW s \in Sites, ToErrorReport(r, s)
    PROVE  tasks' \in [Runs -> [Sites -> Task]]
  <1>1. [Idle EXCEPT !.pc = "errSend"] \in Task
    BY IdleType DEF Task, Awaiting
  <1> QED
    BY <1>1, GotoType DEF ToErrorReport

LEMMA CommitsType ==
    ASSUME Types, NEW r \in Runs, NEW s \in Sites,
           NEW first \in Row, NEW second \in Row, NEW t \in Task,
           Commits(r, s, first, second, t)
    PROVE  /\ sites' \in [Sites -> Row]
           /\ tasks' \in [Runs -> [Sites -> Task]]
           /\ tainted' \subseteq Sites
  <1>1. sites[s] \in Row
    BY DEF Types
  <1>2. CASE sites' = Put(s, second) /\ Goto(r, s, t) /\ UNCHANGED tainted
    BY <1>2, PutType, GotoType DEF Types
  <1>3. ASSUME NEW row \in {sites[s], first}, sites' = Put(s, row),
               ToErrorReport(r, s), tainted' = tainted \cup {s}
        PROVE  /\ sites' \in [Sites -> Row]
               /\ tasks' \in [Runs -> [Sites -> Task]]
               /\ tainted' \subseteq Sites
    <2>1. sites' \in [Sites -> Row]
      BY <1>1, <1>3, PutType
    <2> QED
      BY <1>3, <2>1, ErrorReportType DEF Types
  <1> QED
    BY <1>2, <1>3 DEF Commits

\* What a step of one task leaves well-typed; the rest is unchanged or typed
\* by the action itself.
TaskEffectOK ==
    /\ sites' \in [Sites -> Row]
    /\ tasks' \in [Runs -> [Sites -> Task]]
    /\ heard' \in [Sites -> Notice]
    /\ streak' \in [Sites -> 0..FailCap]
    /\ tainted' \subseteq Sites

LEMMA ForgetType ==
    ASSUME Types, NEW s \in Sites, Forget(s)
    PROVE  heard' \in [Sites -> Notice]
  BY DEF Forget, Types, Notice, Unheard

LEMMA FailedType ==
    ASSUME Types, NEW r \in Runs, NEW s \in Sites, NEW t \in Task, Failed(r, s, t)
    PROVE  TaskEffectOK
  <1> DEFINE fails  == Bump(t.fails)
             opened == OpenIncident(sites[s])
             alert  == IF fails >= Threshold /\ ~t.notified /\ "down" \in t.prefs
                       THEN {"down"} ELSE {}
  <1>1. PICK reminder \in IF t.notified THEN DueReminder(t, sites[s]) ELSE {{}} :
          Commits(r, s, opened, [opened EXCEPT !.fails = fails],
                  NextStop([t EXCEPT !.issues = @ \cup alert \cup reminder]))
    BY DEF Failed
  <1>2. reminder \subseteq Issue
    BY DEF DueReminder, Issue, Reminder
  <1>3. fails \in 0..FailCap
    BY BumpType DEF Task
  <1>4. opened \in Row /\ [opened EXCEPT !.fails = fails] \in Row
    <2>1. opened \in Row
      BY RowOps DEF Types
    <2> HIDE DEF opened, fails
    <2> QED
      BY <2>1, <1>3 DEF Row
  <1>5. [t EXCEPT !.issues = @ \cup alert \cup reminder] \in Task
    <2>1. alert \subseteq Issue
      BY DEF Issue
    <2> HIDE DEF alert
    <2> QED
      BY <2>1, <1>2 DEF Task
  <1>6. /\ sites' \in [Sites -> Row]
        /\ tasks' \in [Runs -> [Sites -> Task]]
        /\ tainted' \subseteq Sites
    <2> HIDE DEF opened, fails, alert
    <2> QED
      BY <1>1, <1>4, <1>5, NextStopType, CommitsType
  <1>7. streak' \in [Sites -> 0..FailCap] /\ heard' \in [Sites -> Notice]
    BY BumpType DEF Failed, Types
  <1> QED
    BY <1>6, <1>7 DEF TaskEffectOK

\* The task record that carries renew and issues of t past the HTTP part.
LEMMA CarryType ==
    ASSUME NEW t \in Task, NEW pc \in Awaiting
    PROVE  [Idle EXCEPT !.pc = pc, !.renew = t.renew, !.issues = t.issues] \in Task
  BY IdleType DEF Task

LEMMA CloseOutageType ==
    ASSUME Types, NEW r \in Runs, NEW s \in Sites, NEW t \in Task, CloseOutage(r, s, t)
    PROVE  /\ sites' \in [Sites -> Row]
           /\ tasks' \in [Runs -> [Sites -> Task]]
           /\ heard' \in [Sites -> Notice]
           /\ tainted' \subseteq Sites
  <1> DEFINE closed == ClearIncident(sites[s])
             next   == [Idle EXCEPT !.pc = "dns", !.renew = t.renew, !.issues = t.issues]
  <1>1. closed \in Row
    BY RowOps DEF Types
  <1>2. next \in Task
    BY CarryType DEF Awaiting
  <1>3. Commits(r, s, closed, [closed EXCEPT !.notified = FALSE, !.fails = 0], next)
    BY DEF CloseOutage
  <1>4. [closed EXCEPT !.notified = FALSE, !.fails = 0] \in Row
    <2>1. 0 \in 0..FailCap
      BY Bounds
    <2> HIDE DEF closed
    <2> QED
      BY <1>1, <2>1 DEF Row
  <1>5. heard' \in [Sites -> Notice]
    BY ForgetType DEF CloseOutage
  <1> HIDE DEF closed, next
  <1> QED
    BY <1>1, <1>2, <1>3, <1>4, <1>5, CommitsType

LEMMA StayUpType ==
    ASSUME Types, NEW r \in Runs, NEW s \in Sites, NEW t \in Task, StayUp(r, s, t)
    PROVE  /\ sites' \in [Sites -> Row]
           /\ tasks' \in [Runs -> [Sites -> Task]]
           /\ heard' \in [Sites -> Notice]
           /\ tainted' \subseteq Sites
  <1> DEFINE closed == IF t.inc THEN ClearIncident(sites[s]) ELSE sites[s]
             done   == IF t.fails # 0 THEN [closed EXCEPT !.fails = 0] ELSE closed
             next   == [Idle EXCEPT !.pc = "dns", !.renew = t.renew, !.issues = t.issues]
  <1>1. closed \in Row
    BY RowOps DEF Types
  <1>2. next \in Task
    BY CarryType DEF Awaiting
  <1>3. Commits(r, s, closed, done, next)
    BY DEF StayUp
  <1>4. done \in Row
    <2>1. 0 \in 0..FailCap
      BY Bounds
    <2> HIDE DEF closed
    <2> QED
      BY <1>1, <2>1 DEF Row
  <1>5. heard' \in [Sites -> Notice]
    BY ForgetType DEF StayUp, Types
  <1> HIDE DEF closed, done, next
  <1> QED
    BY <1>1, <1>2, <1>3, <1>4, <1>5, CommitsType

LEMMA DecideType ==
    ASSUME Types, NEW r \in Runs, NEW s \in Sites, NEW t \in Task,
           NEW transient, Decide(r, s, t, transient)
    PROVE  TaskEffectOK
  <1>0. 0 \in 0..FailCap
    BY Bounds
  <1>1. CASE Failed(r, s, t)
    BY <1>1, FailedType
  <1>2. CASE Announce(r, s, t)
    <2>1. [Idle EXCEPT !.pc = "recSend", !.renew = t.renew, !.issues = t.issues] \in Task
      BY CarryType DEF Awaiting
    <2>2. tasks' \in [Runs -> [Sites -> Task]]
      BY <1>2, <2>1, GotoType DEF Announce
    <2> QED
      BY <1>0, <1>2, <2>2 DEF Announce, TaskEffectOK, Types
  <1>3. CASE CloseOutage(r, s, t) /\ streak' = [streak EXCEPT ![s] = 0]
    BY <1>0, <1>3, CloseOutageType DEF TaskEffectOK, Types
  <1>4. CASE StayUp(r, s, t) /\ streak' = [streak EXCEPT ![s] = 0]
    BY <1>0, <1>4, StayUpType DEF TaskEffectOK, Types
  <1> QED
    BY <1>1, <1>2, <1>3, <1>4 DEF Decide

LEMMA EvaluateType ==
    ASSUME Types, NEW r \in Runs, NEW s \in Sites, NEW t \in Task, Evaluate(r, s, t)
    PROVE  TaskEffectOK
  <1>1. CASE Decide(r, s, t, FALSE)
    BY <1>1, DecideType
  <1>2. CASE Goto(r, s, [t EXCEPT !.pc = "confirm"])
             /\ UNCHANGED <<sites, heard, streak, tainted>>
    <2>1. [t EXCEPT !.pc = "confirm"] \in Task
      BY DEF Task, Awaiting
    <2> QED
      BY <1>2, <2>1, GotoType DEF TaskEffectOK, Types
  <1> QED
    BY <1>1, <1>2 DEF Evaluate


LEMMA StartRunType ==
    ASSUME Types, NEW r \in Runs, StartRun(r)
    PROVE  Types'
  <1>1. \A s \in Sites : [Idle EXCEPT !.pc = "queued", !.inc = sites[s].started] \in Task
    BY IdleType DEF Types, Task, Row, Awaiting
  <1>2. tasks' \in [Runs -> [Sites -> Task]]
    BY <1>1, IdleType DEF StartRun, Types
  <1> QED
    BY <1>2 DEF StartRun, Types

\* What CheckDone() has read when it evaluates.
LEMMA CheckDoneRead ==
    ASSUME Types, NEW r \in Runs, NEW s \in Sites, CheckDone(r, s)
    PROVE  \E t \in Task :
             /\ t.inc = tasks[r][s].inc
             /\ t.ok = up[s] /\ t.notified = sites[s].notified /\ t.fails = sites[s].fails
             /\ t.prefs = prefs[s] /\ t.issues \subseteq Expiries
             /\ \/ /\ Goto(r, s, [t EXCEPT !.pc = "domain"])
                   /\ UNCHANGED <<sites, heard, streak, tainted>>
                \/ Evaluate(r, s, t)
  <1> DEFINE row == sites[s]
             Read(near, again) ==
               [tasks[r][s] EXCEPT
                  !.ok = up[s], !.notified = row.notified, !.fails = row.fails,
                  !.prefs = prefs[s], !.renew = (row.warned \ near) \cap prefs[s],
                  !.issues = ((near \ row.warned) \cup again) \cap prefs[s]]
  <1>1. PICK near \in SUBSET Expiries : \E again \in SUBSET (near \cap row.warned) :
          \/ /\ Goto(r, s, [Read(near, again) EXCEPT !.pc = "domain"])
             /\ UNCHANGED <<sites, heard, streak, tainted>>
          \/ Evaluate(r, s, Read(near, again))
    BY DEF CheckDone
  <1>2. PICK again \in SUBSET (near \cap row.warned) :
          \/ /\ Goto(r, s, [Read(near, again) EXCEPT !.pc = "domain"])
             /\ UNCHANGED <<sites, heard, streak, tainted>>
          \/ Evaluate(r, s, Read(near, again))
    BY <1>1
  <1>3. row \in Row /\ prefs[s] \subseteq PrefKind /\ up[s] \in BOOLEAN /\ tasks[r][s] \in Task
    BY Bounds DEF Types
  <1>4. /\ (row.warned \ near) \cap prefs[s] \subseteq Expiries
        /\ ((near \ row.warned) \cup again) \cap prefs[s] \subseteq Expiries
    BY <1>3 DEF Row
  <1>5. row.notified \in BOOLEAN /\ row.fails \in 0..FailCap /\ Expiries \subseteq Issue
    BY <1>3 DEF Row, Issue
  <1> DEFINE t == Read(near, again)
  <1>6. /\ t \in Task /\ t.inc = tasks[r][s].inc
        /\ t.ok = up[s] /\ t.notified = row.notified /\ t.fails = row.fails
        /\ t.prefs = prefs[s] /\ t.issues \subseteq Expiries
    <2> HIDE DEF row
    <2> QED
      BY <1>3, <1>4, <1>5 DEF Task
  <1> HIDE DEF t, Read
  <1> QED
    BY <1>2, <1>6 DEF t

LEMMA CheckDoneType ==
    ASSUME Types, NEW r \in Runs, NEW s \in Sites, CheckDone(r, s)
    PROVE  Types'
  <1>1. PICK t \in Task :
          \/ /\ Goto(r, s, [t EXCEPT !.pc = "domain"])
             /\ UNCHANGED <<sites, heard, streak, tainted>>
          \/ Evaluate(r, s, t)
    BY CheckDoneRead
  <1>2. TaskEffectOK
    <2>1. CASE Evaluate(r, s, t)
      BY <2>1, EvaluateType
    <2>2. CASE /\ Goto(r, s, [t EXCEPT !.pc = "domain"])
               /\ UNCHANGED <<sites, heard, streak, tainted>>
      <3>1. [t EXCEPT !.pc = "domain"] \in Task
        BY DEF Task, Awaiting
      <3> QED
        BY <2>2, <3>1, GotoType DEF TaskEffectOK, Types
    <2> QED
      BY <1>1, <2>1, <2>2
  <1> QED
    BY <1>2 DEF CheckDone, TaskEffectOK, Types

LEMMA DeliverType ==
    ASSUME Types, NEW r \in Runs, NEW s \in Sites, Deliver(r, s)
    PROVE  Types'
  <1> DEFINE t    == tasks[r][s]
             next == [t EXCEPT !.pc = IF t.pc = "recSend" THEN "recAck" ELSE "alertAck"]
  <1>0. t \in Task
    BY DEF Types
  <1>1. next \in Task
    <2>1. (IF t.pc = "recSend" THEN "recAck" ELSE "alertAck") \in Awaiting
      BY DEF Awaiting
    <2> HIDE DEF t
    <2> QED
      BY <1>0, <2>1 DEF Task
  <1>2. tasks' \in [Runs -> [Sites -> Task]]
    <2>1. Goto(r, s, next)
      BY DEF Deliver
    <2> QED
      BY <2>1, <1>1, GotoType
  <1>3. Received(heard[s], t.issues, sites[s].acked) \in Notice
    <2>1. heard[s] \in Notice
      BY DEF Types
    <2> QED
      BY <2>1, TwiceType DEF Received, Notice
  <1>4. heard' \in [Sites -> Notice]
    BY <1>3 DEF Deliver, Types
  <1> QED
    BY <1>2, <1>4 DEF Deliver, Types

LEMMA RenewDoneType ==
    ASSUME Types, NEW r \in Runs, NEW s \in Sites, RenewDone(r, s)
    PROVE  Types'
  <1> DEFINE t   == tasks[r][s]
             x   == IF "ssl" \in t.renew THEN "ssl" ELSE "domain"
             row == [sites[s] EXCEPT !.warned = @ \ {x}]
  <1>0. t \in Task /\ sites[s] \in Row
    BY DEF Types
  <1>1. [t EXCEPT !.renew = @ \ {x}] \in Task
    <2>1. t.renew \ {x} \in SUBSET Expiries
      BY <1>0 DEF Task
    <2> HIDE DEF t, x
    <2> QED
      BY <1>0, <2>1 DEF Task
  <1>2. row \in Row
    <2>1. sites[s].warned \ {x} \in SUBSET Expiries
      BY <1>0 DEF Row
    <2> HIDE DEF x
    <2> QED
      BY <1>0, <2>1 DEF Row
  <1>3. sites' = Put(s, row) /\ Goto(r, s, NextStop([t EXCEPT !.renew = @ \ {x}]))
    BY DEF RenewDone
  <1> HIDE DEF row, x
  <1>4. sites' \in [Sites -> Row] /\ tasks' \in [Runs -> [Sites -> Task]]
    BY <1>1, <1>2, <1>3, PutType, GotoType, NextStopType
  <1> QED
    BY <1>4 DEF RenewDone, Types

LEMMA AlertDoneType ==
    ASSUME Types, NEW r \in Runs, NEW s \in Sites, AlertDone(r, s)
    PROVE  Types'
  <1> DEFINE t      == tasks[r][s]
             marked == [sites[s] EXCEPT
                          !.prolonged = @ \/ ("prolonged" \in t.issues /\ sites[s].open)]
             done   == [marked EXCEPT !.notified = @ \/ "down" \in t.issues,
                                      !.warned = @ \cup (t.issues \cap Expiries)]
  <1>0. sites[s] \in Row
    BY DEF Types
  <1>1. marked \in Row
    BY <1>0 DEF Row
  <1>2. done \in Row
    <2> HIDE DEF marked
    <2> QED
      BY <1>1 DEF Row
  <1>3. [Idle EXCEPT !.pc = "background"] \in Task
    BY IdleType DEF Task, Awaiting
  <1>4. Commits(r, s, marked, done, [Idle EXCEPT !.pc = "background"])
    BY DEF AlertDone
  <1> HIDE DEF marked, done
  <1> QED
    BY <1>1, <1>2, <1>3, <1>4, CommitsType DEF AlertDone, Types

\* What notify_block() does to its task and to the sites.
LEMMA NotifyIs ==
    ASSUME NEW r \in Runs, NEW s \in Sites, SendForbidden(r, s) \/ OperatorTold(r, s)
    PROVE  /\ tasks[r][s].pc \notin {"idle", "alertAck"}
           /\ \/ End(r, s) \/ Abandon(r, s)
              \/ /\ UNCHANGED jobs
                 /\ \E pc \in {"errSend", "operSend", "operLast"} :
                      Goto(r, s, [Idle EXCEPT !.pc = pc])
           /\ UNCHANGED <<prefs, blocked, up, crashes, tainted>>
           /\ DeletePrivateSites \/ UNCHANGED <<sites, heard, streak>>
  BY DEF SendForbidden, OperatorTold, Raises, ToErrorReport

LEMMA NotifyNext ==
    ASSUME NEW pc \in {"errSend", "operSend", "operLast"}
    PROVE  /\ [Idle EXCEPT !.pc = pc] \in Task
           /\ [Idle EXCEPT !.pc = pc].pc = pc /\ [Idle EXCEPT !.pc = pc].issues = {}
  BY IdleType DEF Idle, Task, Awaiting

LEMMA NotifyType ==
    ASSUME Types, NEW r \in Runs, NEW s \in Sites,
           SendForbidden(r, s) \/ OperatorTold(r, s)
    PROVE  Types'
  <1>1. Unheard \in Notice /\ 0 \in 0..FailCap
    BY Bounds DEF Unheard, Notice
  <1>2. /\ sites' \in [Sites -> Row]
        /\ heard' \in [Sites -> Notice]
        /\ streak' \in [Sites -> 0..FailCap]
    <2>1. CASE DeletePrivateSites
      BY <1>1, <2>1, GoneType DEF DeletePrivateSites, Types
    <2>2. CASE UNCHANGED <<sites, heard, streak>>
      BY <2>2 DEF Types
    <2> QED
      BY <2>1, <2>2, NotifyIs
  <1>3. /\ tasks' \in [Runs -> [Sites -> Task]]
        /\ jobs' \in [Runs -> {"free", "gathering", "abandoned"}]
    <2>1. CASE End(r, s) \/ Abandon(r, s)
      BY <2>1, EndType
    <2>2. ASSUME NEW pc \in {"errSend", "operSend", "operLast"}, UNCHANGED jobs,
                 Goto(r, s, [Idle EXCEPT !.pc = pc])
          PROVE  /\ tasks' \in [Runs -> [Sites -> Task]]
                 /\ jobs' \in [Runs -> {"free", "gathering", "abandoned"}]
      BY <2>2, NotifyNext, GotoType DEF Types
    <2> QED
      BY <2>1, <2>2, NotifyIs
  <1> QED
    BY <1>2, <1>3, NotifyIs DEF Types

LEMMA SendFailsType ==
    ASSUME Types, NEW r \in Runs, NEW s \in Sites, SendFails(r, s)
    PROVE  Types'
  <1>1. Lost(r, s) => heard' \in [Sites -> Notice]
    <2>1. heard[s] \in Notice
      BY DEF Types
    <2>2. [heard[s] EXCEPT !.unacked = @ \cup Unanswered(tasks[r][s])] \in Notice
      BY <2>1, UnansweredType DEF Notice
    <2> QED
      BY <2>2 DEF Lost, Types
  <1>2. /\ heard' \in [Sites -> Notice]
        /\ tasks' \in [Runs -> [Sites -> Task]]
        /\ jobs' \in [Runs -> {"free", "gathering", "abandoned"}]
    BY <1>1, EndType, ErrorReportType DEF SendFails, Types
  <1> QED
    BY <1>2 DEF SendFails, Types

LEMMA TaskStepType ==
    ASSUME Types, NEW r \in Runs, NEW s \in Sites, TaskStep(r, s)
    PROVE  Types'
  <1>0. tasks[r][s] \in Task
    BY DEF Types
  <1>1. CASE Acquire(r, s)
    <2>1. [tasks[r][s] EXCEPT !.pc = "check"] \in Task
      BY <1>0 DEF Task, Awaiting
    <2> QED
      BY <1>1, <2>1, GotoType DEF Acquire, Types
  <1>2. CASE CheckDone(r, s)
    BY <1>2, CheckDoneType
  <1>3. CASE DomainDone(r, s)
    BY <1>0, <1>3, EvaluateType DEF DomainDone, TaskEffectOK, Types
  <1>4. CASE ConfirmDone(r, s)
    <2>1. [tasks[r][s] EXCEPT !.ok = up[s]] \in Task
      BY <1>0 DEF Task, Types
    <2> QED
      BY <1>4, <2>1, DecideType DEF ConfirmDone, TaskEffectOK, Types
  <1>5. CASE Deliver(r, s)
    BY <1>5, DeliverType
  <1>6. CASE RecoveryDone(r, s)
    BY <1>0, <1>6, CloseOutageType DEF RecoveryDone, Types
  <1>7. CASE DnsDone(r, s)
    BY <1>0, <1>7, GotoType, NextStopType DEF DnsDone, Types
  <1>8. CASE RenewDone(r, s)
    BY <1>8, RenewDoneType
  <1>9. CASE AlertDone(r, s)
    BY <1>9, AlertDoneType
  <1>10. CASE BackgroundDone(r, s) \/ ErrorReported(r, s)
    BY <1>10, EndType DEF BackgroundDone, ErrorReported, Types
  <1>11. CASE SendForbidden(r, s) \/ OperatorTold(r, s)
    BY <1>11, NotifyType
  <1>12. CASE SendFails(r, s)
    BY <1>12, SendFailsType
  <1>13. CASE CheckRaises(r, s)
    BY <1>13, ErrorReportType DEF CheckRaises, Types
  <1> QED
    BY <1>1, <1>2, <1>3, <1>4, <1>5, <1>6, <1>7, <1>8, <1>9, <1>10, <1>11,
       <1>12, <1>13 DEF TaskStep

LEMMA UserStepType ==
    ASSUME Types, NEW s \in Sites, UserStep(s)
    PROVE  Types'
  <1>0. sites[s] \in Row
    BY DEF Types
  <1>1. CASE Acknowledge(s)
    <2>1. [sites[s] EXCEPT !.acked = TRUE] \in Row
      BY <1>0 DEF Row
    <2> QED
      BY <1>1, <2>1 DEF Acknowledge, Types
  <1>2. CASE Exclude(s)
    <2>1. [sites[s] EXCEPT !.excluded = ~@] \in Row
      BY <1>0 DEF Row
    <2> QED
      BY <1>2, <2>1 DEF Exclude, Types
  <1>3. CASE DeleteSite(s)
    <2>1. Unheard \in Notice /\ 0 \in 0..FailCap
      BY Bounds DEF Unheard, Notice
    <2> QED
      BY <1>3, <2>1, GoneType DEF DeleteSite, Types
  <1>4. CASE \E choice \in PrefChoices : SetPreferences(s, choice)
    BY <1>4 DEF SetPreferences, Types
  <1> QED
    BY <1>1, <1>2, <1>3, <1>4 DEF UserStep

LEMMA RestartType ==
    ASSUME Types, Restart
    PROVE  Types'
  <1>1. heard' \in [Sites -> Notice]
    <2> SUFFICES ASSUME NEW s \in Sites
                 PROVE  [heard[s] EXCEPT
                           !.unacked = @ \cup UNION {Unanswered(tasks[r][s]) : r \in Runs}]
                          \in Notice
      BY DEF Restart
    <2> DEFINE all == UNION {Unanswered(tasks[r][s]) : r \in Runs}
    <2>1. all \subseteq {"down", "prolonged"}
      BY UnansweredType
    <2>2. heard[s] \in Notice
      BY DEF Types
    <2>3. [heard[s] EXCEPT !.unacked = @ \cup all] \in Notice
      <3> HIDE DEF all
      <3> QED
        BY <2>1, <2>2 DEF Notice
    <2> QED
      BY <2>3
  <1>2. tasks' \in [Runs -> [Sites -> Task]]
    BY IdleType DEF Restart
  <1> QED
    BY <1>1, <1>2 DEF Restart, Types

LEMMA InitType == Init => Types
  <1>1. Unheard \in Notice /\ 0 \in 0..FailCap /\ NewRow \in Row /\ Idle \in Task
    BY Bounds, GoneType, IdleType DEF Unheard, Notice
  <1> SUFFICES ASSUME Init PROVE Types
    OBVIOUS
  <1>2. sites \in [Sites -> Row] /\ tasks \in [Runs -> [Sites -> Task]]
    BY <1>1 DEF Init
  <1>3. heard \in [Sites -> Notice] /\ streak \in [Sites -> 0..FailCap]
    BY <1>1 DEF Init
  <1> QED
    BY <1>2, <1>3 DEF Init, Types

LEMMA TypesKept == Spec => []Types
  <1>2. Types /\ [Next]_vars => Types'
    <2> SUFFICES ASSUME Types, [Next]_vars PROVE Types'
      OBVIOUS
    <2>1. ASSUME NEW r \in Runs, StartRun(r) PROVE Types'
      BY <2>1, StartRunType
    <2>2. ASSUME NEW r \in Runs, NEW s \in Sites, TaskStep(r, s) PROVE Types'
      BY <2>2, TaskStepType
    <2>3. ASSUME NEW s \in Sites, UserStep(s) PROVE Types'
      BY <2>3, UserStepType
    <2>4. ASSUME NEW s \in Sites, SiteToggles(s) PROVE Types'
      BY <2>4 DEF SiteToggles, Types
    <2>5. CASE BlockBot
      BY <2>5 DEF BlockBot, Types
    <2>6. CASE Restart
      BY <2>6, RestartType
    <2>7. CASE UNCHANGED vars
      BY <2>7 DEF vars, Types
    <2> QED
      BY <2>1, <2>2, <2>3, <2>4, <2>5, <2>6, <2>7 DEF Next
  <1> QED
    BY <1>2, InitType, PTL DEF Spec

-----------------------------------------------------------------------------
(* The two records of an incident, and the rows that are gone.             *)

\* A row whose two records agree, and which is blank if it is gone.
RowFine(row) == row.started = row.open /\ (~row.exists => row = GoneRow)

RowsFine == \A s \in Sites : RowFine(sites[s])

\* A row that may be written in the place of that of site s.
Kept(row, s) == row.started = row.open /\ row.exists = sites[s].exists

LEMMA PutAgrees ==
    ASSUME Types, RowsFine, NEW s \in Sites, NEW row \in Row,
           Kept(row, s), sites' = Put(s, row)
    PROVE  RowsFine'
  BY DEF Types, RowsFine, RowFine, Kept, Put

LEMMA CommitsAgree ==
    ASSUME Types, RowsFine, NEW r, NEW s \in Sites, NEW next,
           NEW first \in Row, NEW second \in Row,
           Kept(first, s), Kept(second, s),
           Commits(r, s, first, second, next)
    PROVE  RowsFine'
  <1>1. sites[s] \in Row /\ Kept(sites[s], s)
    BY DEF Types, RowsFine, RowFine, Kept
  <1> QED
    BY <1>1, PutAgrees DEF Commits

LEMMA FailedAgrees ==
    ASSUME Types, RowsFine, NEW r \in Runs, NEW s \in Sites,
           NEW t \in Task, Failed(r, s, t)
    PROVE  RowsFine'
  <1> DEFINE opened == OpenIncident(sites[s])
             done   == [opened EXCEPT !.fails = Bump(t.fails)]
  <1>1. PICK next : Commits(r, s, opened, done, next)
    BY DEF Failed
  <1>2. opened \in Row /\ Kept(opened, s)
    BY RowOps DEF Types, Kept
  <1>3. done \in Row /\ Kept(done, s)
    <2>1. Bump(t.fails) \in 0..FailCap
      BY BumpType DEF Task
    <2> HIDE DEF opened
    <2> QED
      BY <1>2, <2>1 DEF Row, Kept
  <1> HIDE DEF opened, done
  <1> QED
    BY <1>1, <1>2, <1>3, CommitsAgree

LEMMA CloseOutageAgrees ==
    ASSUME Types, RowsFine, NEW r \in Runs, NEW s \in Sites,
           NEW t \in Task, CloseOutage(r, s, t)
    PROVE  RowsFine'
  <1> DEFINE closed == ClearIncident(sites[s])
             done   == [closed EXCEPT !.notified = FALSE, !.fails = 0]
  <1>1. PICK next : Commits(r, s, closed, done, next)
    BY DEF CloseOutage
  <1>2. closed \in Row /\ Kept(closed, s)
    BY RowOps DEF Types, Kept
  <1>3. done \in Row /\ Kept(done, s)
    <2>1. 0 \in 0..FailCap
      BY Bounds
    <2> HIDE DEF closed
    <2> QED
      BY <1>2, <2>1 DEF Row, Kept
  <1> HIDE DEF closed, done
  <1> QED
    BY <1>1, <1>2, <1>3, CommitsAgree

LEMMA StayUpAgrees ==
    ASSUME Types, RowsFine, NEW r \in Runs, NEW s \in Sites,
           NEW t \in Task, StayUp(r, s, t)
    PROVE  RowsFine'
  <1> DEFINE closed == IF t.inc THEN ClearIncident(sites[s]) ELSE sites[s]
             done   == IF t.fails # 0 THEN [closed EXCEPT !.fails = 0] ELSE closed
  <1>1. PICK next : Commits(r, s, closed, done, next)
    BY DEF StayUp
  <1>2. closed \in Row /\ Kept(closed, s)
    BY RowOps DEF Types, RowsFine, RowFine, Kept
  <1>3. done \in Row /\ Kept(done, s)
    <2>1. 0 \in 0..FailCap
      BY Bounds
    <2> HIDE DEF closed
    <2> QED
      BY <1>2, <2>1 DEF Row, Kept
  <1> HIDE DEF closed, done
  <1> QED
    BY <1>1, <1>2, <1>3, CommitsAgree

LEMMA DecideAgrees ==
    ASSUME Types, RowsFine, NEW r \in Runs, NEW s \in Sites,
           NEW t \in Task, NEW transient, Decide(r, s, t, transient)
    PROVE  RowsFine'
  <1>1. CASE Announce(r, s, t)
    BY <1>1 DEF Announce, RowsFine
  <1> QED
    BY <1>1, FailedAgrees, CloseOutageAgrees, StayUpAgrees DEF Decide

LEMMA EvaluateAgrees ==
    ASSUME Types, RowsFine, NEW r \in Runs, NEW s \in Sites,
           NEW t \in Task, Evaluate(r, s, t)
    PROVE  RowsFine'
  BY DecideAgrees DEF Evaluate, RowsFine

LEMMA TaskStepAgrees ==
    ASSUME Types, RowsFine, NEW r \in Runs, NEW s \in Sites, TaskStep(r, s)
    PROVE  RowsFine'
  <1>0. tasks[r][s] \in Task /\ sites[s] \in Row
    BY DEF Types
  <1>1. CASE CheckDone(r, s)
    <2>1. PICK t \in Task : \/ UNCHANGED sites
                            \/ Evaluate(r, s, t)
      BY <1>1, CheckDoneRead
    <2> QED
      BY <2>1, EvaluateAgrees DEF RowsFine
  <1>2. CASE DomainDone(r, s)
    BY <1>0, <1>2, EvaluateAgrees DEF DomainDone
  <1>3. CASE ConfirmDone(r, s)
    <2>1. [tasks[r][s] EXCEPT !.ok = up[s]] \in Task
      BY <1>0 DEF Task, Types
    <2> QED
      BY <1>3, <2>1, DecideAgrees DEF ConfirmDone
  <1>4. CASE RecoveryDone(r, s)
    BY <1>0, <1>4, CloseOutageAgrees DEF RecoveryDone
  <1>5. CASE RenewDone(r, s)
    <2> DEFINE x   == IF "ssl" \in tasks[r][s].renew THEN "ssl" ELSE "domain"
               row == [sites[s] EXCEPT !.warned = @ \ {x}]
    <2>1. sites' = Put(s, row)
      BY <1>5 DEF RenewDone
    <2>2. row \in Row /\ Kept(row, s)
      BY <1>0 DEF Row, RowsFine, RowFine, Kept
    <2> HIDE DEF row
    <2> QED
      BY <2>1, <2>2, PutAgrees
  <1>6. CASE AlertDone(r, s)
    <2> DEFINE t      == tasks[r][s]
               marked == [sites[s] EXCEPT
                            !.prolonged = @ \/ ("prolonged" \in t.issues /\ sites[s].open)]
               done   == [marked EXCEPT !.notified = @ \/ "down" \in t.issues,
                                        !.warned = @ \cup (t.issues \cap Expiries)]
    <2>1. Commits(r, s, marked, done, [Idle EXCEPT !.pc = "background"])
      BY <1>6 DEF AlertDone
    <2>2. marked \in Row /\ Kept(marked, s)
      BY <1>0 DEF Row, RowsFine, RowFine, Kept
    <2>3. done \in Row /\ Kept(done, s)
      <3> HIDE DEF marked
      <3> QED
        BY <2>2 DEF Row, Kept
    <2> HIDE DEF marked, done
    <2> QED
      BY <2>1, <2>2, <2>3, CommitsAgree
  <1>7. CASE SendForbidden(r, s) \/ OperatorTold(r, s)
    <2>1. RowFine(GoneRow)
      BY DEF RowFine, GoneRow, NewRow
    <2>2. DeletePrivateSites \/ UNCHANGED sites
      BY <1>7, NotifyIs
    <2> QED
      BY <2>1, <2>2 DEF DeletePrivateSites, RowsFine
  <1>8. CASE UNCHANGED sites
    BY <1>8 DEF RowsFine
  <1> QED
    BY <1>1, <1>2, <1>3, <1>4, <1>5, <1>6, <1>7, <1>8
    DEF TaskStep, Acquire, Deliver, DnsDone, BackgroundDone, ErrorReported,
        SendFails, CheckRaises

\* From a state whose rows are in order, every step leads to such a state.
LEMMA RowsKept == Spec => []RowsFine
  <1>1. Init => RowsFine
    <2>1. RowFine(NewRow)
      BY DEF RowFine, NewRow
    <2> QED
      BY <2>1 DEF Init, RowsFine
  <1>2. Types /\ RowsFine /\ [Next]_vars => RowsFine'
    <2> SUFFICES ASSUME Types, RowsFine, [Next]_vars
                 PROVE  RowsFine'
      OBVIOUS
    <2>1. ASSUME NEW r \in Runs, NEW s \in Sites, TaskStep(r, s)
          PROVE  RowsFine'
      BY <2>1, TaskStepAgrees
    <2>2. ASSUME NEW s \in Sites, Acknowledge(s) \/ Exclude(s) PROVE RowsFine'
      <3> DEFINE acked    == [sites[s] EXCEPT !.acked = TRUE]
                 excluded == [sites[s] EXCEPT !.excluded = ~@]
      <3>1. sites[s] \in Row /\ RowFine(sites[s])
        BY DEF Types, RowsFine
      <3>2. sites[s].exists
        BY <2>2, <3>1 DEF Acknowledge, Exclude, RowFine, GoneRow, NewRow
      <3>3. RowFine(acked) /\ RowFine(excluded)
        BY <3>1, <3>2 DEF RowFine, Row
      <3>4. sites' = [sites EXCEPT ![s] = acked] \/ sites' = [sites EXCEPT ![s] = excluded]
        BY <2>2 DEF Acknowledge, Exclude, Types
      <3> HIDE DEF acked, excluded
      <3> QED
        BY <3>3, <3>4 DEF Types, RowsFine
    <2>3. ASSUME NEW s \in Sites, DeleteSite(s) PROVE RowsFine'
      <3>1. RowFine(GoneRow)
        BY DEF RowFine, GoneRow, NewRow
      <3> QED
        BY <2>3, <3>1 DEF Types, DeleteSite, RowsFine
    <2>4. CASE UNCHANGED sites
      BY <2>4 DEF RowsFine
    <2> QED
      BY <2>1, <2>2, <2>3, <2>4
      DEF Next, StartRun, UserStep, SetPreferences, SiteToggles, BlockBot, Restart, vars
  <1> QED
    BY <1>1, <1>2, TypesKept, PTL DEF Spec

\* Every variable keeps its type in every behaviour, whatever the sites, runs, limits
\* and preferences; and no write that comes late brings anything back of a row that was
\* deleted, as the monitor only updates the row with the id of its site.
THEOREM TypeCorrect == Spec => []TypeOK
  <1>1. Types /\ RowsFine => TypeOK
    BY DEF TypeOK, RowsFine, RowFine
  <1> QED
    BY <1>1, TypesKept, RowsKept, PTL

\* The incident column of a site and its open central incident never disagree:
\* every handler changes both in one commit or neither, so no interleaving of
\* tasks, owner commands, database errors and restarts separates them.
THEOREM ViewsAgree == Spec => []IncidentViewsAgree
  <1>1. RowsFine => IncidentViewsAgree
    BY DEF RowsFine, RowFine, IncidentViewsAgree
  <1> QED
    BY <1>1, RowsKept, PTL

-----------------------------------------------------------------------------
(* What is told of an outage.  The inductive invariant ties the row of a    *)
(* sound site, what its owner heard, and what the one task that handles it  *)
(* has read or decided.                                                     *)

Evaluating == {"queued", "check", "domain", "confirm"}
Telling    == {"renewSend", "alertSend", "alertAck"}

Active(r, s) == tasks[r][s].pc # "idle"

\* A run the scheduler may start again has no task left.
FreeIsIdle == \A r \in Runs, s \in Sites : jobs[r] = "free" => ~Active(r, s)

\* A site that is not tainted is in the hands of one task at most.
Alone ==
    \A s \in Sites \ tainted : \A r, q \in Runs :
        Active(r, s) /\ Active(q, s) => r = q

\* The row of a site, what its owner heard (h), the failures in a row (n) and
\* the kinds whose delivery is not answered yet (u) tell the same story.
Told(row, h, n, u) ==
    /\ ~row.open => ~row.notified /\ ~row.acked /\ ~row.prolonged /\ h = Unheard
    /\ row.notified => h.downs > 0
    /\ ~row.notified => row.fails <= n
    /\ h.downs > 0 => row.notified \/ "down" \in h.unacked \cup u
    /\ h.downs > 1 => "down" \in h.unacked
    /\ h.prolonged > 0 => row.prolonged \/ "prolonged" \in h.unacked \cup u
    /\ h.prolonged > 1 => "prolonged" \in h.unacked
    /\ h.late > 0 => row.acked
    /\ h.late <= 1

\* What a task has read or decided still fits the row it works on.
Fits(t, row, h, n) ==
    /\ t.pc \in Evaluating => t.inc = row.started
    /\ t.pc \in {"domain", "confirm"} => t.notified = row.notified /\ t.fails = row.fails
    /\ t.pc = "confirm" => ~t.notified
    /\ t.pc \in {"recSend", "recAck"} => row.notified
    /\ t.pc \notin Telling => t.issues \subseteq Expiries
    /\ "down" \in t.issues =>
         row.open /\ ~row.notified /\ n >= Threshold /\ (t.pc = "alertAck" => h.downs > 0)
    /\ "prolonged" \in t.issues => ~row.prolonged
    /\ t.issues \cap Reminder # {} =>
         row.open /\ (t.pc # "alertAck" => h.late = 0)

Waiting(s) == UNION {Unanswered(tasks[r][s]) : r \in Runs}

OutageOK(s) ==
    Sound(s) =>
      /\ Told(sites[s], heard[s], streak[s], Waiting(s))
      /\ \A r \in Runs : Fits(tasks[r][s], sites[s], heard[s], streak[s])

OutagesOK == \A s \in Sites : OutageOK(s)


IInv == Types /\ IncidentViewsAgree /\ FreeIsIdle /\ Alone /\ OutagesOK

LEMMA ExpiriesApart ==
    ASSUME NEW x, x \subseteq Expiries
    PROVE  "down" \notin x /\ "prolonged" \notin x /\ x \cap Reminder = {}
  BY Bounds DEF Reminder

LEMMA NextStopIs ==
    ASSUME NEW t \in Task
    PROVE  /\ NextStop(t).pc \in {"renewSend", "alertSend", "background"}
           /\ NextStop(t).pc = "background" => NextStop(t).issues = {}
           /\ NextStop(t).issues = t.issues
  BY DEF NextStop, Idle

\* A task that is past the evaluation and carries no word of the outage.
LEMMA QuietFits ==
    ASSUME NEW t \in Task, NEW row, NEW h, NEW n,
           t.issues \subseteq Expiries,
           t.pc \notin Evaluating \cup {"recSend", "recAck"}
    PROVE  Fits(t, row, h, n) /\ Unanswered(t) = {}
  <1>1. "down" \notin t.issues /\ "prolonged" \notin t.issues /\ t.issues \cap Reminder = {}
    BY ExpiriesApart
  <1>2. t.pc \notin {"domain", "confirm"}
    BY DEF Evaluating
  <1> QED
    BY <1>1, <1>2 DEF Fits, Unanswered

-----------------------------------------------------------------------------
(* What the handlers do to one sound site, as facts about records.         *)

\* Stage of an outage, and how one step may change it.
Stage(row, h) ==
    IF ~row.open THEN "none"
    ELSE IF row.notified THEN "alerted"
    ELSE IF h.downs > 0 THEN "told" ELSE "open"

Advances(a, b) ==
    \/ b = a
    \/ a = "none" /\ b = "open"
    \/ a = "open" /\ b = "told"
    \/ a = "told" /\ b = "alerted"
    \/ a # "none" /\ b = "none"

LEMMA FailedStep ==
    ASSUME NEW row \in Row, NEW h \in Notice, NEW n \in 0..FailCap, NEW t \in Task,
           row.exists, Told(row, h, n, {}),
           t.notified = row.notified, t.fails = row.fails, t.issues \subseteq Expiries,
           NEW reminder \in IF t.notified THEN DueReminder(t, row) ELSE {{}},
           NEW done \in Row, NEW next \in Task, NEW alert,
           done = [OpenIncident(row) EXCEPT !.fails = Bump(t.fails)],
           alert = IF Bump(t.fails) >= Threshold /\ ~t.notified /\ "down" \in t.prefs
                   THEN {"down"} ELSE {},
           next = NextStop([t EXCEPT !.issues = @ \cup alert \cup reminder])
    PROVE  /\ Told(done, h, Bump(n), Unanswered(next))
           /\ Fits(next, done, h, Bump(n))
           /\ Advances(Stage(row, h), Stage(done, h))
  <1>1. /\ done.open /\ done.notified = row.notified /\ done.acked = row.acked
        /\ done.prolonged = row.prolonged /\ done.fails = Bump(row.fails)
    BY DEF OpenIncident, Row
  <1>2. /\ next.pc \in {"renewSend", "alertSend", "background"}
        /\ next.pc = "background" => next.issues = {}
        /\ next.issues = t.issues \cup alert \cup reminder
    <2> DEFINE told == [t EXCEPT !.issues = @ \cup alert \cup reminder]
    <2>1. reminder \subseteq Issue /\ alert \subseteq Issue
      BY DEF DueReminder, Issue, Reminder
    <2>2. told \in Task /\ told.issues = t.issues \cup alert \cup reminder
      BY <2>1 DEF Task
    <2>3. next = NextStop(told)
      OBVIOUS
    <2> HIDE DEF told
    <2> QED
      BY <2>2, <2>3, NextStopIs
  <1>3. Unanswered(next) = {}
    BY <1>2 DEF Unanswered
  <1>4. row.fails \in 0..FailCap /\ row.notified \in BOOLEAN /\ row.open \in BOOLEAN
    BY DEF Row
  <1>5. row.fails <= n => Bump(row.fails) <= Bump(n)
    BY <1>4, Bounds DEF Bump
  <1>6. h.downs \in 0..2 /\ h.prolonged \in 0..2 /\ h.late \in 0..2
    BY DEF Notice
  <1>7. ~row.open => h.downs = 0 /\ ~row.notified
    BY DEF Told, Unheard
  <1>8. Told(done, h, Bump(n), Unanswered(next))
    BY <1>1, <1>3, <1>5 DEF Told
  <1>9. Advances(Stage(row, h), Stage(done, h))
    BY <1>1, <1>4, <1>6, <1>7 DEF Advances, Stage
  <1>10. "down" \in next.issues => ~row.notified /\ Bump(n) >= Threshold
    <2>1. "down" \notin reminder /\ "down" \notin t.issues
      BY ExpiriesApart DEF DueReminder, Reminder
    <2> SUFFICES ASSUME "down" \in alert PROVE ~row.notified /\ Bump(n) >= Threshold
      BY <2>1, <1>2
    <2>2. ~row.notified /\ Bump(row.fails) >= Threshold
      BY <1>4
    <2>3. Bump(row.fails) <= Bump(n) /\ Bump(row.fails) \in Nat /\ Bump(n) \in Nat
      BY <1>4, <1>5, <2>2, BumpType DEF Told
    <2> QED
      BY <2>2, <2>3, Bounds
  <1>11. /\ "prolonged" \in next.issues => ~row.prolonged
         /\ next.issues \cap Reminder # {} => h.late = 0
    <2>1. t.issues \cap Reminder = {} /\ alert \cap Reminder = {}
      BY ExpiriesApart DEF Reminder
    <2>2. reminder = {} \/ (~row.acked /\ ("prolonged" \in reminder => ~row.prolonged))
      BY DEF DueReminder, Reminder
    <2>3. ~row.acked => h.late = 0
      BY <1>6 DEF Told
    <2> QED
      BY <1>2, <2>1, <2>2, <2>3 DEF Reminder
  <1>12. Fits(next, done, h, Bump(n))
    BY <1>1, <1>2, <1>10, <1>11, ExpiriesApart DEF Fits, Evaluating, Telling
  <1> QED
    BY <1>8, <1>9, <1>12

\* A recovery message is prepared; the row is left alone.
LEMMA AnnounceStep ==
    ASSUME NEW row \in Row, NEW h \in Notice, NEW n \in 0..FailCap, NEW t \in Task,
           Told(row, h, n, {}), row.notified, t.issues \subseteq Expiries,
           NEW next \in Task, next.pc = "recSend", next.issues = t.issues
    PROVE  Told(row, h, 0, Unanswered(next)) /\ Fits(next, row, h, 0)
  <1>1. Unanswered(next) = {}
    BY DEF Unanswered
  <1>2. "down" \notin t.issues /\ "prolonged" \notin t.issues /\ t.issues \cap Reminder = {}
    BY ExpiriesApart
  <1> QED
    BY <1>1, <1>2 DEF Told, Fits, Evaluating, Telling

\* The incident is closed and nothing of it remains.
LEMMA CloseStep ==
    ASSUME NEW row \in Row, NEW h \in Notice, NEW n \in 0..FailCap, NEW next \in Task,
           NEW done \in Row, ~done.open, ~done.notified, ~done.acked, ~done.prolonged,
           done.fails = 0,
           next.issues \subseteq Expiries, next.pc = "dns"
    PROVE  /\ Told(done, Unheard, n, Unanswered(next))
           /\ Fits(next, done, Unheard, n)
           /\ Advances(Stage(row, h), Stage(done, Unheard))
  <1>1. Unanswered(next) = {} /\ Fits(next, done, Unheard, n)
    BY QuietFits DEF Evaluating
  <1>2. Told(done, Unheard, n, {})
    BY <1>1, Bounds DEF Told, Unheard
  <1>3. Advances(Stage(row, h), Stage(done, Unheard))
    BY DEF Advances, Stage
  <1> QED
    BY <1>1, <1>2, <1>3

\* The owner receives an alert; what is not answered yet is remembered.
LEMMA DeliverStep ==
    ASSUME NEW row \in Row, NEW h \in Notice, NEW n \in 0..FailCap, NEW t \in Task,
           Told(row, h, n, {}), Fits(t, row, h, n), t.pc = "alertSend",
           NEW next \in Task, next = [t EXCEPT !.pc = "alertAck"],
           NEW after \in Notice, after = Received(h, t.issues, row.acked)
    PROVE  /\ Told(row, after, n, Unanswered(next))
           /\ Fits(next, row, after, n)
           /\ Advances(Stage(row, h), Stage(row, after))
  <1>1. next.pc = "alertAck" /\ next.issues = t.issues
    BY DEF Task
  <1>2. Unanswered(next) = t.issues \cap {"down", "prolonged"}
    BY <1>1 DEF Unanswered
  <1>3. h.downs \in 0..2 /\ h.prolonged \in 0..2 /\ h.late \in 0..2
    BY DEF Notice
  <1>4. /\ after.downs = IF "down" \in t.issues THEN Twice(h.downs) ELSE h.downs
        /\ after.prolonged = IF "prolonged" \in t.issues
                             THEN Twice(h.prolonged) ELSE h.prolonged
        /\ after.late = IF t.issues \cap Reminder # {} /\ row.acked
                        THEN Twice(h.late) ELSE h.late
        /\ after.unacked = h.unacked
    BY DEF Received, Notice
  <1>5. /\ "down" \in t.issues =>
             /\ row.open /\ ~row.notified /\ n >= Threshold
             /\ h.downs = 0 \/ "down" \in h.unacked
        /\ "prolonged" \in t.issues => h.prolonged = 0 \/ "prolonged" \in h.unacked
        /\ t.issues \cap Reminder # {} => row.open /\ h.late = 0
    BY <1>3 DEF Told, Fits
  <1>6. row.open \/ (after = h /\ h = Unheard)
    <2> SUFFICES ASSUME ~row.open PROVE after = h
      BY DEF Told
    <2>1. "down" \notin t.issues /\ t.issues \cap Reminder = {} /\ "prolonged" \notin t.issues
      BY <1>5 DEF Reminder
    <2> QED
      BY <2>1 DEF Received, Notice
  <1>7. Twice(0) = 1 /\ \A k \in 0..2 : Twice(k) > 0 /\ Twice(k) >= k
    BY DEF Twice
  <1>8. Told(row, after, n, Unanswered(next))
    <2>1. ~row.open => ~row.notified /\ ~row.acked /\ ~row.prolonged /\ after = Unheard
      BY <1>6 DEF Told
    <2>2. /\ row.notified => after.downs > 0
          /\ after.downs > 0 => row.notified \/ "down" \in after.unacked \cup Unanswered(next)
          /\ after.downs > 1 => "down" \in after.unacked
      BY <1>2, <1>3, <1>4, <1>5, <1>7 DEF Told
    <2>3. /\ after.prolonged > 0 =>
               row.prolonged \/ "prolonged" \in after.unacked \cup Unanswered(next)
          /\ after.prolonged > 1 => "prolonged" \in after.unacked
      BY <1>2, <1>3, <1>4, <1>5, <1>7 DEF Told
    <2>4. (after.late > 0 => row.acked) /\ after.late <= 1
      BY <1>3, <1>4, <1>5, <1>7 DEF Told
    <2> QED
      BY <2>1, <2>2, <2>3, <2>4 DEF Told
  <1>9. Fits(next, row, after, n)
    <2>1. "down" \in t.issues => after.downs > 0
      BY <1>3, <1>4, <1>7
    <2> QED
      BY <1>1, <1>5, <2>1 DEF Fits, Evaluating, Telling
  <1>10. Advances(Stage(row, h), Stage(row, after))
    BY <1>3, <1>4, <1>5, <1>7 DEF Advances, Stage
  <1> QED
    BY <1>8, <1>9, <1>10

\* The answer to an alert is lost, and with it the task.
LEMMA LostStep ==
    ASSUME NEW row \in Row, NEW h \in Notice, NEW n \in 0..FailCap, NEW t \in Task,
           Told(row, h, n, Unanswered(t)), Fits(t, row, h, n),
           NEW after, after = [h EXCEPT !.unacked = @ \cup Unanswered(t)]
    PROVE  Told(row, after, n, {}) /\ Stage(row, after) = Stage(row, h)
  <1>1. /\ after.downs = h.downs /\ after.prolonged = h.prolonged /\ after.late = h.late
        /\ after.unacked = h.unacked \cup Unanswered(t)
    BY DEF Notice
  <1>2. ~row.open => Unanswered(t) = {}
    BY DEF Fits, Unanswered, Reminder
  <1>3. Unanswered(t) = {} => after = h
    BY DEF Notice
  <1>4. Told(row, after, n, {})
    BY <1>1, <1>2, <1>3 DEF Told
  <1> QED
    BY <1>1, <1>4 DEF Stage

-----------------------------------------------------------------------------
(* Steps of one task, seen from its site.                                  *)

\* What a step leaves of site s: the invariant and a legal change of stage.
SiteEffect(s) ==
    /\ OutageOK(s)'
    /\ Sound(s)' => Sound(s) /\ Advances(Stage(sites[s], heard[s]), Stage(sites[s], heard[s])')

LEMMA WaitingIs ==
    ASSUME IInv, NEW r \in Runs, NEW s \in Sites, Sound(s), Active(r, s)
    PROVE  /\ Waiting(s) = Unanswered(tasks[r][s])
           /\ \A q \in Runs \ {r} : ~Active(q, s)
  <1>1. \A q \in Runs \ {r} : ~Active(q, s)
    BY DEF IInv, Alone, Sound
  <1>2. \A q \in Runs \ {r} : Unanswered(tasks[q][s]) = {}
    BY <1>1 DEF Active, Unanswered
  <1> QED
    BY <1>1, <1>2 DEF Waiting

\* The state of a sound site in the hands of task r.
LEMMA Before ==
    ASSUME IInv, NEW r \in Runs, NEW s \in Sites, Sound(s), Active(r, s)
    PROVE  /\ sites[s] \in Row /\ heard[s] \in Notice /\ streak[s] \in 0..FailCap
           /\ tasks[r][s] \in Task
           /\ sites[s].started = sites[s].open
           /\ Told(sites[s], heard[s], streak[s], Unanswered(tasks[r][s]))
           /\ Fits(tasks[r][s], sites[s], heard[s], streak[s])
  BY WaitingIs DEF IInv, Types, IncidentViewsAgree, OutagesOK, OutageOK

\* The step leads the task to t and the site to a row, a history and a count
\* that fit each other: the other runs have no task on the site.
LEMMA OwnStep ==
    ASSUME IInv, NEW r \in Runs, NEW s \in Sites, Sound(s), Active(r, s),
           NEW t \in Task, Goto(r, s, t),
           Told(sites'[s], heard'[s], streak'[s], Unanswered(t)),
           Fits(t, sites'[s], heard'[s], streak'[s])
    PROVE  OutageOK(s)'
  <1>1. /\ tasks'[r][s] = t
        /\ \A q \in Runs \ {r} : tasks'[q][s] = tasks[q][s]
    BY DEF IInv, Types, Goto
  <1>2. \A q \in Runs \ {r} : tasks[q][s].pc = "idle" /\ tasks[q][s] \in Task
    BY WaitingIs DEF Active, IInv, Types
  <1>3. \A q \in Runs \ {r} : tasks[q][s].issues \subseteq Expiries
    BY <1>2 DEF IInv, OutagesOK, OutageOK, Fits, Telling
  <1>4. \A q \in Runs \ {r} : /\ Fits(tasks'[q][s], sites'[s], heard'[s], streak'[s])
                              /\ Unanswered(tasks'[q][s]) = {}
    BY <1>1, <1>2, <1>3, QuietFits DEF Evaluating
  <1>5. UNION {Unanswered(tasks'[q][s]) : q \in Runs} = Unanswered(t)
    BY <1>1, <1>4
  <1>6. \A q \in Runs : Fits(tasks'[q][s], sites'[s], heard'[s], streak'[s])
    BY <1>1, <1>4
  <1> QED
    BY <1>5, <1>6 DEF OutageOK, Waiting

LEMMA CommitsOwn ==
    ASSUME Types, NEW r \in Runs, NEW s \in Sites, NEW first, NEW second, NEW next,
           Commits(r, s, first, second, next), Sound(s)'
    PROVE  /\ Sound(s) /\ sites'[s] = second /\ Goto(r, s, next)
           /\ UNCHANGED tainted
  <1>1. s \notin tainted'
    BY DEF Sound
  <1>2. sites' = Put(s, second) /\ Goto(r, s, next) /\ UNCHANGED tainted
    BY <1>1 DEF Commits
  <1>3. sites'[s] = IF sites[s].exists THEN second ELSE sites[s]
    BY <1>2 DEF Put, Types
  <1> QED
    BY <1>1, <1>2, <1>3 DEF Sound

\* A task takes its next step without a word to anyone; the site, if it is sound
\* afterwards, is unchanged but for the answer that is lost.
LEMMA QuietStep ==
    ASSUME IInv, NEW r \in Runs, NEW s \in Sites, Active(r, s),
           NEW t \in Task, Goto(r, s, t), Sound(s) => t.issues \subseteq Expiries,
           t.pc \notin Evaluating \cup {"recSend", "recAck"},
           Sound(s)' =>
             /\ Sound(s) /\ sites'[s] = sites[s] /\ streak'[s] = streak[s]
             /\ heard'[s] = IF tasks[r][s].pc = "alertAck"
                            THEN [heard[s] EXCEPT !.unacked = @ \cup Unanswered(tasks[r][s])]
                            ELSE heard[s]
    PROVE  SiteEffect(s)
  <1> SUFFICES ASSUME Sound(s)'
               PROVE  /\ OutageOK(s)' /\ Sound(s)
                      /\ Advances(Stage(sites[s], heard[s]), Stage(sites[s], heard[s])')
    BY DEF SiteEffect, OutageOK
  <1>1. Sound(s) /\ sites'[s] = sites[s] /\ streak'[s] = streak[s]
    OBVIOUS
  <1>2. Unanswered(t) = {} /\ Fits(t, sites[s], heard'[s], streak[s])
    BY <1>1, QuietFits
  <1>3. /\ Told(sites[s], heard'[s], streak[s], {})
        /\ Stage(sites[s], heard'[s]) = Stage(sites[s], heard[s])
    <2>1. CASE tasks[r][s].pc = "alertAck"
      BY <1>1, <2>1, Before, LostStep
    <2>2. CASE tasks[r][s].pc # "alertAck"
      <3>1. Unanswered(tasks[r][s]) = {}
        BY <2>2 DEF Unanswered
      <3> QED
        BY <1>1, <2>2, <3>1, Before
    <2> QED
      BY <2>1, <2>2
  <1>4. OutageOK(s)'
    BY <1>1, <1>2, <1>3, OwnStep
  <1> QED
    BY <1>1, <1>3, <1>4 DEF Advances

\* The values a task evaluates are those of the row.
Reads(t, s) ==
    Sound(s) =>
      /\ t.inc = sites[s].started
      /\ t.notified = sites[s].notified /\ t.fails = sites[s].fails
      /\ t.issues \subseteq Expiries

LEMMA ClearedIs ==
    ASSUME NEW row \in Row
    PROVE  /\ ClearIncident(row) \in Row /\ ~ClearIncident(row).open
           /\ ~ClearIncident(row).acked /\ ~ClearIncident(row).prolonged
           /\ ClearIncident(row).notified = row.notified
           /\ ClearIncident(row).fails = row.fails
  BY RowOps DEF ClearIncident, Row

LEMMA FailedEffect ==
    ASSUME IInv, NEW r \in Runs, NEW s \in Sites, Active(r, s), NEW t \in Task,
           tasks[r][s].pc # "alertAck", Reads(t, s), Failed(r, s, t)
    PROVE  SiteEffect(s)
  <1> SUFFICES ASSUME Sound(s)'
               PROVE  /\ OutageOK(s)' /\ Sound(s)
                      /\ Advances(Stage(sites[s], heard[s]), Stage(sites[s], heard[s])')
    BY DEF SiteEffect, OutageOK
  <1> DEFINE fails  == Bump(t.fails)
             opened == OpenIncident(sites[s])
             done   == [opened EXCEPT !.fails = fails]
             alert  == IF fails >= Threshold /\ ~t.notified /\ "down" \in t.prefs
                       THEN {"down"} ELSE {}
             Next1(reminder) == NextStop([t EXCEPT !.issues = @ \cup alert \cup reminder])
  <1>1. PICK reminder \in IF t.notified THEN DueReminder(t, sites[s]) ELSE {{}} :
          Commits(r, s, opened, done, Next1(reminder))
    BY DEF Failed
  <1> DEFINE next == Next1(reminder)
  <1>2. Sound(s) /\ sites'[s] = done /\ Goto(r, s, next)
    <2> HIDE DEF opened, done, Next1
    <2> QED
      BY <1>1, CommitsOwn DEF IInv
  <1>3. heard'[s] = heard[s] /\ streak'[s] = Bump(streak[s])
    BY <1>2 DEF Failed, Sound, IInv, Types
  <1>4. Unanswered(tasks[r][s]) = {}
    BY DEF Unanswered
  <1>5. done \in Row
    <2>1. opened \in Row /\ fails \in 0..FailCap
      BY RowOps, BumpType DEF IInv, Types, Task
    <2> HIDE DEF opened, fails
    <2> QED
      BY <2>1 DEF Row
  <1>6. next \in Task
    <2>1. reminder \subseteq Issue /\ alert \subseteq Issue
      BY DEF DueReminder, Issue, Reminder
    <2> HIDE DEF alert
    <2>2. [t EXCEPT !.issues = @ \cup alert \cup reminder] \in Task
      BY <2>1 DEF Task
    <2> QED
      BY <2>2, NextStopType
  <1>7. /\ Told(done, heard[s], Bump(streak[s]), Unanswered(next))
        /\ Fits(next, done, heard[s], Bump(streak[s]))
        /\ Advances(Stage(sites[s], heard[s]), Stage(done, heard[s]))
    <2>1. sites[s].exists
      BY <1>2 DEF Sound
    <2>2. /\ t.notified = sites[s].notified /\ t.fails = sites[s].fails
          /\ t.issues \subseteq Expiries
      BY <1>2 DEF Reads
    <2>3. /\ sites[s] \in Row /\ heard[s] \in Notice /\ streak[s] \in 0..FailCap
          /\ Told(sites[s], heard[s], streak[s], {})
      BY <1>2, <1>4, Before
    <2> QED
      BY <1>5, <1>6, <2>1, <2>2, <2>3, FailedStep
  <1> HIDE DEF next, done
  <1>8. OutageOK(s)'
    BY <1>2, <1>3, <1>6, <1>7, OwnStep
  <1> QED
    BY <1>2, <1>3, <1>7, <1>8

LEMMA AnnounceEffect ==
    ASSUME IInv, NEW r \in Runs, NEW s \in Sites, Active(r, s), NEW t \in Task,
           tasks[r][s].pc # "alertAck", Reads(t, s), t.notified, Announce(r, s, t)
    PROVE  SiteEffect(s)
  <1> SUFFICES ASSUME Sound(s)
               PROVE  /\ OutageOK(s)'
                      /\ Advances(Stage(sites[s], heard[s]), Stage(sites[s], heard[s])')
    BY DEF SiteEffect, OutageOK, Announce, Sound
  <1> DEFINE next == [Idle EXCEPT !.pc = "recSend", !.renew = t.renew, !.issues = t.issues]
  <1>1. next \in Task /\ next.pc = "recSend" /\ next.issues = t.issues
    BY CarryType DEF Awaiting, Idle
  <1>2. Unanswered(tasks[r][s]) = {}
    BY DEF Unanswered
  <1>3. /\ Goto(r, s, next)
        /\ sites'[s] = sites[s] /\ heard'[s] = heard[s] /\ streak'[s] = 0
    BY DEF Announce, IInv, Types
  <1> HIDE DEF next
  <1>4. Told(sites[s], heard[s], 0, Unanswered(next)) /\ Fits(next, sites[s], heard[s], 0)
    <2>1. sites[s].notified /\ t.issues \subseteq Expiries
      BY DEF Reads
    <2> QED
      BY <1>1, <1>2, <2>1, Before, AnnounceStep
  <1>5. OutageOK(s)'
    BY <1>1, <1>3, <1>4, OwnStep
  <1> QED
    BY <1>3, <1>5 DEF Advances

LEMMA CloseEffect ==
    ASSUME IInv, NEW r \in Runs, NEW s \in Sites, Active(r, s), NEW t \in Task,
           Sound(s) => t.issues \subseteq Expiries,
           CloseOutage(r, s, t), streak'[s] \in 0..FailCap
    PROVE  SiteEffect(s)
  <1> SUFFICES ASSUME Sound(s)'
               PROVE  /\ OutageOK(s)' /\ Sound(s)
                      /\ Advances(Stage(sites[s], heard[s]), Stage(sites[s], heard[s])')
    BY DEF SiteEffect, OutageOK
  <1> DEFINE closed == ClearIncident(sites[s])
             done   == [closed EXCEPT !.notified = FALSE, !.fails = 0]
             next   == [Idle EXCEPT !.pc = "dns", !.renew = t.renew, !.issues = t.issues]
  <1>1. next \in Task /\ next.pc = "dns" /\ next.issues = t.issues
    BY CarryType DEF Awaiting, Idle
  <1>2. Sound(s) /\ sites'[s] = done /\ Goto(r, s, next)
    <2>1. Commits(r, s, closed, done, next)
      BY DEF CloseOutage
    <2> HIDE DEF closed, done, next
    <2> QED
      BY <2>1, CommitsOwn DEF IInv
  <1>3. heard'[s] = Unheard
    BY DEF CloseOutage, Forget, IInv, Types
  <1>4. /\ done \in Row /\ ~done.open /\ ~done.notified /\ ~done.acked /\ ~done.prolonged
        /\ done.fails = 0
    <2>0. sites[s] \in Row
      BY DEF IInv, Types
    <2>1. closed \in Row /\ ~closed.open /\ ~closed.acked /\ ~closed.prolonged
      BY <2>0, ClearedIs
    <2>2. 0 \in 0..FailCap
      BY Bounds
    <2> HIDE DEF closed
    <2> QED
      BY <2>1, <2>2 DEF Row
  <1> HIDE DEF done, next
  <1>5. /\ Told(done, Unheard, streak'[s], Unanswered(next))
        /\ Fits(next, done, Unheard, streak'[s])
        /\ Advances(Stage(sites[s], heard[s]), Stage(done, Unheard))
    BY <1>1, <1>2, <1>4, Before, CloseStep
  <1>6. OutageOK(s)'
    BY <1>1, <1>2, <1>3, <1>5, OwnStep
  <1> QED
    BY <1>2, <1>3, <1>5, <1>6

LEMMA StayUpEffect ==
    ASSUME IInv, NEW r \in Runs, NEW s \in Sites, Active(r, s), NEW t \in Task,
           tasks[r][s].pc # "alertAck", Reads(t, s), Sound(s) => ~t.notified,
           StayUp(r, s, t), streak'[s] \in 0..FailCap
    PROVE  SiteEffect(s)
  <1> SUFFICES ASSUME Sound(s)'
               PROVE  /\ OutageOK(s)' /\ Sound(s)
                      /\ Advances(Stage(sites[s], heard[s]), Stage(sites[s], heard[s])')
    BY DEF SiteEffect, OutageOK
  <1> DEFINE closed == IF t.inc THEN ClearIncident(sites[s]) ELSE sites[s]
             done   == IF t.fails # 0 THEN [closed EXCEPT !.fails = 0] ELSE closed
             next   == [Idle EXCEPT !.pc = "dns", !.renew = t.renew, !.issues = t.issues]
  <1>1. next \in Task /\ next.pc = "dns" /\ next.issues = t.issues
    BY CarryType DEF Awaiting, Idle
  <1>2. Sound(s) /\ sites'[s] = done /\ Goto(r, s, next)
    <2>1. Commits(r, s, closed, done, next)
      BY DEF StayUp
    <2> HIDE DEF closed, done, next
    <2> QED
      BY <2>1, CommitsOwn DEF IInv
  <1>3. /\ t.inc = sites[s].open /\ t.fails = sites[s].fails /\ ~sites[s].notified
        /\ t.issues \subseteq Expiries /\ sites[s] \in Row
        /\ Told(sites[s], heard[s], streak[s], Unanswered(tasks[r][s]))
    BY <1>2, Before DEF Reads
  <1>4. heard'[s] = Unheard
    BY <1>3 DEF StayUp, Forget, Told, IInv, Types
  <1>5. /\ done \in Row /\ ~done.open /\ ~done.notified /\ ~done.acked /\ ~done.prolonged
        /\ done.fails = 0
    <2>1. /\ closed \in Row /\ ~closed.open /\ ~closed.notified /\ ~closed.acked
          /\ ~closed.prolonged /\ closed.fails = sites[s].fails
      BY <1>3, ClearedIs DEF Told
    <2>2. 0 \in 0..FailCap
      BY Bounds
    <2> HIDE DEF closed
    <2> QED
      BY <1>3, <2>1, <2>2 DEF Row
  <1> HIDE DEF done, next
  <1>6. /\ Told(done, Unheard, streak'[s], Unanswered(next))
        /\ Fits(next, done, Unheard, streak'[s])
        /\ Advances(Stage(sites[s], heard[s]), Stage(done, Unheard))
    BY <1>1, <1>2, <1>3, <1>5, Before, CloseStep
  <1>7. OutageOK(s)'
    BY <1>1, <1>2, <1>4, <1>6, OwnStep
  <1> QED
    BY <1>2, <1>4, <1>6, <1>7

LEMMA DecideEffect ==
    ASSUME IInv, NEW r \in Runs, NEW s \in Sites, Active(r, s), NEW t \in Task,
           tasks[r][s].pc # "alertAck", Reads(t, s),
           NEW transient \in BOOLEAN, Sound(s) /\ transient => ~t.notified,
           Decide(r, s, t, transient)
    PROVE  SiteEffect(s)
  <1>1. 0 \in 0..FailCap
    BY Bounds
  <1>2. CASE Failed(r, s, t)
    BY <1>2, FailedEffect
  <1>3. CASE t.notified /\ Announce(r, s, t)
    BY <1>3, AnnounceEffect
  <1>4. CASE CloseOutage(r, s, t) /\ streak' = [streak EXCEPT ![s] = 0]
    <2>1. streak'[s] \in 0..FailCap
      BY <1>1, <1>4 DEF IInv, Types
    <2> QED
      BY <1>4, <2>1, CloseEffect DEF Reads
  <1>5. CASE /\ t.ok /\ (transient \/ ~Recovering(t)) /\ StayUp(r, s, t)
             /\ streak' = [streak EXCEPT ![s] = 0]
    <2>1. streak'[s] \in 0..FailCap
      BY <1>1, <1>5 DEF IInv, Types
    <2>2. Sound(s) => ~t.notified
      BY <1>5 DEF Recovering
    <2> QED
      BY <1>5, <2>1, <2>2, StayUpEffect
  <1> QED
    BY <1>2, <1>3, <1>4, <1>5 DEF Decide

\* A task goes on to another step of its evaluation.
LEMMA EvaluatingStep ==
    ASSUME IInv, NEW r \in Runs, NEW s \in Sites, Active(r, s),
           NEW t \in Task, Goto(r, s, t),
           t.pc \in {"check", "domain", "confirm"}, tasks[r][s].pc # "alertAck",
           UNCHANGED <<sites, heard, streak, tainted>>,
           Sound(s) => /\ t.inc = sites[s].started /\ t.issues \subseteq Expiries
                       /\ t.pc # "check" =>
                            t.notified = sites[s].notified /\ t.fails = sites[s].fails
                       /\ t.pc = "confirm" => ~t.notified
    PROVE  SiteEffect(s)
  <1> SUFFICES ASSUME Sound(s)
               PROVE  /\ OutageOK(s)'
                      /\ Advances(Stage(sites[s], heard[s]), Stage(sites[s], heard[s])')
    BY DEF SiteEffect, OutageOK, Sound
  <1>1. Unanswered(t) = {} /\ Unanswered(tasks[r][s]) = {}
    BY DEF Unanswered
  <1>2. /\ "down" \notin t.issues /\ "prolonged" \notin t.issues
        /\ t.issues \cap Reminder = {}
    BY ExpiriesApart
  <1>3. Fits(t, sites[s], heard[s], streak[s])
    BY <1>2 DEF Fits
  <1>4. OutageOK(s)'
    BY <1>1, <1>3, Before, OwnStep
  <1> QED
    BY <1>4 DEF Advances

LEMMA EvaluateEffect ==
    ASSUME IInv, NEW r \in Runs, NEW s \in Sites, Active(r, s), NEW t \in Task,
           tasks[r][s].pc # "alertAck", Reads(t, s), Evaluate(r, s, t)
    PROVE  SiteEffect(s)
  <1>1. CASE Decide(r, s, t, FALSE)
    BY <1>1, DecideEffect
  <1>2. CASE /\ MustConfirm(t) /\ Goto(r, s, [t EXCEPT !.pc = "confirm"])
             /\ UNCHANGED <<sites, heard, streak, tainted>>
    <2> DEFINE next == [t EXCEPT !.pc = "confirm"]
    <2>1. /\ next \in Task /\ next.pc = "confirm" /\ next.inc = t.inc
          /\ next.issues = t.issues /\ next.notified = t.notified /\ next.fails = t.fails
      BY DEF Task, Awaiting
    <2>2. ~t.notified
      BY <1>2 DEF MustConfirm
    <2> HIDE DEF next
    <2>3. Goto(r, s, next)
      BY <1>2 DEF next
    <2> QED
      BY <1>2, <2>1, <2>2, <2>3, EvaluatingStep DEF Reads
  <1> QED
    BY <1>1, <1>2 DEF Evaluate

LEMMA AcquireEffect ==
    ASSUME IInv, NEW r \in Runs, NEW s \in Sites, Acquire(r, s)
    PROVE  SiteEffect(s)
  <1> DEFINE next == [tasks[r][s] EXCEPT !.pc = "check"]
  <1>0. tasks[r][s] \in Task
    BY DEF IInv, Types
  <1>1. /\ next \in Task /\ next.pc = "check" /\ next.inc = tasks[r][s].inc
        /\ next.issues = tasks[r][s].issues
    BY <1>0 DEF Task, Awaiting
  <1>2. Active(r, s) /\ Goto(r, s, next) /\ tasks[r][s].pc = "queued"
    BY DEF Acquire, Active
  <1>3. Sound(s) => next.inc = sites[s].started /\ next.issues \subseteq Expiries
    BY <1>1, <1>2, Before DEF Fits, Evaluating, Telling
  <1> HIDE DEF next
  <1> QED
    BY <1>1, <1>2, <1>3, EvaluatingStep DEF Acquire

LEMMA CheckDoneEffect ==
    ASSUME IInv, NEW r \in Runs, NEW s \in Sites, CheckDone(r, s)
    PROVE  SiteEffect(s)
  <1>1. PICK t \in Task :
          /\ t.inc = tasks[r][s].inc
          /\ t.ok = up[s] /\ t.notified = sites[s].notified /\ t.fails = sites[s].fails
          /\ t.prefs = prefs[s] /\ t.issues \subseteq Expiries
          /\ \/ /\ Goto(r, s, [t EXCEPT !.pc = "domain"])
                /\ UNCHANGED <<sites, heard, streak, tainted>>
             \/ Evaluate(r, s, t)
    BY CheckDoneRead DEF IInv
  <1>2. Active(r, s) /\ tasks[r][s].pc = "check"
    BY DEF CheckDone, Active
  <1>3. Reads(t, s)
    BY <1>1, <1>2, Before DEF Reads, Fits, Evaluating
  <1>4. CASE /\ Goto(r, s, [t EXCEPT !.pc = "domain"])
             /\ UNCHANGED <<sites, heard, streak, tainted>>
    <2> DEFINE next == [t EXCEPT !.pc = "domain"]
    <2>1. /\ next \in Task /\ next.pc = "domain" /\ next.inc = t.inc
          /\ next.issues = t.issues /\ next.notified = t.notified /\ next.fails = t.fails
      BY DEF Task, Awaiting
    <2> HIDE DEF next
    <2>2. Goto(r, s, next)
      BY <1>4 DEF next
    <2> QED
      BY <1>2, <1>3, <1>4, <2>1, <2>2, EvaluatingStep DEF Reads
  <1> QED
    BY <1>1, <1>2, <1>3, <1>4, EvaluateEffect

LEMMA DomainDoneEffect ==
    ASSUME IInv, NEW r \in Runs, NEW s \in Sites, DomainDone(r, s)
    PROVE  SiteEffect(s)
  <1>1. Active(r, s) /\ tasks[r][s].pc = "domain" /\ tasks[r][s] \in Task
    BY DEF DomainDone, Active, IInv, Types
  <1>2. Reads(tasks[r][s], s)
    BY <1>1, Before DEF Reads, Fits, Evaluating, Telling
  <1> QED
    BY <1>1, <1>2, EvaluateEffect DEF DomainDone

LEMMA ConfirmDoneEffect ==
    ASSUME IInv, NEW r \in Runs, NEW s \in Sites, ConfirmDone(r, s)
    PROVE  SiteEffect(s)
  <1> DEFINE t == [tasks[r][s] EXCEPT !.ok = up[s]]
  <1>1. /\ Active(r, s) /\ tasks[r][s].pc = "confirm" /\ up[s] \in BOOLEAN
        /\ tasks[r][s] \in Task
    BY DEF ConfirmDone, Active, IInv, Types
  <1>2. /\ t \in Task /\ t.inc = tasks[r][s].inc /\ t.issues = tasks[r][s].issues
        /\ t.notified = tasks[r][s].notified /\ t.fails = tasks[r][s].fails
    BY <1>1 DEF Task
  <1>3. Decide(r, s, t, up[s])
    BY DEF ConfirmDone
  <1> HIDE DEF t
  <1>4. Reads(t, s)
    BY <1>1, <1>2, Before DEF Reads, Fits, Evaluating, Telling
  <1>5. Sound(s) => ~t.notified
    BY <1>1, <1>2, Before DEF Fits
  <1> QED
    BY <1>1, <1>2, <1>3, <1>4, <1>5, DecideEffect

LEMMA DeliverEffect ==
    ASSUME IInv, NEW r \in Runs, NEW s \in Sites, Deliver(r, s)
    PROVE  SiteEffect(s)
  <1> DEFINE t    == tasks[r][s]
             next == [t EXCEPT !.pc = IF t.pc = "recSend" THEN "recAck" ELSE "alertAck"]
  <1> SUFFICES ASSUME Sound(s)
               PROVE  /\ OutageOK(s)'
                      /\ Advances(Stage(sites[s], heard[s]), Stage(sites[s], heard[s])')
    BY DEF SiteEffect, OutageOK, Deliver, Sound
  <1>1. Active(r, s) /\ t.pc \in {"recSend", "alertSend"} /\ Goto(r, s, next)
    BY DEF Deliver, Active
  <1>2. sites'[s] = sites[s] /\ streak'[s] = streak[s] /\ t \in Task
    BY DEF Deliver, IInv, Types
  <1>3. Unanswered(t) = {}
    BY <1>1 DEF Unanswered
  <1>4. CASE t.pc = "recSend"
    <2>1. next \in Task /\ next.pc = "recAck" /\ next.issues = t.issues
      BY <1>2, <1>4 DEF Task, Awaiting
    <2>2. heard'[s] = heard[s]
      BY <1>4 DEF Deliver
    <2> HIDE DEF next
    <2>3. t.issues \subseteq Expiries /\ sites[s].notified
      BY <1>1, <1>4, Before DEF Fits, Telling
    <2>4. Told(sites[s], heard[s], streak[s], Unanswered(next))
          /\ Fits(next, sites[s], heard[s], streak[s])
      <3>1. /\ "down" \notin t.issues /\ "prolonged" \notin t.issues
            /\ t.issues \cap Reminder = {}
        BY <2>3, ExpiriesApart
      <3>2. Unanswered(next) = {}
        BY <2>1 DEF Unanswered
      <3>3. Told(sites[s], heard[s], streak[s], {})
        BY <1>1, <1>3, Before
      <3> QED
        BY <2>1, <2>3, <3>1, <3>2, <3>3 DEF Fits, Evaluating, Telling
    <2>5. OutageOK(s)'
      BY <1>1, <1>2, <2>1, <2>2, <2>4, OwnStep
    <2> QED
      BY <1>2, <2>2, <2>5 DEF Advances
  <1>5. CASE t.pc = "alertSend"
    <2> DEFINE after == Received(heard[s], t.issues, sites[s].acked)
    <2>1. next \in Task /\ next = [t EXCEPT !.pc = "alertAck"]
      BY <1>2, <1>5 DEF Task, Awaiting
    <2>2. heard'[s] = after /\ after \in Notice
      <3>1. Types'
        BY DeliverType DEF IInv
      <3> QED
        BY <1>5, <3>1 DEF Deliver, Sound, IInv, Types
    <2> HIDE DEF next
    <2>3. /\ Told(sites[s], after, streak[s], Unanswered(next))
          /\ Fits(next, sites[s], after, streak[s])
          /\ Advances(Stage(sites[s], heard[s]), Stage(sites[s], after))
      <3>1. /\ sites[s] \in Row /\ heard[s] \in Notice /\ streak[s] \in 0..FailCap
            /\ Told(sites[s], heard[s], streak[s], {})
            /\ Fits(t, sites[s], heard[s], streak[s])
        BY <1>1, <1>3, Before
      <3> HIDE DEF t, after
      <3>2. after = Received(heard[s], t.issues, sites[s].acked) /\ t \in Task
        BY <1>2 DEF after
      <3> QED
        BY <1>5, <2>1, <2>2, <3>1, <3>2, DeliverStep
    <2>4. OutageOK(s)'
      BY <1>1, <1>2, <2>1, <2>2, <2>3, OwnStep
    <2> QED
      BY <1>2, <2>2, <2>3, <2>4
  <1> QED
    BY <1>1, <1>4, <1>5

LEMMA RenewDoneEffect ==
    ASSUME IInv, NEW r \in Runs, NEW s \in Sites, RenewDone(r, s)
    PROVE  SiteEffect(s)
  <1> DEFINE t    == tasks[r][s]
             x    == IF "ssl" \in t.renew THEN "ssl" ELSE "domain"
             row  == [sites[s] EXCEPT !.warned = @ \ {x}]
             left == [t EXCEPT !.renew = @ \ {x}]
             next == NextStop(left)
  <1> SUFFICES ASSUME Sound(s)'
               PROVE  /\ OutageOK(s)' /\ Sound(s)
                      /\ Advances(Stage(sites[s], heard[s]), Stage(sites[s], heard[s])')
    BY DEF SiteEffect, OutageOK
  <1>1. /\ Active(r, s) /\ t.pc = "renewSend" /\ Goto(r, s, next)
        /\ heard'[s] = heard[s] /\ streak'[s] = streak[s] /\ sites' = Put(s, row)
    BY DEF RenewDone, Active
  <1>2. t \in Task /\ sites[s] \in Row
    BY DEF IInv, Types
  <1>3. Sound(s) /\ sites'[s] = row
    <2>1. sites'[s] = IF sites[s].exists THEN row ELSE sites[s]
      BY <1>1 DEF Put, IInv, Types
    <2> QED
      BY <2>1 DEF Sound, RenewDone
  <1>4. /\ row.started = sites[s].started /\ row.open = sites[s].open
        /\ row.notified = sites[s].notified /\ row.acked = sites[s].acked
        /\ row.prolonged = sites[s].prolonged /\ row.fails = sites[s].fails
    BY <1>2 DEF Row
  <1>5. /\ next \in Task /\ next.pc \in {"renewSend", "alertSend", "background"}
        /\ next.issues = t.issues /\ (next.pc = "background" => next.issues = {})
    <2>1. left \in Task /\ left.issues = t.issues
      <3>1. t.renew \ {x} \in SUBSET Expiries
        BY <1>2 DEF Task
      <3> HIDE DEF t, x
      <3> QED
        BY <1>2, <3>1 DEF Task
    <2> HIDE DEF left
    <2> QED
      BY <2>1, NextStopIs, NextStopType
  <1>6. Unanswered(next) = {} /\ Unanswered(t) = {}
    BY <1>1, <1>5 DEF Unanswered
  <1> HIDE DEF next, row
  <1>7. Told(row, heard[s], streak[s], Unanswered(next))
    BY <1>1, <1>3, <1>4, <1>6, Before DEF Told
  <1>8. Fits(next, row, heard[s], streak[s])
    <2>1. Fits(t, sites[s], heard[s], streak[s])
      BY <1>1, <1>3, Before
    <2> HIDE DEF t
    <2> QED
      BY <1>1, <1>4, <1>5, <2>1 DEF Fits, Evaluating, Telling
  <1>9. OutageOK(s)'
    BY <1>1, <1>3, <1>5, <1>7, <1>8, OwnStep
  <1>10. Stage(row, heard[s]) = Stage(sites[s], heard[s])
    BY <1>4 DEF Stage
  <1> QED
    BY <1>1, <1>3, <1>9, <1>10 DEF Advances

LEMMA AlertDoneEffect ==
    ASSUME IInv, NEW r \in Runs, NEW s \in Sites, AlertDone(r, s)
    PROVE  SiteEffect(s)
  <1> DEFINE t      == tasks[r][s]
             marked == [sites[s] EXCEPT
                          !.prolonged = @ \/ ("prolonged" \in t.issues /\ sites[s].open)]
             done   == [marked EXCEPT !.notified = @ \/ "down" \in t.issues,
                                      !.warned = @ \cup (t.issues \cap Expiries)]
             next   == [Idle EXCEPT !.pc = "background"]
  <1> SUFFICES ASSUME Sound(s)'
               PROVE  /\ OutageOK(s)' /\ Sound(s)
                      /\ Advances(Stage(sites[s], heard[s]), Stage(sites[s], heard[s])')
    BY DEF SiteEffect, OutageOK
  <1>1. /\ Active(r, s) /\ t.pc = "alertAck" /\ t \in Task
        /\ heard'[s] = heard[s] /\ streak'[s] = streak[s]
    BY DEF AlertDone, Active, IInv, Types
  <1>2. Sound(s) /\ sites'[s] = done /\ Goto(r, s, next)
    <2>1. Commits(r, s, marked, done, next)
      BY DEF AlertDone
    <2> HIDE DEF marked, done, next
    <2> QED
      BY <2>1, CommitsOwn DEF IInv
  <1>3. next \in Task /\ next.pc = "background" /\ next.issues \subseteq Expiries
    BY IdleType DEF Task, Awaiting, Idle
  <1> DEFINE row  == sites[s]
             h    == heard[s]
             n    == streak[s]
             down == "down" \in t.issues
             long == "prolonged" \in t.issues
  <1>4. row \in Row
    BY DEF IInv, Types
  <1>5. /\ marked \in Row /\ marked.open = row.open /\ marked.acked = row.acked
        /\ marked.fails = row.fails /\ marked.notified = row.notified
        /\ marked.prolonged = (row.prolonged \/ (long /\ row.open))
    BY <1>4 DEF Row
  <1>6. /\ done \in Row /\ done.open = row.open /\ done.acked = row.acked
        /\ done.fails = row.fails
        /\ done.notified = (row.notified \/ down)
        /\ done.prolonged = (row.prolonged \/ (long /\ row.open))
    <2> HIDE DEF marked
    <2> QED
      BY <1>5 DEF Row
  <1>7. /\ Told(row, h, n, Unanswered(t)) /\ Fits(t, row, h, n)
        /\ row.open \in BOOLEAN /\ row.notified \in BOOLEAN /\ row.prolonged \in BOOLEAN
    BY <1>1, <1>2, <1>4, Before DEF Row
  <1> HIDE DEF t, marked, done, next, row, h, n
  <1>8. /\ down => row.open /\ ~row.notified /\ h.downs > 0
        /\ long => row.open
    BY <1>1, <1>7 DEF Fits, Reminder
  <1>9. /\ h.downs > 0 => row.notified \/ down \/ "down" \in h.unacked
        /\ h.prolonged > 0 => row.prolonged \/ long \/ "prolonged" \in h.unacked
    BY <1>1, <1>7 DEF Told, Unanswered
  <1> HIDE DEF down, long
  <1>10. Told(done, h, n, {})
    BY <1>6, <1>7, <1>8, <1>9 DEF Told
  <1>11. Advances(Stage(row, h), Stage(done, h))
    BY <1>6, <1>7, <1>8 DEF Advances, Stage
  <1>12. Unanswered(next) = {} /\ Fits(next, done, h, n)
    BY <1>3, QuietFits DEF Evaluating
  <1>13. OutageOK(s)'
    BY <1>1, <1>2, <1>3, <1>10, <1>12, OwnStep DEF h, n
  <1> QED
    BY <1>1, <1>2, <1>11, <1>13 DEF row, h

LEMMA NotifyEffect ==
    ASSUME IInv, NEW r \in Runs, NEW s \in Sites,
           SendForbidden(r, s) \/ OperatorTold(r, s)
    PROVE  SiteEffect(s)
  <1>1. PICK t \in Task : /\ Goto(r, s, t) /\ t.issues = {}
                          /\ t.pc \in {"idle", "errSend", "operSend", "operLast"}
    <2>1. CASE End(r, s) \/ Abandon(r, s)
      BY <2>1, IdleType DEF End, Abandon, Idle
    <2>2. ASSUME NEW pc \in {"errSend", "operSend", "operLast"},
                 Goto(r, s, [Idle EXCEPT !.pc = pc])
          PROVE  \E t \in Task : /\ Goto(r, s, t) /\ t.issues = {}
                                 /\ t.pc \in {"idle", "errSend", "operSend", "operLast"}
      BY <2>2, NotifyNext
    <2> QED
      BY <2>1, <2>2, NotifyIs
  <1>2. Active(r, s) /\ tasks[r][s].pc # "alertAck"
    BY NotifyIs DEF Active
  <1>3. Sound(s)' => /\ Sound(s) /\ sites'[s] = sites[s] /\ streak'[s] = streak[s]
                     /\ heard'[s] = heard[s]
    BY NotifyIs DEF DeletePrivateSites, Sound, GoneRow, NewRow
  <1> QED
    BY <1>1, <1>2, <1>3, QuietStep DEF Evaluating

LEMMA SendFailsEffect ==
    ASSUME IInv, NEW r \in Runs, NEW s \in Sites, SendFails(r, s)
    PROVE  SiteEffect(s)
  <1> DEFINE report == [Idle EXCEPT !.pc = "errSend"]
  <1>1. PICK t \in {Idle, report} : Goto(r, s, t)
    BY DEF SendFails, ToErrorReport, End, Abandon
  <1>2. t \in Task /\ t.issues = {} /\ t.pc \in {"idle", "errSend"}
    <2>1. Idle \in Task /\ Idle.issues = {} /\ Idle.pc = "idle"
      BY IdleType DEF Idle
    <2>2. report \in Task /\ report.issues = {} /\ report.pc = "errSend"
      BY IdleType DEF Idle, Task, Awaiting
    <2> HIDE DEF report
    <2> QED
      BY <1>1, <2>1, <2>2
  <1>3. Active(r, s) /\ (Sound(s)' => Sound(s)) /\ UNCHANGED <<sites, streak>>
    BY DEF SendFails, Active, Sound
  <1>4. heard'[s] = IF tasks[r][s].pc = "alertAck"
                    THEN [heard[s] EXCEPT !.unacked = @ \cup Unanswered(tasks[r][s])]
                    ELSE heard[s]
    BY DEF SendFails, Lost, IInv, Types
  <1> QED
    BY <1>1, <1>2, <1>3, <1>4, QuietStep DEF Evaluating

LEMMA TaskStepEffect ==
    ASSUME IInv, NEW r \in Runs, NEW s \in Sites, TaskStep(r, s)
    PROVE  SiteEffect(s)
  <1>1. CASE RecoveryDone(r, s)
    <2>1. Active(r, s) /\ tasks[r][s] \in Task /\ tasks[r][s].pc = "recAck"
      BY <1>1 DEF RecoveryDone, Active, IInv, Types
    <2>2. streak'[s] \in 0..FailCap
      BY <1>1 DEF RecoveryDone, IInv, Types
    <2>3. Sound(s) => tasks[r][s].issues \subseteq Expiries
      BY <2>1, Before DEF Fits, Telling
    <2> QED
      BY <1>1, <2>1, <2>2, <2>3, CloseEffect DEF RecoveryDone
  <1>2. CASE DnsDone(r, s)
    <2> DEFINE next == NextStop(tasks[r][s])
    <2>1. /\ Active(r, s) /\ tasks[r][s] \in Task /\ tasks[r][s].pc = "dns"
          /\ Goto(r, s, next)
      BY <1>2 DEF DnsDone, Active, IInv, Types
    <2>2. /\ next \in Task /\ next.issues = tasks[r][s].issues
          /\ next.pc \in {"renewSend", "alertSend", "background"}
      BY <2>1, NextStopIs, NextStopType
    <2>3. Sound(s) => next.issues \subseteq Expiries
      BY <2>1, <2>2, Before DEF Fits, Telling
    <2>4. Sound(s)' => /\ Sound(s) /\ sites'[s] = sites[s] /\ streak'[s] = streak[s]
                       /\ heard'[s] = heard[s]
      BY <1>2 DEF DnsDone, Sound
    <2> HIDE DEF next
    <2> QED
      BY <2>1, <2>2, <2>3, <2>4, QuietStep DEF Evaluating
  <1>3. CASE BackgroundDone(r, s) \/ ErrorReported(r, s)
    <2>1. /\ Active(r, s) /\ Goto(r, s, Idle) /\ tasks[r][s].pc # "alertAck"
          /\ Idle \in Task /\ Idle.pc = "idle" /\ Idle.issues = {}
      BY <1>3, IdleType DEF BackgroundDone, ErrorReported, Active, End, Idle
    <2>2. Sound(s)' => /\ Sound(s) /\ sites'[s] = sites[s] /\ streak'[s] = streak[s]
                       /\ heard'[s] = heard[s]
      BY <1>3 DEF BackgroundDone, ErrorReported, Sound
    <2> QED
      BY <2>1, <2>2, QuietStep DEF Evaluating
  <1>4. CASE CheckRaises(r, s)
    <2> DEFINE next == [Idle EXCEPT !.pc = "errSend"]
    <2>1. /\ Active(r, s) /\ Goto(r, s, next) /\ tasks[r][s].pc # "alertAck"
          /\ next \in Task /\ next.pc = "errSend" /\ next.issues = {}
      BY <1>4, IdleType DEF CheckRaises, Active, ToErrorReport, Idle, Task, Awaiting
    <2>2. Sound(s)' => /\ Sound(s) /\ sites'[s] = sites[s] /\ streak'[s] = streak[s]
                       /\ heard'[s] = heard[s]
      BY <1>4 DEF CheckRaises, Sound
    <2> HIDE DEF next
    <2> QED
      BY <2>1, <2>2, QuietStep DEF Evaluating
  <1> QED
    BY <1>1, <1>2, <1>3, <1>4, AcquireEffect, CheckDoneEffect, DomainDoneEffect,
       ConfirmDoneEffect, DeliverEffect, RenewDoneEffect, AlertDoneEffect,
       NotifyEffect, SendFailsEffect DEF TaskStep

-----------------------------------------------------------------------------
(* Steps of one task, seen from the other sites, and of everyone else.     *)

\* Nothing that concerns site s changes, unless it ceases to be sound.
Untouched(s) ==
    Sound(s)' =>
      /\ Sound(s) /\ sites'[s] = sites[s] /\ heard'[s] = heard[s] /\ streak'[s] = streak[s]
      /\ \A r \in Runs : tasks'[r][s] = tasks[r][s]

LEMMA UntouchedEffect ==
    ASSUME IInv, NEW s \in Sites, Untouched(s)
    PROVE  SiteEffect(s)
  <1> SUFFICES ASSUME Sound(s)'
               PROVE  /\ OutageOK(s)'
                      /\ Advances(Stage(sites[s], heard[s]), Stage(sites[s], heard[s])')
    BY DEF SiteEffect, OutageOK, Untouched
  <1>1. /\ Sound(s) /\ sites'[s] = sites[s] /\ heard'[s] = heard[s] /\ streak'[s] = streak[s]
        /\ \A r \in Runs : tasks'[r][s] = tasks[r][s]
    BY DEF Untouched
  <1>2. Waiting(s)' = Waiting(s)
    BY <1>1 DEF Waiting
  <1>3. OutageOK(s)'
    BY <1>1, <1>2 DEF OutageOK, IInv, OutagesOK
  <1> QED
    BY <1>1, <1>3 DEF Advances

\* A step of a task leads it alone on, taints its own site at most, and frees
\* its run only when the run has no other task.
Leads(r, s) ==
    /\ Active(r, s)
    /\ \E t : /\ Goto(r, s, t)
             /\ \/ UNCHANGED jobs
                \/ /\ t.pc = "idle"
                   /\ \E j : /\ jobs' = [jobs EXCEPT ![r] = j]
                             /\ j = "free" => jobs[r] = "free" \/ AlsoActive(r, s) = {}
    /\ tainted' \in {tainted, tainted \cup {s}}

LEMMA LeadsStep ==
    ASSUME IInv, NEW r \in Runs, NEW s \in Sites, Leads(r, s)
    PROVE  FreeIsIdle' /\ Alone'
  <1>1. PICK t : /\ Goto(r, s, t)
                 /\ \/ UNCHANGED jobs
                    \/ /\ t.pc = "idle"
                       /\ \E j : /\ jobs' = [jobs EXCEPT ![r] = j]
                                 /\ j = "free" => jobs[r] = "free" \/ AlsoActive(r, s) = {}
    BY DEF Leads
  <1>2. /\ tasks'[r][s] = t
        /\ \A q \in Runs, p \in Sites : q # r \/ p # s => tasks'[q][p] = tasks[q][p]
    BY <1>1 DEF Goto, IInv, Types
  <1>3. Active(r, s) /\ jobs[r] # "free"
    BY DEF Leads, IInv, FreeIsIdle
  <1>4. FreeIsIdle'
    <2> SUFFICES ASSUME NEW q \in Runs, NEW p \in Sites, jobs'[q] = "free"
                 PROVE  tasks'[q][p].pc = "idle"
      BY DEF FreeIsIdle, Active
    <2>1. CASE UNCHANGED jobs
      <3>1. jobs[q] = "free" /\ q # r
        BY <1>3, <2>1
      <3> QED
        BY <1>2, <3>1 DEF IInv, FreeIsIdle, Active
    <2>2. ASSUME t.pc = "idle", NEW j, jobs' = [jobs EXCEPT ![r] = j],
                 j = "free" => jobs[r] = "free" \/ AlsoActive(r, s) = {}
          PROVE  tasks'[q][p].pc = "idle"
      <3>1. jobs \in [Runs -> {"free", "gathering", "abandoned"}]
        BY DEF IInv, Types
      <3>2. jobs'[r] = j /\ (q # r => jobs'[q] = jobs[q])
        BY <2>2, <3>1
      <3>3. CASE q # r
        BY <1>2, <3>2, <3>3 DEF IInv, FreeIsIdle, Active
      <3>4. CASE q = r
        BY <1>2, <1>3, <2>2, <3>2, <3>4 DEF AlsoActive
      <3> QED
        BY <3>3, <3>4
    <2>3. CASE t.pc = "idle" /\ \E j : /\ jobs' = [jobs EXCEPT ![r] = j]
                                       /\ j = "free" => jobs[r] = "free" \/ AlsoActive(r, s) = {}
      <3>1. PICK j : /\ jobs' = [jobs EXCEPT ![r] = j]
                     /\ j = "free" => jobs[r] = "free" \/ AlsoActive(r, s) = {}
        BY <2>3
      <3> QED
        BY <2>2, <2>3, <3>1
    <2> QED
      BY <1>1, <2>1, <2>3
  <1>5. Alone'
    BY <1>2, <1>3 DEF Leads, IInv, Alone, Active
  <1> QED
    BY <1>4, <1>5

\* The database and the history of the other sites are left alone.
Elsewhere(s) ==
    \A q \in Sites \ {s} :
        sites'[q] = sites[q] /\ heard'[q] = heard[q] /\ streak'[q] = streak[q]

LEMMA CommitsElsewhere ==
    ASSUME Types, NEW r, NEW s \in Sites, NEW first, NEW second, NEW next,
           Commits(r, s, first, second, next)
    PROVE  /\ \E t : Goto(r, s, t)
           /\ tainted' \in {tainted, tainted \cup {s}}
           /\ \A q \in Sites \ {s} : sites'[q] = sites[q]
  BY DEF Commits, Put, Types, ToErrorReport

LEMMA DecideElsewhere ==
    ASSUME Types, NEW r \in Runs, NEW s \in Sites, NEW t, NEW transient,
           Decide(r, s, t, transient)
    PROVE  /\ \E u : Goto(r, s, u)
           /\ tainted' \in {tainted, tainted \cup {s}}
           /\ Elsewhere(s)
  <1>1. CASE Failed(r, s, t)
    <2>1. PICK first, second, next : Commits(r, s, first, second, next)
      BY <1>1 DEF Failed
    <2>2. \A q \in Sites \ {s} : heard'[q] = heard[q] /\ streak'[q] = streak[q]
      BY <1>1 DEF Failed, Types
    <2> QED
      BY <2>1, <2>2, CommitsElsewhere DEF Elsewhere
  <1>2. CASE Announce(r, s, t)
    BY <1>2 DEF Announce, Elsewhere, Types
  <1>3. CASE CloseOutage(r, s, t) /\ streak' = [streak EXCEPT ![s] = 0]
    <2>1. PICK first, second, next : Commits(r, s, first, second, next)
      BY <1>3 DEF CloseOutage
    <2>2. \A q \in Sites \ {s} : heard'[q] = heard[q] /\ streak'[q] = streak[q]
      BY <1>3 DEF CloseOutage, Forget, Types
    <2> QED
      BY <2>1, <2>2, CommitsElsewhere DEF Elsewhere
  <1>4. CASE StayUp(r, s, t) /\ streak' = [streak EXCEPT ![s] = 0]
    <2>1. PICK first, second, next : Commits(r, s, first, second, next)
      BY <1>4 DEF StayUp
    <2>2. \A q \in Sites \ {s} : heard'[q] = heard[q] /\ streak'[q] = streak[q]
      BY <1>4 DEF StayUp, Forget, Types
    <2> QED
      BY <2>1, <2>2, CommitsElsewhere DEF Elsewhere
  <1> QED
    BY <1>1, <1>2, <1>3, <1>4 DEF Decide

LEMMA EvaluateElsewhere ==
    ASSUME Types, NEW r \in Runs, NEW s \in Sites, NEW t, Evaluate(r, s, t)
    PROVE  /\ \E u : Goto(r, s, u)
           /\ tainted' \in {tainted, tainted \cup {s}}
           /\ Elsewhere(s)
  BY DecideElsewhere DEF Evaluate, Elsewhere

LEMMA TaskStepElsewhere ==
    ASSUME IInv, NEW r \in Runs, NEW s \in Sites, TaskStep(r, s)
    PROVE  /\ Leads(r, s) /\ \A q \in Sites \ {s} : Untouched(q)
           /\ Elsewhere(s) \/ (DeletePrivateSites /\ UNCHANGED tainted)
  <1>0. Types
    BY DEF IInv
  <1>1. \A t, q : q \in Sites \ {s} /\ Goto(r, s, t) =>
               \A p \in Runs : tasks'[p][q] = tasks[p][q]
    BY <1>0 DEF Goto, Types
  <1>2. ASSUME NEW t, Goto(r, s, t), Elsewhere(s), Active(r, s), UNCHANGED jobs,
               tainted' \in {tainted, tainted \cup {s}}
        PROVE  Leads(r, s) /\ Elsewhere(s) /\ \A q \in Sites \ {s} : Untouched(q)
    BY <1>1, <1>2 DEF Leads, Untouched, Elsewhere, Sound
  <1>3. CASE Acquire(r, s)
    BY <1>2, <1>3 DEF Acquire, Elsewhere, Active
  <1>4. CASE CheckDone(r, s)
    <2>1. PICK t : \/ /\ Goto(r, s, [t EXCEPT !.pc = "domain"])
                      /\ UNCHANGED <<sites, heard, streak, tainted>>
                   \/ Evaluate(r, s, t)
      BY <1>0, <1>4, CheckDoneRead
    <2>2. Active(r, s) /\ UNCHANGED jobs
      BY <1>4 DEF CheckDone, Active
    <2> QED
      BY <1>0, <1>2, <2>1, <2>2, EvaluateElsewhere DEF Elsewhere
  <1>5. CASE DomainDone(r, s)
    BY <1>0, <1>2, <1>5, EvaluateElsewhere DEF DomainDone, Active
  <1>6. CASE ConfirmDone(r, s)
    BY <1>0, <1>2, <1>6, DecideElsewhere DEF ConfirmDone, Active
  <1>7. CASE Deliver(r, s)
    <2>1. Elsewhere(s)
      BY <1>0, <1>7 DEF Deliver, Elsewhere, Types
    <2> QED
      BY <1>2, <1>7, <2>1 DEF Deliver, Active
  <1>8. CASE RecoveryDone(r, s)
    <2>1. PICK first, second, next : Commits(r, s, first, second, next)
      BY <1>8 DEF RecoveryDone, CloseOutage
    <2>2. \A q \in Sites \ {s} : heard'[q] = heard[q] /\ streak'[q] = streak[q]
      BY <1>0, <1>8 DEF RecoveryDone, CloseOutage, Forget, Types
    <2>3. Active(r, s) /\ UNCHANGED jobs
      BY <1>8 DEF RecoveryDone, Active
    <2> QED
      BY <1>0, <1>2, <2>1, <2>2, <2>3, CommitsElsewhere DEF Elsewhere
  <1>9. CASE DnsDone(r, s) \/ CheckRaises(r, s)
    BY <1>2, <1>9 DEF DnsDone, CheckRaises, ToErrorReport, Elsewhere, Active
  <1>10. CASE RenewDone(r, s)
    <2>1. Elsewhere(s)
      BY <1>0, <1>10 DEF RenewDone, Elsewhere, Put, Types
    <2> QED
      BY <1>2, <1>10, <2>1 DEF RenewDone, Active
  <1>11. CASE AlertDone(r, s)
    <2>1. PICK first, second, next : Commits(r, s, first, second, next)
      BY <1>11 DEF AlertDone
    <2>2. Active(r, s) /\ UNCHANGED <<jobs, heard, streak>>
      BY <1>11 DEF AlertDone, Active
    <2> QED
      BY <1>0, <1>2, <2>1, <2>2, CommitsElsewhere DEF Elsewhere
  <1>12. ASSUME End(r, s) \/ Abandon(r, s), Active(r, s), UNCHANGED tainted,
                \A q \in Sites \ {s} : Sound(q)' =>
                   sites'[q] = sites[q] /\ heard'[q] = heard[q] /\ streak'[q] = streak[q]
         PROVE  Leads(r, s) /\ \A q \in Sites \ {s} : Untouched(q)
    <2>1. Goto(r, s, Idle) /\ Idle.pc = "idle"
      BY <1>12 DEF End, Abandon, Idle
    <2>2. \E j : /\ jobs' = [jobs EXCEPT ![r] = j]
                 /\ j = "free" => jobs[r] = "free" \/ AlsoActive(r, s) = {}
      BY <1>12 DEF End, Abandon
    <2> QED
      BY <1>1, <1>12, <2>1, <2>2 DEF Leads, Untouched, Sound
  <1>13. CASE BackgroundDone(r, s) \/ ErrorReported(r, s)
    BY <1>12, <1>13 DEF BackgroundDone, ErrorReported, Active, Elsewhere
  <1>14. CASE SendForbidden(r, s) \/ OperatorTold(r, s)
    <2>1. \A q \in Sites \ {s} : Sound(q)' =>
             sites'[q] = sites[q] /\ heard'[q] = heard[q] /\ streak'[q] = streak[q]
      BY <1>14, NotifyIs DEF DeletePrivateSites, Sound, GoneRow, NewRow
    <2>2. /\ Active(r, s) /\ UNCHANGED tainted
          /\ Elsewhere(s) \/ DeletePrivateSites
      BY <1>14, NotifyIs DEF Active, Elsewhere
    <2>3. CASE End(r, s) \/ Abandon(r, s)
      BY <1>12, <2>1, <2>2, <2>3
    <2>4. ASSUME NEW t, Goto(r, s, t), UNCHANGED jobs
          PROVE  Leads(r, s) /\ \A q \in Sites \ {s} : Untouched(q)
      BY <1>1, <2>1, <2>2, <2>4 DEF Leads, Untouched, Sound
    <2> QED
      BY <1>14, <2>2, <2>3, <2>4, NotifyIs
  <1>15. CASE SendFails(r, s)
    <2>1. Elsewhere(s)
      BY <1>0, <1>15 DEF SendFails, Lost, Elsewhere, Types
    <2>2. Active(r, s) /\ UNCHANGED tainted
      BY <1>15 DEF SendFails, Active
    <2>3. \/ ToErrorReport(r, s) /\ UNCHANGED jobs
          \/ End(r, s) \/ Abandon(r, s)
      BY <1>15 DEF SendFails
    <2> QED
      BY <1>2, <1>12, <2>1, <2>2, <2>3 DEF ToErrorReport, Elsewhere
  <1> QED
    BY <1>3, <1>4, <1>5, <1>6, <1>7, <1>8, <1>9, <1>10, <1>11, <1>13, <1>14, <1>15
    DEF TaskStep

\* A step leaves every site in order.
AllSites ==
    FreeIsIdle' /\ Alone' /\ \A s \in Sites : SiteEffect(s)

LEMMA TaskStepSites ==
    ASSUME IInv, NEW r \in Runs, NEW s \in Sites, TaskStep(r, s)
    PROVE  AllSites /\ \A q \in Sites \ {s} : Untouched(q)
  BY TaskStepEffect, TaskStepElsewhere, LeadsStep, UntouchedEffect DEF AllSites

LEMMA StartRunSites ==
    ASSUME IInv, NEW r \in Runs, StartRun(r)
    PROVE  AllSites
  <1> DEFINE due == {s \in Sites : sites[s].exists /\ ~sites[s].excluded}
             first(s) == [Idle EXCEPT !.pc = "queued", !.inc = sites[s].started]
  <1>1. /\ jobs[r] = "free" /\ \A s \in Sites : tasks[r][s].pc = "idle"
        /\ jobs' = [jobs EXCEPT ![r] = "gathering"]
    BY DEF StartRun, IInv, FreeIsIdle, Active
  <1>2. \A s \in Sites :
          /\ tasks'[r][s] = IF s \in due THEN first(s) ELSE Idle
          /\ \A q \in Runs \ {r} : tasks'[q][s] = tasks[q][s]
    BY DEF StartRun, IInv, Types
  <1>3. UNCHANGED <<sites, heard, streak>>
    BY DEF StartRun
  <1>4. \A s \in Sites : s \notin tainted' =>
          s \notin tainted /\ (s \in due => \A q \in Runs \ {r} : tasks[q][s].pc = "idle")
    BY DEF StartRun
  <1>5. Idle.pc = "idle" /\ \A s \in Sites : first(s).pc = "queued" /\ first(s).issues = {}
                                            /\ first(s).inc = sites[s].started
    BY DEF Idle
  <1> HIDE DEF due, first
  <1>6. FreeIsIdle'
    BY <1>1, <1>2 DEF IInv, Types, FreeIsIdle, Active
  <1>7. Alone'
    <2> SUFFICES ASSUME NEW s \in Sites, s \notin tainted', NEW p \in Runs, NEW q \in Runs,
                        tasks'[p][s].pc # "idle", tasks'[q][s].pc # "idle"
                 PROVE  p = q
      BY DEF Alone, Active
    <2>1. CASE s \in due
      BY <1>2, <1>4, <2>1
    <2>2. CASE s \notin due
      BY <1>2, <1>4, <1>5, <2>2 DEF IInv, Alone, Active
    <2> QED
      BY <2>1, <2>2
  <1>8. ASSUME NEW s \in Sites PROVE SiteEffect(s)
    <2> SUFFICES ASSUME Sound(s)'
                 PROVE  /\ OutageOK(s)' /\ Sound(s)
                        /\ Advances(Stage(sites[s], heard[s]), Stage(sites[s], heard[s])')
      BY DEF SiteEffect, OutageOK
    <2>1. Sound(s) /\ OutageOK(s)
      BY <1>3, <1>4 DEF Sound, IInv, OutagesOK
    <2>2. Unanswered(tasks'[r][s]) = {} /\ Unanswered(tasks[r][s]) = {}
      BY <1>1, <1>2, <1>5 DEF Unanswered
    <2>3. \A q \in Runs : Unanswered(tasks'[q][s]) = Unanswered(tasks[q][s])
      BY <1>2, <2>2
    <2>4. Waiting(s)' = Waiting(s)
      BY <2>3 DEF Waiting
    <2>5. Fits(tasks'[r][s], sites[s], heard[s], streak[s])
      BY <1>2, <1>5, ExpiriesApart DEF Fits, Telling, Evaluating, Idle
    <2>6. \A q \in Runs : Fits(tasks'[q][s], sites[s], heard[s], streak[s])
      BY <1>2, <2>1, <2>5 DEF OutageOK
    <2>7. OutageOK(s)'
      BY <1>3, <2>1, <2>4, <2>6 DEF OutageOK
    <2> QED
      BY <1>3, <2>1, <2>7 DEF Advances
  <1> QED
    BY <1>6, <1>7, <1>8 DEF AllSites

\* A step of the owner or of the site that changes no task and no run.
LEMMA NoTaskSites ==
    ASSUME IInv, UNCHANGED <<jobs, tasks, tainted>>, \A s \in Sites : SiteEffect(s)
    PROVE  AllSites
  BY DEF AllSites, IInv, FreeIsIdle, Alone, Active

LEMMA AcknowledgeSites ==
    ASSUME IInv, NEW s \in Sites, Acknowledge(s)
    PROVE  AllSites
  <1>1. UNCHANGED <<jobs, tasks, tainted, heard, streak>>
        /\ sites' = [sites EXCEPT ![s].acked = TRUE] /\ sites[s].open
    BY DEF Acknowledge
  <1>2. \A q \in Sites \ {s} : SiteEffect(q)
    BY <1>1, UntouchedEffect DEF Untouched, Sound, IInv, Types
  <1>3. SiteEffect(s)
    <2> DEFINE row == [sites[s] EXCEPT !.acked = TRUE]
    <2>1. sites[s] \in Row /\ sites'[s] = row
      BY <1>1 DEF IInv, Types
    <2>2. /\ row.started = sites[s].started /\ row.open = sites[s].open
          /\ row.notified = sites[s].notified /\ row.prolonged = sites[s].prolonged
          /\ row.fails = sites[s].fails /\ row.acked /\ row.exists = sites[s].exists
      BY <2>1 DEF Row
    <2> HIDE DEF row
    <2> SUFFICES ASSUME Sound(s)
                 PROVE  /\ OutageOK(s)'
                        /\ Advances(Stage(sites[s], heard[s]), Stage(sites[s], heard[s])')
      BY <1>1, <2>1, <2>2 DEF SiteEffect, OutageOK, Sound
    <2>3. OutageOK(s)
      BY DEF IInv, OutagesOK
    <2>4. Told(row, heard[s], streak[s], Waiting(s))
      BY <1>1, <2>2, <2>3 DEF OutageOK, Told
    <2>5. \A r \in Runs : Fits(tasks[r][s], row, heard[s], streak[s])
      BY <2>2, <2>3 DEF OutageOK, Fits
    <2>6. Waiting(s)' = Waiting(s)
      BY <1>1 DEF Waiting
    <2>7. OutageOK(s)'
      BY <1>1, <2>1, <2>4, <2>5, <2>6 DEF OutageOK
    <2>8. Stage(row, heard[s]) = Stage(sites[s], heard[s])
      BY <2>2 DEF Stage
    <2> QED
      BY <1>1, <2>1, <2>7, <2>8 DEF Advances
  <1> QED
    BY <1>1, <1>2, <1>3, NoTaskSites

LEMMA RestartSites ==
    ASSUME IInv, Restart
    PROVE  AllSites
  <1>1. /\ \A r \in Runs, s \in Sites : tasks'[r][s] = Idle
        /\ UNCHANGED <<sites, streak, tainted>>
    BY DEF Restart
  <1>2. Idle.pc = "idle" /\ Idle.issues = {} /\ Idle \in Task
    BY IdleType DEF Idle
  <1>3. FreeIsIdle' /\ Alone'
    BY <1>1, <1>2 DEF FreeIsIdle, Alone, Active
  <1>4. ASSUME NEW s \in Sites PROVE SiteEffect(s)
    <2> DEFINE after == [heard[s] EXCEPT !.unacked = @ \cup Waiting(s)]
    <2> SUFFICES ASSUME Sound(s)
                 PROVE  /\ OutageOK(s)'
                        /\ Advances(Stage(sites[s], heard[s]), Stage(sites[s], heard[s])')
      BY <1>1 DEF SiteEffect, OutageOK, Sound
    <2>1. heard'[s] = after
      BY DEF Restart, Waiting
    <2>2. heard[s] \in Notice /\ sites[s] \in Row
      BY DEF IInv, Types
    <2>3. /\ after.downs = heard[s].downs /\ after.prolonged = heard[s].prolonged
          /\ after.late = heard[s].late /\ after.unacked = heard[s].unacked \cup Waiting(s)
      BY <2>2 DEF Notice
    <2>4. OutageOK(s)
      BY DEF IInv, OutagesOK
    <2>5. ~sites[s].open => Waiting(s) = {}
      <3>1. ~sites[s].open => \A r \in Runs : Unanswered(tasks[r][s]) = {}
        BY <2>4 DEF OutageOK, Fits, Unanswered, Reminder
      <3> QED
        BY <3>1 DEF Waiting
    <2>6. Waiting(s) = {} => after = heard[s]
      BY <2>2 DEF Notice
    <2>7. \A r \in Runs : Unanswered(tasks'[r][s]) = {}
      BY <1>1, <1>2 DEF Unanswered
    <2>8. Waiting(s)' = {}
      BY <2>7 DEF Waiting
    <2> HIDE DEF after
    <2>9. Told(sites[s], after, streak[s], {})
      BY <2>3, <2>4, <2>5, <2>6 DEF OutageOK, Told
    <2>10. \A r \in Runs : Fits(tasks'[r][s], sites[s], after, streak[s])
      BY <1>1, <1>2, QuietFits DEF Evaluating
    <2>11. OutageOK(s)'
      BY <1>1, <2>1, <2>8, <2>9, <2>10 DEF OutageOK
    <2>12. Stage(sites[s], after) = Stage(sites[s], heard[s])
      BY <2>3 DEF Stage
    <2> QED
      BY <1>1, <2>1, <2>11, <2>12 DEF Advances
  <1> QED
    BY <1>3, <1>4 DEF AllSites

LEMMA UserStepSites ==
    ASSUME IInv, NEW s \in Sites, UserStep(s)
    PROVE  AllSites
  <1>1. CASE Acknowledge(s)
    BY <1>1, AcknowledgeSites
  <1>2. CASE Exclude(s)
    <2> DEFINE row == [sites[s] EXCEPT !.excluded = ~@]
    <2>1. /\ UNCHANGED <<jobs, tasks, tainted, heard, streak>>
          /\ sites' = [sites EXCEPT ![s] = row] /\ sites[s] \in Row
      BY <1>2 DEF Exclude, IInv, Types
    <2>2. /\ row.started = sites[s].started /\ row.open = sites[s].open
          /\ row.notified = sites[s].notified /\ row.prolonged = sites[s].prolonged
          /\ row.fails = sites[s].fails /\ row.acked = sites[s].acked
          /\ row.exists = sites[s].exists
      BY <2>1 DEF Row
    <2> HIDE DEF row
    <2>3. sites'[s] = row /\ \A q \in Sites \ {s} : sites'[q] = sites[q]
      BY <2>1 DEF IInv, Types
    <2>4. \A q \in Sites \ {s} : SiteEffect(q)
      BY <2>1, <2>3, UntouchedEffect DEF Untouched, Sound
    <2>5. SiteEffect(s)
      <3> SUFFICES ASSUME Sound(s)
                   PROVE  /\ OutageOK(s)'
                          /\ Advances(Stage(sites[s], heard[s]), Stage(sites[s], heard[s])')
        BY <2>1, <2>2, <2>3 DEF SiteEffect, OutageOK, Sound
      <3>1. OutageOK(s)
        BY DEF IInv, OutagesOK
      <3>2. Waiting(s)' = Waiting(s)
        BY <2>1 DEF Waiting
      <3>3. Told(row, heard[s], streak[s], Waiting(s))
        BY <2>2, <3>1 DEF OutageOK, Told
      <3>4. \A r \in Runs : Fits(tasks[r][s], row, heard[s], streak[s])
        BY <2>2, <3>1 DEF OutageOK, Fits
      <3>5. OutageOK(s)'
        BY <2>1, <2>3, <3>2, <3>3, <3>4 DEF OutageOK
      <3> QED
        BY <2>1, <2>2, <2>3, <3>5 DEF Advances, Stage
    <2> QED
      BY <2>1, <2>4, <2>5, NoTaskSites
  <1>3. CASE DeleteSite(s)
    <2>1. UNCHANGED <<jobs, tasks, tainted>>
      BY <1>3 DEF DeleteSite
    <2>2. ~sites'[s].exists /\ \A q \in Sites \ {s} :
             sites'[q] = sites[q] /\ heard'[q] = heard[q] /\ streak'[q] = streak[q]
      BY <1>3 DEF DeleteSite, IInv, Types, GoneRow, NewRow
    <2>3. \A q \in Sites : Untouched(q)
      BY <2>1, <2>2 DEF Untouched, Sound
    <2> QED
      BY <2>1, <2>3, NoTaskSites, UntouchedEffect
  <1>4. CASE \E choice \in PrefChoices : SetPreferences(s, choice)
    <2>1. UNCHANGED <<sites, jobs, tasks, heard, streak, tainted>>
      BY <1>4 DEF SetPreferences
    <2>2. \A q \in Sites : Untouched(q)
      BY <2>1 DEF Untouched, Sound
    <2> QED
      BY <2>1, <2>2, NoTaskSites, UntouchedEffect
  <1> QED
    BY <1>1, <1>2, <1>3, <1>4 DEF UserStep

LEMMA NextSites ==
    ASSUME IInv, [Next]_vars
    PROVE  AllSites
  <1>1. ASSUME UNCHANGED <<sites, jobs, tasks, heard, streak, tainted>> PROVE AllSites
    <2>1. \A q \in Sites : Untouched(q)
      BY <1>1 DEF Untouched, Sound
    <2> QED
      BY <1>1, <2>1, NoTaskSites, UntouchedEffect
  <1>2. ASSUME NEW r \in Runs, NEW s \in Sites, TaskStep(r, s) PROVE AllSites
    BY <1>2, TaskStepSites
  <1>3. ASSUME NEW s \in Sites, SiteToggles(s) PROVE AllSites
    BY <1>1, <1>3 DEF SiteToggles
  <1>4. CASE BlockBot \/ UNCHANGED vars
    BY <1>1, <1>4 DEF BlockBot, vars
  <1> QED
    BY <1>2, <1>3, <1>4, StartRunSites, UserStepSites, RestartSites DEF Next

LEMMA Inductive == Spec => []IInv
  <1>1. Init => IInv
    <2> SUFFICES ASSUME Init PROVE IInv
      OBVIOUS
    <2>1. Types
      BY InitType
    <2>2. IncidentViewsAgree
      BY DEF Init, IncidentViewsAgree, NewRow
    <2>3. \A r \in Runs, s \in Sites : tasks[r][s] = Idle
      BY DEF Init
    <2>4. Idle.pc = "idle" /\ Idle.issues = {} /\ Idle \in Task
      BY IdleType DEF Idle
    <2>5. FreeIsIdle /\ Alone
      BY <2>3, <2>4 DEF FreeIsIdle, Alone, Active
    <2>6. ASSUME NEW s \in Sites PROVE OutageOK(s)
      <3>1. Waiting(s) = {}
        BY <2>3, <2>4 DEF Waiting, Unanswered
      <3>2. sites[s] = NewRow /\ heard[s] = Unheard /\ streak[s] = 0
        BY DEF Init
      <3>3. Told(sites[s], heard[s], streak[s], {})
        BY <3>2 DEF Told, NewRow, Unheard
      <3>4. \A r \in Runs : Fits(tasks[r][s], sites[s], heard[s], streak[s])
        BY <2>3, <2>4, QuietFits DEF Evaluating
      <3> QED
        BY <3>1, <3>3, <3>4 DEF OutageOK
    <2> QED
      BY <2>1, <2>2, <2>5, <2>6 DEF IInv, OutagesOK
  <1>2. Types /\ IncidentViewsAgree /\ Types' /\ IncidentViewsAgree' /\ IInv /\ [Next]_vars => IInv'
    BY NextSites DEF AllSites, SiteEffect, IInv, OutagesOK
  <1> QED
    BY <1>1, <1>2, TypesKept, ViewsAgree, PTL DEF Spec

\* No DOWN alert without Threshold failed evaluations in a row before it: the
\* counter the task read is never ahead of the failures, whatever awaits lie
\* between reading it and sending.
THEOREM AlertsEarned == Spec => []DownAfterThreshold
  <1>1. IInv => DownAfterThreshold
    BY DEF IInv, OutagesOK, OutageOK, Fits, DownAfterThreshold
  <1> QED
    BY <1>1, Inductive, PTL

\* A recovery message is only sent about an outage the owner heard of.
THEOREM RecoveryTold == Spec => []RecoveryOnlyAfterDown
  <1>1. IInv => RecoveryOnlyAfterDown
    BY DEF IInv, OutagesOK, OutageOK, Fits, Told, RecoveryOnlyAfterDown
  <1> QED
    BY <1>1, Inductive, PTL

\* The notification flags deduplicate: what process_site() sends about one
\* incident is repeated only after an answer was lost, and an accepted incident
\* gets at most the one reminder that was already under way.
THEOREM AlertsOnce == Spec => []OneAlertPerIncident
  <1>1. IInv => OneAlertPerIncident
    BY DEF IInv, OutagesOK, OutageOK, Told, OneAlertPerIncident
  <1> QED
    BY <1>1, Inductive, PTL

-----------------------------------------------------------------------------
(* The monitor implements the outage lifecycle.                            *)

LEMMA PhaseIs ==
    ASSUME NEW s \in Sites
    PROVE  /\ Phase[s] = IF Sound(s) THEN Stage(sites[s], heard[s]) ELSE "void"
           /\ Phase[s]' = IF Sound(s)' THEN Stage(sites[s], heard[s])' ELSE "void"
  BY DEF Phase, Stage

\* The step changes no stage, but may end what the lifecycle covers.
Settled(s) ==
    Sound(s)' => Sound(s) /\ Stage(sites[s], heard[s])' = Stage(sites[s], heard[s])

LEMMA SettledStep ==
    ASSUME \A s \in Sites : Settled(s)
    PROVE  Lifecycle!Next
  <1> DEFINE some == {s \in Sites : Phase'[s] = "void"}
  <1>1. \A s \in Sites : Phase'[s] \in {"void", Phase[s]}
    BY PhaseIs DEF Settled
  <1>2. Phase' = [s \in Sites |-> Phase'[s]]
    BY DEF Phase
  <1>3. \A s \in Sites : Phase'[s] = IF s \in some THEN "void" ELSE Phase[s]
    BY <1>1
  <1>4. Phase' = [s \in Sites |-> IF s \in some THEN "void" ELSE Phase[s]]
    BY <1>2, <1>3
  <1>5. some \in SUBSET Sites
    OBVIOUS
  <1> QED
    BY <1>4, <1>5 DEF Lifecycle!Next, Lifecycle!Void

LEMMA UntouchedSettled ==
    ASSUME NEW s \in Sites, Untouched(s)
    PROVE  Settled(s)
  BY DEF Settled, Untouched

\* One site advances or is given up; the others stay as they are.
LEMMA OneAdvances ==
    ASSUME NEW s \in Sites, SiteEffect(s),
           \A q \in Sites \ {s} : Phase'[q] = Phase[q]
    PROVE  Lifecycle!Next \/ UNCHANGED Phase
  <1>1. Phase' = [q \in Sites |-> Phase'[q]] /\ Phase = [q \in Sites |-> Phase[q]]
    BY DEF Phase
  <1>2. Phase' = [Phase EXCEPT ![s] = Phase'[s]]
    BY <1>1
  <1>3. Phase[s] \in {"void", "none", "open", "told", "alerted"}
    BY DEF Phase
  <1>4. \/ Phase'[s] = "void" \/ Phase'[s] = Phase[s]
        \/ Phase[s] = "none" /\ Phase'[s] = "open"
        \/ Phase[s] = "open" /\ Phase'[s] = "told"
        \/ Phase[s] = "told" /\ Phase'[s] = "alerted"
        \/ Phase[s] \in {"open", "told", "alerted"} /\ Phase'[s] = "none"
    <2>1. CASE ~Sound(s)'
      BY <2>1, PhaseIs
    <2>2. CASE Sound(s)'
      <3>1. /\ Phase[s] = Stage(sites[s], heard[s]) /\ Phase'[s] = Stage(sites[s], heard[s])'
            /\ Advances(Phase[s], Phase'[s])
        BY <2>2, PhaseIs DEF SiteEffect
      <3>2. Phase[s] # "void"
        BY <3>1 DEF Stage
      <3> QED
        BY <1>3, <3>1, <3>2 DEF Advances
    <2> QED
      BY <2>1, <2>2
  <1>5. CASE Phase'[s] = "void"
    <2>1. Phase' = [q \in Sites |-> IF q \in {s} THEN "void" ELSE Phase[q]]
      BY <1>1, <1>2, <1>5
    <2> QED
      BY <2>1 DEF Lifecycle!Next, Lifecycle!Void
  <1>6. CASE Phase'[s] = Phase[s]
    BY <1>1, <1>6
  <1>7. CASE Phase[s] = "none" /\ Phase'[s] = "open"
    BY <1>2, <1>7 DEF Lifecycle!Next, Lifecycle!Open
  <1>8. CASE Phase[s] = "open" /\ Phase'[s] = "told"
    BY <1>2, <1>8 DEF Lifecycle!Next, Lifecycle!Tell
  <1>9. CASE Phase[s] = "told" /\ Phase'[s] = "alerted"
    BY <1>2, <1>9 DEF Lifecycle!Next, Lifecycle!Record
  <1>10. CASE Phase[s] \in {"open", "told", "alerted"} /\ Phase'[s] = "none"
    BY <1>2, <1>10 DEF Lifecycle!Next, Lifecycle!Close
  <1> QED
    BY <1>4, <1>5, <1>6, <1>7, <1>8, <1>9, <1>10

LEMMA TaskStepAdvances ==
    ASSUME IInv, NEW r \in Runs, NEW s \in Sites, TaskStep(r, s)
    PROVE  Lifecycle!Next \/ UNCHANGED Phase
  <1>1. CASE Elsewhere(s)
    <2>1. tainted' \in {tainted, tainted \cup {s}}
      BY TaskStepElsewhere DEF Leads
    <2>2. \A q \in Sites \ {s} : Phase'[q] = Phase[q]
      BY <1>1, <2>1, PhaseIs DEF Elsewhere, Sound
    <2> QED
      BY <2>2, TaskStepEffect, OneAdvances
  <1>2. CASE DeletePrivateSites /\ UNCHANGED tainted
    <2>1. Settled(s)
      BY <1>2 DEF DeletePrivateSites, Settled, Sound, GoneRow, NewRow
    <2>2. \A q \in Sites \ {s} : Settled(q)
      BY TaskStepElsewhere, UntouchedSettled
    <2> QED
      BY <2>1, <2>2, SettledStep
  <1> QED
    BY <1>1, <1>2, TaskStepElsewhere

LEMMA UserStepAdvances ==
    ASSUME IInv, NEW s \in Sites, UserStep(s)
    PROVE  Lifecycle!Next
  <1>0. Types
    BY DEF IInv
  <1>1. CASE Acknowledge(s) \/ Exclude(s)
    <2>1. /\ [sites[s] EXCEPT !.acked = TRUE].open = sites[s].open
          /\ [sites[s] EXCEPT !.acked = TRUE].notified = sites[s].notified
          /\ [sites[s] EXCEPT !.acked = TRUE].exists = sites[s].exists
          /\ [sites[s] EXCEPT !.excluded = ~@].open = sites[s].open
          /\ [sites[s] EXCEPT !.excluded = ~@].notified = sites[s].notified
          /\ [sites[s] EXCEPT !.excluded = ~@].exists = sites[s].exists
      BY <1>0 DEF Types, Row
    <2>2. \A q \in Sites : /\ sites'[q].open = sites[q].open
                           /\ sites'[q].notified = sites[q].notified
                           /\ sites'[q].exists = sites[q].exists
      BY <1>0, <1>1, <2>1 DEF Acknowledge, Exclude, Types
    <2>3. \A q \in Sites : Settled(q)
      BY <1>1, <2>2 DEF Settled, Stage, Sound, Acknowledge, Exclude
    <2> QED
      BY <2>3, SettledStep
  <1>2. CASE DeleteSite(s)
    <2>1. ~sites'[s].exists /\ \A q \in Sites \ {s} :
             sites'[q] = sites[q] /\ heard'[q] = heard[q]
      BY <1>0, <1>2 DEF DeleteSite, Types, GoneRow, NewRow
    <2>2. \A q \in Sites : Settled(q)
      BY <1>2, <2>1 DEF Settled, Sound, DeleteSite
    <2> QED
      BY <2>2, SettledStep
  <1>3. CASE \E choice \in PrefChoices : SetPreferences(s, choice)
    <2>1. \A q \in Sites : Settled(q)
      BY <1>3 DEF Settled, Sound, SetPreferences
    <2> QED
      BY <2>1, SettledStep
  <1> QED
    BY <1>1, <1>2, <1>3 DEF UserStep

\* process_site(), the owner and the machine together implement the outage
\* lifecycle of module Incident: an outage is told before it is recorded as told
\* and ends before the next one begins, and no step skips a stage.
THEOREM LifecycleImplemented == Spec => ImplementsLifecycle
  <1>1. Init => Lifecycle!Init
    <2> SUFFICES ASSUME Init PROVE \A s \in Sites : Phase[s] = "none"
      BY DEF Lifecycle!Init, Phase
    <2>1. \A s \in Sites : Sound(s) /\ Stage(sites[s], heard[s]) = "none"
      BY DEF Init, Sound, Stage, NewRow
    <2> QED
      BY <2>1, PhaseIs
  <1>2. IInv /\ [Next]_vars => [Lifecycle!Next]_Phase
    <2> SUFFICES ASSUME IInv, [Next]_vars PROVE Lifecycle!Next \/ UNCHANGED Phase
      OBVIOUS
    <2>1. ASSUME NEW r \in Runs, StartRun(r) PROVE Lifecycle!Next
      <3>1. \A s \in Sites : Settled(s)
        BY <2>1 DEF Settled, Sound, StartRun
      <3> QED
        BY <3>1, SettledStep
    <2>2. ASSUME NEW r \in Runs, NEW s \in Sites, TaskStep(r, s)
          PROVE  Lifecycle!Next \/ UNCHANGED Phase
      BY <2>2, TaskStepAdvances
    <2>3. ASSUME NEW s \in Sites, UserStep(s) PROVE Lifecycle!Next
      BY <2>3, UserStepAdvances
    <2>4. CASE Restart
      <3>1. \A s \in Sites : heard'[s].downs = heard[s].downs
        BY <2>4 DEF Restart, IInv, Types, Notice
      <3>2. \A s \in Sites : Settled(s)
        BY <2>4, <3>1 DEF Settled, Sound, Stage, Restart
      <3> QED
        BY <3>2, SettledStep
    <2>5. ASSUME UNCHANGED <<sites, heard, tainted>> PROVE UNCHANGED Phase
      BY <2>5 DEF Phase, Sound
    <2>6. ASSUME NEW s \in Sites, SiteToggles(s) PROVE UNCHANGED Phase
      BY <2>5, <2>6 DEF SiteToggles
    <2>7. CASE BlockBot \/ UNCHANGED vars
      BY <2>5, <2>7 DEF BlockBot, vars
    <2> QED
      BY <2>1, <2>2, <2>3, <2>4, <2>6, <2>7 DEF Next
  <1> QED
    BY <1>1, <1>2, Inductive, PTL DEF Spec, ImplementsLifecycle, Lifecycle!Spec

================================================================================
