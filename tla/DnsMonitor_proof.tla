--------------------------- MODULE DnsMonitor_proof ---------------------------
(* Theorems about DnsMonitor, for every value of its constants. *)
EXTENDS DnsMonitor, SequenceTheorems, WellFoundedInduction, TLAPS

LEMMA ConstantTypes ==
    /\ "IP" \in Types /\ Records \subseteq Nat \ {0}
    /\ \A a \in Answers : a \subseteq Records /\ a # {}
    /\ Null \notin Records /\ \A S \in SUBSET Records : S # Null
    /\ Scopes \subseteq Scope
  BY DnsAssumption DEF DnsAssumption

\* A set of records has a lowest one: sorted() returns it first.
LEMMA LowestIs ==
    ASSUME NEW S, S \subseteq Records, S # {}
    PROVE  Lowest(S) \in S
  <1> DEFINE R == {p \in Nat \X Nat : p[1] < p[2]}
  <1>1. S \subseteq Nat
    BY ConstantTypes
  <1>2. R = OpToRel(<, Nat)
    BY DEF OpToRel
  <1>3. IsWellFoundedOn(R, Nat)
    BY <1>2, NatLessThanWellFounded
  <1>4. PICK x \in S : \A y \in S : <<y, x>> \notin R
    BY <1>1, <1>3, WFMin
  <1>5. ASSUME NEW y \in S PROVE x <= y
    <2>1. <<y, x>> \in Nat \X Nat /\ x \in Nat /\ y \in Nat
      BY <1>1
    <2>2. y < x => <<y, x>> \in R
      BY <2>1
    <2> QED
      BY <1>4, <2>1, <2>2
  <1> QED
    BY <1>5 DEF Lowest

Spent == [changes : 0..scope.changes, restarts : 0..scope.restarts, slips : 0..scope.slips]

LEMMA ScopeTypes ==
    ASSUME TypeOK
    PROVE  /\ scope.prefs \subseteq BOOLEAN /\ pref \in BOOLEAN
           /\ scope.changes \in Nat /\ scope.disables \in Nat
           /\ scope.restarts \in Nat /\ scope.slips \in Nat
           /\ interval \in Nat /\ interval # 0
           /\ spent.slips \in Nat /\ spent.slips <= scope.slips
  <1>1. scope \in Scope /\ pref \in scope.prefs
    BY ConstantTypes DEF TypeOK
  <1>2. /\ scope.prefs \subseteq BOOLEAN /\ pref \in BOOLEAN
        /\ scope.changes \in Nat /\ scope.disables \in Nat
        /\ scope.restarts \in Nat /\ scope.slips \in Nat
    BY <1>1 DEF Scope
  <1>3. interval \in 1..(scope.disables + 1) /\ spent.slips \in 0..scope.slips
    BY DEF TypeOK
  <1> QED
    BY <1>2, <1>3

LEMMA SnapTypes ==
    /\ NoSnap \in Snap
    /\ ~NoSnap.there /\ ~NoSnap.base
    /\ \A t \in Types : NoSnap.v[t] = Null /\ NoSnap.since[t] = 0 /\ NoSnap.first[t] = <<Null, 0>>
  BY DEF NoSnap, Snap, Value

LEMMA IdleType ==
    /\ Idle \in Task /\ Idle.pc = "idle" /\ ~Idle.sent /\ Idle.at = 0
    /\ Failed \in Task /\ Failed.pc = "idle" /\ ~Failed.sent /\ Failed.at = 0
  <1>1. [t \in Types |-> Null] \in [Types -> Value]
    BY DEF Value
  <1>2. Idle \in Task /\ Idle.pc = "idle" /\ ~Idle.sent /\ Idle.at = 0
    BY <1>1, SnapTypes DEF Idle, Task
  <1> QED
    BY <1>2 DEF Failed, Task

-----------------------------------------------------------------------------
(* The log of change events.                                                *)

LEMMA LogTypes ==
    ASSUME TypeOK, NEW t \in Types
    PROVE  /\ log[t] \in Seq(Event) /\ Len(log[t]) \in Nat
           /\ DOMAIN log[t] = 1..Len(log[t])
           /\ \A i \in 1..Len(log[t]) : log[t][i] \in Event
  <1>1. log[t] \in Seq(Event)
    BY DEF TypeOK
  <1> QED
    BY <1>1, LenProperties, ElementOfSeq

LEMMA IdsAre ==
    /\ \A e \in Ids : e = <<e[1], e[2]>> /\ e[1] \in Types /\ e[2] \in 1..Len(log[e[1]])
    /\ \A t \in Types : \A i \in 1..Len(log[t]) : <<t, i>> \in Ids
  BY DEF Ids

LEMMA IdsAreNext ==
    /\ \A e \in Ids' : e = <<e[1], e[2]>> /\ e[1] \in Types /\ e[2] \in 1..Len(log'[e[1]])
    /\ \A t \in Types : \A i \in 1..Len(log'[t]) : <<t, i>> \in Ids'
  BY DEF Ids

\* Ids that exist go on existing when the log does not shrink.
LEMMA IdsStay ==
    ASSUME \A t \in Types : Len(log[t]) \in Nat /\ Len(log'[t]) \in Nat
                            /\ Len(log[t]) <= Len(log'[t])
    PROVE  Ids \subseteq Ids'
  <1> SUFFICES ASSUME NEW e \in Ids PROVE e \in Ids'
    OBVIOUS
  <1>1. e = <<e[1], e[2]>> /\ e[1] \in Types /\ e[2] \in 1..Len(log[e[1]])
    BY IdsAre
  <1>2. e[2] \in 1..Len(log'[e[1]])
    BY <1>1
  <1> QED
    BY <1>1, <1>2, IdsAreNext

\* f is s with other events in the same places.
LEMMA SameLength ==
    ASSUME NEW s \in Seq(Event), NEW f, DOMAIN f = DOMAIN s,
           \A i \in DOMAIN s : f[i] \in Event, f = [i \in DOMAIN s |-> f[i]]
    PROVE  f \in Seq(Event) /\ Len(f) = Len(s)
  <1>1. Len(s) \in Nat /\ DOMAIN s = 1..Len(s)
    BY LenProperties
  <1>2. f \in [1..Len(s) -> Event]
    BY <1>1
  <1> QED
    BY <1>1, <1>2

LEMMA ToldIs ==
    ASSUME TypeOK, NEW ids
    PROVE  /\ Told(ids) \in [Types -> Seq(Event)]
           /\ \A t \in Types :
                /\ Len(Told(ids)[t]) = Len(log[t])
                /\ \A i \in 1..Len(log[t]) :
                     /\ Told(ids)[t][i].from = log[t][i].from
                     /\ Told(ids)[t][i].to = log[t][i].to
                     /\ Told(ids)[t][i].new = log[t][i].new
                     /\ Told(ids)[t][i].notified = log[t][i].notified
                     /\ Told(ids)[t][i].told \in {log[t][i].told, log[t][i].told + 1}
                     /\ <<t, i>> \notin ids => Told(ids)[t][i].told = log[t][i].told
  <1> DEFINE f(t) == Told(ids)[t]
             x(t, i) == [log[t][i] EXCEPT !.told =
                           IF <<t, i>> \in ids /\ @ < scope.slips + 2 THEN @ + 1 ELSE @]
             Kept(e, d) == e.from = d.from /\ e.to = d.to /\ e.new = d.new
                           /\ e.notified = d.notified /\ e.told \in {d.told, d.told + 1}
  <1>1. ASSUME NEW t \in Types
        PROVE  /\ f(t) \in Seq(Event) /\ Len(f(t)) = Len(log[t])
               /\ \A i \in 1..Len(log[t]) :
                    /\ Kept(f(t)[i], log[t][i])
                    /\ <<t, i>> \notin ids => f(t)[i].told = log[t][i].told
    <2>1. DOMAIN f(t) = DOMAIN log[t] /\ f(t) = [i \in DOMAIN log[t] |-> f(t)[i]]
          /\ \A i \in DOMAIN log[t] : f(t)[i] = x(t, i)
      BY DEF Told
    <2>2. ASSUME NEW i \in DOMAIN log[t]
          PROVE  /\ x(t, i) \in Event /\ Kept(x(t, i), log[t][i])
                 /\ <<t, i>> \notin ids => x(t, i).told = log[t][i].told
      <3>1. log[t][i] \in Event
        BY LogTypes
      <3> QED
        BY <3>1 DEF Event
    <2>3. log[t] \in Seq(Event) /\ DOMAIN log[t] = 1..Len(log[t])
      BY LogTypes
    <2>4. \A i \in DOMAIN log[t] : f(t)[i] \in Event
      BY <2>1, <2>2
    <2> HIDE DEF f, x, Kept
    <2>5. f(t) \in Seq(Event) /\ Len(f(t)) = Len(log[t])
      BY <2>1, <2>3, <2>4, SameLength
    <2> QED
      BY <2>1, <2>2, <2>3, <2>5
  <1>2. DOMAIN Told(ids) = Types /\ Told(ids) = [t \in Types |-> f(t)]
    BY DEF Told
  <1> QED
    BY <1>1, <1>2

LEMMA MarkedIs ==
    ASSUME TypeOK, NEW ids
    PROVE  /\ Marked(ids) \in [Types -> Seq(Event)]
           /\ \A t \in Types :
                /\ Len(Marked(ids)[t]) = Len(log[t])
                /\ \A i \in 1..Len(log[t]) :
                     /\ Marked(ids)[t][i].from = log[t][i].from
                     /\ Marked(ids)[t][i].to = log[t][i].to
                     /\ Marked(ids)[t][i].new = log[t][i].new
                     /\ Marked(ids)[t][i].told = log[t][i].told
                     /\ log[t][i].notified \/ <<t, i>> \in ids => Marked(ids)[t][i].notified
  <1> DEFINE f(t) == Marked(ids)[t]
             x(t, i) == [log[t][i] EXCEPT !.notified = @ \/ <<t, i>> \in ids]
             Kept(e, d) == e.from = d.from /\ e.to = d.to /\ e.new = d.new /\ e.told = d.told
  <1>1. ASSUME NEW t \in Types
        PROVE  /\ f(t) \in Seq(Event) /\ Len(f(t)) = Len(log[t])
               /\ \A i \in 1..Len(log[t]) :
                    /\ Kept(f(t)[i], log[t][i])
                    /\ log[t][i].notified \/ <<t, i>> \in ids => f(t)[i].notified
    <2>1. DOMAIN f(t) = DOMAIN log[t] /\ f(t) = [i \in DOMAIN log[t] |-> f(t)[i]]
          /\ \A i \in DOMAIN log[t] : f(t)[i] = x(t, i)
      BY DEF Marked
    <2>2. ASSUME NEW i \in DOMAIN log[t]
          PROVE  /\ x(t, i) \in Event /\ Kept(x(t, i), log[t][i])
                 /\ log[t][i].notified \/ <<t, i>> \in ids => x(t, i).notified
      <3>1. log[t][i] \in Event
        BY LogTypes
      <3> QED
        BY <3>1 DEF Event
    <2>3. log[t] \in Seq(Event) /\ DOMAIN log[t] = 1..Len(log[t])
      BY LogTypes
    <2>4. \A i \in DOMAIN log[t] : f(t)[i] \in Event
      BY <2>1, <2>2
    <2> HIDE DEF f, x, Kept
    <2>5. f(t) \in Seq(Event) /\ Len(f(t)) = Len(log[t])
      BY <2>1, <2>3, <2>4, SameLength
    <2> QED
      BY <2>1, <2>2, <2>3, <2>5
  <1>2. DOMAIN Marked(ids) = Types /\ Marked(ids) = [t \in Types |-> f(t)]
    BY DEF Marked
  <1> QED
    BY <1>1, <1>2

-----------------------------------------------------------------------------
(* Types.                                                                   *)

\* While a task looks the DNS up, it has the addresses of its check.
Addresses ==
    \A r \in Tasks : tasks[r].pc \in {"look", "recheck", "read", "write"} =>
        tasks[r].got["IP"] \in Answers

LEMMA LogSame ==
    ASSUME TypeOK, log' = log
    PROVE  log' \in [Types -> Seq(Event)] /\ Ids \subseteq Ids'
  BY DEF TypeOK, Ids

LEMMA ToldLog ==
    ASSUME TypeOK, NEW ids, log' = Told(ids)
    PROVE  log' \in [Types -> Seq(Event)] /\ Ids \subseteq Ids'
  <1>1. log' \in [Types -> Seq(Event)] /\ \A t \in Types : Len(log'[t]) = Len(log[t])
    BY ToldIs
  <1> QED
    BY <1>1, LogTypes, IdsStay

LEMMA MarkedLog ==
    ASSUME TypeOK, NEW ids, log' = Marked(ids)
    PROVE  log' \in [Types -> Seq(Event)] /\ Ids \subseteq Ids'
  <1>1. log' \in [Types -> Seq(Event)] /\ \A t \in Types : Len(log'[t]) = Len(log[t])
    BY MarkedIs
  <1> QED
    BY <1>1, LogTypes, IdsStay

LEMMA TasksStay ==
    ASSUME TypeOK, Ids \subseteq Ids'
    PROVE  tasks \in [Tasks -> Task'] /\ Task \subseteq Task'
  BY DEF TypeOK, Task

\* What the step of a task leaves alone.
Rested ==
    UNCHANGED <<world, enabled, pref, puts, interval, scope>> /\ torn' \in BOOLEAN

LEMMA RestRested ==
    ASSUME TypeOK, UNCHANGED Rest
    PROVE  Rested
  BY DEF TypeOK, Rest, Rested

\* A step of task r.
LEMMA TaskMoves ==
    ASSUME TypeOK, Addresses, NEW r \in Tasks, NEW x \in Task,
           tasks' = [tasks EXCEPT ![r] = x],
           x.pc \in {"look", "recheck", "read", "write"} => x.got["IP"] \in Answers,
           Rested, ip' \in Records \cup {Null}, snap' \in Snap,
           log' \in [Types -> Seq(Event)] /\ Ids \subseteq Ids', spent' \in Spent
    PROVE  TypeOK' /\ Addresses'
  <1>1. tasks \in [Tasks -> Task'] /\ x \in Task'
    BY TasksStay
  <1>2. tasks' \in [Tasks -> Task']
    BY <1>1
  <1>3. TypeOK'
    BY <1>2 DEF TypeOK, Rested, Spent
  <1>4. Addresses'
    BY DEF TypeOK, Addresses
  <1> QED
    BY <1>3, <1>4

LEMMA TaskIs ==
    ASSUME TypeOK, NEW r \in Tasks
    PROVE  /\ tasks[r] \in Task /\ tasks[r].row \in Snap /\ tasks[r].got \in [Types -> Value]
           /\ tasks[r].at \in Nat /\ tasks[r].ids \subseteq Ids
           /\ tasks[r].sent \in BOOLEAN /\ tasks[r].bad \in BOOLEAN /\ tasks[r].pref \in BOOLEAN
  <1>1. tasks[r] \in Task
    BY DEF TypeOK
  <1> QED
    BY <1>1 DEF Task

LEMMA SpentIs ==
    ASSUME TypeOK
    PROVE  /\ spent \in Spent /\ ip \in Records \cup {Null} /\ snap \in Snap
           /\ world \in [Types -> Value] /\ world["IP"] \in Answers
           /\ world["IP"] \subseteq Records
  BY ConstantTypes DEF TypeOK, Spent, Value

LEMMA StartType ==
    ASSUME TypeOK, Addresses, NEW r \in Tasks, Start(r)
    PROVE  TypeOK' /\ Addresses'
  <1> DEFINE x == [Idle EXCEPT !.pc = IF enabled THEN "check" ELSE "checkOnly",
                               !.at = interval]
  <1>1. x \in Task /\ x.pc \in {"check", "checkOnly"}
    BY IdleType, ScopeTypes DEF Task
  <1>2. /\ tasks' = [tasks EXCEPT ![r] = x]
        /\ UNCHANGED <<Rest, ip, snap, log, spent>>
    BY DEF Start
  <1> HIDE DEF x
  <1>3. UNCHANGED Rest /\ ip' = ip /\ snap' = snap /\ log' = log /\ spent' = spent
    BY <1>2
  <1> QED
    BY <1>1, <1>2, <1>3, LogSame, SpentIs, RestRested, TaskMoves

LEMMA CheckedType ==
    ASSUME TypeOK, Addresses, NEW r \in Tasks, Checked(r)
    PROVE  TypeOK' /\ Addresses'
  <1> DEFINE y == [tasks[r] EXCEPT !.pc = "look", !.got["IP"] = world["IP"], !.pref = pref]
             x == IF tasks[r].pc = "checkOnly" THEN Idle ELSE y
  <1>1. "IP" \in Types /\ world["IP"] \in Value /\ pref \in BOOLEAN
    BY SpentIs, ScopeTypes, ConstantTypes
  <1>2. y \in Task /\ y.pc = "look" /\ y.got["IP"] = world["IP"]
    BY <1>1, TaskIs DEF Task
  <1>3. x \in Task
        /\ (x.pc \in {"look", "recheck", "read", "write"} => x.got["IP"] \in Answers)
    BY <1>2, IdleType, SpentIs
  <1>4. /\ tasks' = [tasks EXCEPT ![r] = x] /\ ip' \in world["IP"]
        /\ UNCHANGED Rest /\ snap' = snap /\ log' = log /\ spent' = spent
    BY DEF Checked
  <1> HIDE DEF x
  <1> QED
    BY <1>3, <1>4, LogSame, SpentIs, RestRested, TaskMoves

\* The task is idle again.
LEMMA EndType ==
    ASSUME TypeOK, Addresses, NEW r \in Tasks, NEW x \in {Idle, Failed},
           tasks' = [tasks EXCEPT ![r] = x], UNCHANGED Rest, ip' = ip, snap' = snap,
           log' \in [Types -> Seq(Event)] /\ Ids \subseteq Ids', spent' \in Spent
    PROVE  TypeOK' /\ Addresses'
  <1>1. x \in Task /\ x.pc = "idle"
    BY IdleType
  <1> QED
    BY <1>1, SpentIs, RestRested, TaskMoves

LEMMA CheckFailedType ==
    ASSUME TypeOK, Addresses, NEW r \in Tasks, CheckFailed(r)
    PROVE  TypeOK' /\ Addresses'
  BY LogSame, SpentIs, EndType DEF CheckFailed

LEMMA LookedUpType ==
    ASSUME TypeOK, Addresses, NEW r \in Tasks, NEW failed, LookedUp(r, failed)
    PROVE  TypeOK' /\ Addresses'
  <1> DEFINE g == [t \in Types |-> IF t = "IP" THEN tasks[r].got[t]
                                   ELSE IF t \in failed THEN Null ELSE world[t]]
             b == failed # {}
             x == [tasks[r] EXCEPT !.pc = "recheck", !.bad = b, !.got = g]
  <1>1. g \in [Types -> Value]
    BY TaskIs, SpentIs DEF Value
  <1>2. g["IP"] = tasks[r].got["IP"] /\ tasks[r].got["IP"] \in Answers
    BY ConstantTypes DEF LookedUp, Addresses
  <1>3. b \in BOOLEAN
    OBVIOUS
  <1>4. /\ tasks' = [tasks EXCEPT ![r] = x]
        /\ UNCHANGED Rest /\ ip' = ip /\ snap' = snap /\ log' = log /\ spent' = spent
    BY DEF LookedUp
  <1> HIDE DEF g, b
  <1>5. x \in Task /\ x.got["IP"] \in Answers
    BY <1>1, <1>2, <1>3, TaskIs DEF Task
  <1> HIDE DEF x
  <1> QED
    BY <1>4, <1>5, LogSame, SpentIs, RestRested, TaskMoves

\* The task goes on to the list of pending changes.
LEMMA ToListType ==
    ASSUME TypeOK, Addresses, NEW r \in Tasks, NEW b \in BOOLEAN, ToList(r, b),
           Rested, ip' \in Records \cup {Null}, snap' \in Snap,
           log' \in [Types -> Seq(Event)] /\ Ids \subseteq Ids', spent' = spent
    PROVE  TypeOK' /\ Addresses'
  <1> DEFINE x == [Idle EXCEPT !.pc = "list", !.pref = tasks[r].pref, !.bad = b]
  <1>1. x \in Task /\ x.pc = "list"
    BY IdleType, TaskIs DEF Task
  <1>2. tasks' = [tasks EXCEPT ![r] = x]
    BY DEF ToList
  <1> HIDE DEF x
  <1> QED
    BY <1>1, <1>2, SpentIs, TaskMoves

LEMMA RecheckType ==
    ASSUME TypeOK, Addresses, NEW r \in Tasks, Recheck(r)
    PROVE  TypeOK' /\ Addresses'
  <1>1. /\ tasks[r].pc = "recheck"
        /\ UNCHANGED Rest /\ ip' = ip /\ snap' = snap /\ log' = log /\ spent' = spent
    BY DEF Recheck
  <1>2. CASE enabled
    <2> DEFINE x == [tasks[r] EXCEPT !.pc = "read"]
    <2>1. x \in Task /\ x.got = tasks[r].got
      BY TaskIs DEF Task
    <2>2. tasks[r].got["IP"] \in Answers
      BY <1>1 DEF Addresses
    <2>3. tasks' = [tasks EXCEPT ![r] = x]
      BY <1>2 DEF Recheck, Goto
    <2> HIDE DEF x
    <2> QED
      BY <1>1, <2>1, <2>2, <2>3, LogSame, SpentIs, RestRested, TaskMoves
  <1>3. CASE ~enabled
    <2>1. ToList(r, tasks[r].bad)
      BY <1>3 DEF Recheck
    <2> QED
      BY <1>1, <2>1, LogSame, SpentIs, TaskIs, RestRested, ToListType
  <1> QED
    BY <1>2, <1>3

LEMMA ReadType ==
    ASSUME TypeOK, Addresses, NEW r \in Tasks, Read(r)
    PROVE  TypeOK' /\ Addresses'
  <1> DEFINE x == [tasks[r] EXCEPT !.pc = "write", !.row = snap]
  <1>1. x \in Task /\ x.got = tasks[r].got
    BY TaskIs, SpentIs DEF Task
  <1>2. /\ tasks' = [tasks EXCEPT ![r] = x]
        /\ UNCHANGED Rest /\ ip' = ip /\ snap' = snap /\ log' = log /\ spent' = spent
    BY DEF Read
  <1>3. tasks[r].got["IP"] \in Answers
    BY DEF Read, Addresses
  <1> HIDE DEF x
  <1> QED
    BY <1>1, <1>2, <1>3, LogSame, SpentIs, RestRested, TaskMoves

LEMMA UpdatedIs ==
    ASSUME TypeOK, NEW row \in Snap, NEW got \in [Types -> Value], NEW n \in Nat
    PROVE  /\ Updated(row, got, n) \in Snap
           /\ Updated(row, got, n).there
           /\ Updated(row, got, n).base = (row.base /\ \E t \in Types : got[t] = Null)
           /\ \A t \in Types :
                /\ Updated(row, got, n).v[t] = IF got[t] = Null THEN row.v[t] ELSE got[t]
                /\ Updated(row, got, n).since[t] = IF got[t] = Null THEN row.since[t] ELSE n
                /\ Updated(row, got, n).first[t] =
                     IF got[t] # Null /\ (row.base \/ row.v[t] = Null)
                     THEN <<got[t], Len(log[t])>> ELSE row.first[t]
  <1>1. /\ row.v \in [Types -> Value] /\ row.since \in [Types -> Nat] /\ row.base \in BOOLEAN
        /\ row.first \in [Types -> Value \X Nat]
    BY DEF Snap
  <1>2. \A t \in Types : Len(log[t]) \in Nat
    BY LogTypes
  <1>3. /\ Merged(row, got) \in [Types -> Value]
        /\ \A t \in Types : Merged(row, got)[t] = IF got[t] = Null THEN row.v[t] ELSE got[t]
    BY <1>1 DEF Merged
  <1>4. /\ Since(row, got, n) \in [Types -> Nat]
        /\ \A t \in Types : Since(row, got, n)[t] = IF got[t] = Null THEN row.since[t] ELSE n
    BY <1>1 DEF Since
  <1>5. /\ First(row, got) \in [Types -> Value \X Nat]
        /\ \A t \in Types : First(row, got)[t] =
             IF got[t] # Null /\ (row.base \/ row.v[t] = Null)
             THEN <<got[t], Len(log[t])>> ELSE row.first[t]
    BY <1>1, <1>2 DEF First
  <1>6. Incomplete(got) \in BOOLEAN /\ (Incomplete(got) <=> \E t \in Types : got[t] = Null)
    BY DEF Incomplete
  <1> QED
    BY <1>1, <1>3, <1>4, <1>5, <1>6 DEF Updated, Snap

\* What Write() does to the log: an event for each type that changed.
WrittenEvent(r, t) ==
    [prev |-> tasks[r].row.v[t], new |-> tasks[r].got[t], from |-> tasks[r].row.since[t],
     to |-> tasks[r].at, notified |-> FALSE, told |-> 0]

LEMMA WriteIs ==
    ASSUME TypeOK, NEW r \in Tasks, Write(r)
    PROVE  /\ tasks[r].pc = "write" /\ ToList(r, tasks[r].bad) /\ Rested
           /\ torn' = (torn \/ tasks[r].at # interval) /\ spent' = spent
           /\ \/ /\ snap' = Updated(tasks[r].row, tasks[r].got, tasks[r].at)
                 /\ tasks[r].row.there \/ ~snap.there
                 /\ ip' = Lowest(Updated(tasks[r].row, tasks[r].got, tasks[r].at).v["IP"])
                    \/ ip' = ip
              \/ ~tasks[r].row.there /\ snap.there /\ snap' = snap /\ ip' = ip
           /\ log' \in [Types -> Seq(Event)]
           /\ \A t \in Types :
                IF t \in Changed(tasks[r].row, tasks[r].got)
                THEN /\ log'[t] = Append(log[t], WrittenEvent(r, t))
                     /\ WrittenEvent(r, t) \in Event
                ELSE log'[t] = log[t]
  <1>1. /\ tasks[r].pc = "write" /\ ToList(r, tasks[r].bad) /\ Rested
        /\ torn' = (torn \/ tasks[r].at # interval) /\ spent' = spent
        /\ \/ /\ snap' = Updated(tasks[r].row, tasks[r].got, tasks[r].at)
              /\ tasks[r].row.there \/ ~snap.there
              /\ ip' = Lowest(Updated(tasks[r].row, tasks[r].got, tasks[r].at).v["IP"])
                 \/ ip' = ip
           \/ ~tasks[r].row.there /\ snap.there /\ snap' = snap /\ ip' = ip
    BY DEF Write, Rested, TypeOK
  <1>2. log' = [t \in Types |-> IF t \in Changed(tasks[r].row, tasks[r].got)
                                THEN Append(log[t], WrittenEvent(r, t)) ELSE log[t]]
    BY DEF Write, WrittenEvent
  <1>3. ASSUME NEW t \in Types, t \in Changed(tasks[r].row, tasks[r].got)
        PROVE  WrittenEvent(r, t) \in Event /\ Append(log[t], WrittenEvent(r, t)) \in Seq(Event)
    <2>1. /\ tasks[r].row.v \in [Types -> Value] /\ tasks[r].row.since \in [Types -> Nat]
          /\ tasks[r].got \in [Types -> Value] /\ tasks[r].at \in Nat
      BY TaskIs DEF Snap
    <2>2. tasks[r].row.v[t] \in SUBSET Records /\ tasks[r].got[t] \in SUBSET Records
      BY <1>3, <2>1 DEF Changed, Value
    <2>3. WrittenEvent(r, t) \in Event
      BY <2>1, <2>2 DEF WrittenEvent, Event
    <2> QED
      BY <2>3, LogTypes, AppendProperties
  <1>4. \A t \in Types : log[t] \in Seq(Event)
    BY LogTypes
  <1>5. log' \in [Types -> Seq(Event)]
    BY <1>2, <1>3, <1>4
  <1> QED
    BY <1>1, <1>2, <1>3, <1>5

LEMMA WriteType ==
    ASSUME TypeOK, Addresses, NEW r \in Tasks, Write(r)
    PROVE  TypeOK' /\ Addresses'
  <1> DEFINE row == tasks[r].row
             got == tasks[r].got
             new == Updated(row, got, tasks[r].at)
  <1>1. /\ tasks[r].pc = "write" /\ ToList(r, tasks[r].bad) /\ Rested
        /\ spent' = spent /\ log' \in [Types -> Seq(Event)]
        /\ \/ snap' = new /\ (ip' = Lowest(new.v["IP"]) \/ ip' = ip)
           \/ snap' = snap /\ ip' = ip
    BY WriteIs
  <1>2. new \in Snap /\ new.v["IP"] = got["IP"] /\ got["IP"] \in Answers
    <2>1. got["IP"] \in Answers /\ "IP" \in Types
      BY <1>1, ConstantTypes DEF Addresses
    <2>2. got["IP"] # Null
      BY <2>1, ConstantTypes
    <2>3. row \in Snap /\ got \in [Types -> Value] /\ tasks[r].at \in Nat
      BY TaskIs
    <2> HIDE DEF row, got
    <2>4. new \in Snap
      BY <2>3, UpdatedIs
    <2>5. new.v["IP"] = IF got["IP"] = Null THEN row.v["IP"] ELSE got["IP"]
      BY <2>1 DEF Updated, Merged
    <2> QED
      BY <2>1, <2>2, <2>4, <2>5
  <1>3. new.v["IP"] \subseteq Records /\ new.v["IP"] # {}
    BY <1>1, <1>2, ConstantTypes DEF Addresses
  <1> HIDE DEF new
  <1>4. snap' \in Snap /\ ip' \in Records \cup {Null}
    BY <1>1, <1>2, <1>3, LowestIs, SpentIs
  <1>5. Ids \subseteq Ids'
    <2>1. ASSUME NEW t \in Types
          PROVE Len(log[t]) \in Nat /\ Len(log'[t]) \in Nat /\ Len(log[t]) <= Len(log'[t])
      <3>1. log[t] \in Seq(Event) /\ Len(log[t]) \in Nat
        BY LogTypes
      <3>2. \/ log'[t] = log[t]
            \/ \E e \in Event : log'[t] = Append(log[t], e)
        BY WriteIs
      <3> QED
        BY <3>1, <3>2, AppendProperties
    <2> QED
      BY <2>1, IdsStay
  <1> QED
    BY <1>1, <1>4, <1>5, TaskIs, RestRested, ToListType

LEMMA RecordFailsType ==
    ASSUME TypeOK, Addresses, NEW r \in Tasks, RecordFails(r)
    PROVE  TypeOK' /\ Addresses'
  BY LogSame, SpentIs, RestRested, ToListType DEF RecordFails

LEMMA ListType ==
    ASSUME TypeOK, Addresses, NEW r \in Tasks, List(r)
    PROVE  TypeOK' /\ Addresses'
  <1> DEFINE y == [tasks[r] EXCEPT !.pc = IF tasks[r].pref THEN "send" ELSE "mark",
                                   !.ids = Pending]
             x == IF enabled /\ Pending # {} THEN y ELSE Idle
  <1>1. Pending \subseteq Ids
    BY DEF Pending
  <1>2. y \in Task /\ y.pc \in {"send", "mark"}
    BY <1>1, TaskIs DEF Task
  <1>3. x \in Task /\ x.pc \in {"send", "mark", "idle"}
    BY <1>2, IdleType
  <1>4. /\ tasks' = [tasks EXCEPT ![r] = x]
        /\ UNCHANGED Rest /\ ip' = ip /\ snap' = snap /\ log' = log /\ spent' = spent
    BY DEF List
  <1> HIDE DEF x
  <1> QED
    BY <1>3, <1>4, LogSame, SpentIs, RestRested, TaskMoves

LEMMA SlipType ==
    ASSUME TypeOK, Slip
    PROVE  spent' \in Spent /\ spent'.slips = spent.slips + 1
  <1>1. spent.slips < scope.slips /\ spent' = [spent EXCEPT !.slips = spent.slips + 1]
    BY DEF Slip
  <1>2. spent \in Spent /\ spent.slips + 1 \in 0..scope.slips
    BY <1>1, SpentIs, ScopeTypes
  <1> QED
    BY <1>1, <1>2 DEF Spent

LEMMA SendType ==
    ASSUME TypeOK, Addresses, NEW r \in Tasks, Send(r)
    PROVE  TypeOK' /\ Addresses'
  <1> DEFINE x == [tasks[r] EXCEPT !.pc = "mark", !.sent = TRUE]
  <1>1. x \in Task /\ x.pc = "mark"
    BY TaskIs DEF Task
  <1>2. /\ tasks' = [tasks EXCEPT ![r] = x] /\ log' = Told(tasks[r].ids)
        /\ UNCHANGED Rest /\ ip' = ip /\ snap' = snap /\ spent' = spent
    BY DEF Send
  <1> HIDE DEF x
  <1> QED
    BY <1>1, <1>2, ToldLog, SpentIs, RestRested, TaskMoves

LEMMA SendFailsType ==
    ASSUME TypeOK, Addresses, NEW r \in Tasks, SendFails(r)
    PROVE  TypeOK' /\ Addresses'
  <1>1. /\ tasks' = [tasks EXCEPT ![r] = Failed]
        /\ UNCHANGED Rest /\ ip' = ip /\ snap' = snap
        /\ (log' = log /\ spent' = spent) \/ (log' = Told(tasks[r].ids) /\ Slip)
    BY DEF SendFails
  <1>2. log' \in [Types -> Seq(Event)] /\ Ids \subseteq Ids' /\ spent' \in Spent
    BY <1>1, LogSame, ToldLog, SlipType, SpentIs
  <1> QED
    BY <1>1, <1>2, EndType

LEMMA MarkType ==
    ASSUME TypeOK, Addresses, NEW r \in Tasks, Mark(r)
    PROVE  TypeOK' /\ Addresses'
  BY MarkedLog, SpentIs, EndType DEF Mark

LEMMA FailsType ==
    ASSUME TypeOK, Addresses, NEW r \in Tasks, Fails(r)
    PROVE  TypeOK' /\ Addresses'
  <1>1. /\ tasks' = [tasks EXCEPT ![r] = Failed]
        /\ UNCHANGED Rest /\ ip' = ip /\ snap' = snap /\ log' = log
        /\ Slip \/ spent' = spent
    BY DEF Fails
  <1>2. spent' \in Spent
    BY <1>1, SlipType, SpentIs
  <1> QED
    BY <1>1, <1>2, LogSame, EndType

\* The tasks go on as they are.
LEMMA TasksSame ==
    ASSUME TypeOK, Addresses, tasks' = tasks, Ids \subseteq Ids'
    PROVE  tasks' \in [Tasks -> Task'] /\ Addresses'
  BY TasksStay DEF Addresses

LEMMA SettingsType ==
    ASSUME TypeOK, Addresses, NEW p \in Requests, Put(p) \/ Save(p) \/ Refuse(p)
    PROVE  TypeOK' /\ Addresses'
  <1> DEFINE Puts == [pc : {"idle", "validate"}, want : BOOLEAN]
  <1>1. puts[p] \in Puts /\ puts[p].want \in BOOLEAN
    BY DEF TypeOK
  <1>2. puts' \in [Requests -> Puts]
    <2>1. puts \in [Requests -> Puts] /\ NoPut \in Puts
      BY DEF TypeOK, NoPut
    <2>2. \A want \in BOOLEAN : [pc |-> "validate", want |-> want] \in Puts
      OBVIOUS
    <2>3. \E x \in Puts : puts' = [puts EXCEPT ![p] = x]
      BY <2>1, <2>2 DEF Put, Save, Refuse
    <2> HIDE DEF Puts
    <2> QED
      BY <2>1, <2>3
  <1>3. /\ UNCHANGED <<world, pref, ip, spent, scope>> /\ tasks' = tasks
        /\ log' = log \/ log' = Marked(Pending)
    BY DEF Put, Save, Refuse
  <1>4. log' \in [Types -> Seq(Event)] /\ Ids \subseteq Ids'
    BY <1>3, LogSame, MarkedLog
  <1>5. enabled' \in BOOLEAN /\ snap' \in Snap /\ torn' \in BOOLEAN
        /\ interval' \in 1..(scope.disables + 1)
    <2>1. CASE Put(p) \/ Refuse(p)
      BY <2>1 DEF Put, Refuse, TypeOK
    <2>2. CASE Save(p)
      <3>1. enabled' \in BOOLEAN /\ torn' \in BOOLEAN
        BY <1>1, <2>2 DEF Save, TypeOK
      <3>2. snap' \in Snap
        <4>1. [snap EXCEPT !.base = TRUE] \in Snap
          BY SpentIs DEF Snap
        <4> QED
          BY <2>2, <4>1, SpentIs DEF Save
      <3>3. interval' \in 1..(scope.disables + 1)
        <4>1. \/ interval' = interval
              \/ interval <= scope.disables /\ interval' = interval + 1
          BY <2>2 DEF Save
        <4> QED
          BY <4>1, ScopeTypes DEF TypeOK
      <3> QED
        BY <3>1, <3>2, <3>3
    <2> QED
      BY <2>1, <2>2
  <1>6. tasks' \in [Tasks -> Task'] /\ Addresses'
    BY <1>3, <1>4, TasksSame
  <1> QED
    BY <1>2, <1>3, <1>4, <1>5, <1>6 DEF TypeOK

LEMMA WorldType ==
    ASSUME TypeOK, Addresses, SetPref \/ \E t \in Types : DnsChanges(t)
    PROVE  TypeOK' /\ Addresses'
  <1>1. /\ UNCHANGED <<enabled, ip, snap, log, tasks, puts, interval, torn, scope>>
    BY DEF SetPref, DnsChanges
  <1>2. tasks' \in [Tasks -> Task'] /\ Addresses'
    BY <1>1, LogSame, TasksSame
  <1>3. pref' \in scope.prefs
    BY DEF SetPref, DnsChanges, TypeOK
  <1>4. world' \in [Types -> Answers]
    BY DEF SetPref, DnsChanges, TypeOK
  <1>5. spent' \in Spent
    <2>1. CASE SetPref
      BY <2>1, SpentIs DEF SetPref
    <2>2. CASE \E t \in Types : DnsChanges(t)
      <3>1. spent.changes < scope.changes
            /\ spent' = [spent EXCEPT !.changes = spent.changes + 1]
        BY <2>2 DEF DnsChanges
      <3>2. spent.changes \in 0..scope.changes
        BY SpentIs DEF Spent
      <3>3. spent.changes + 1 \in 0..scope.changes
        BY <3>1, <3>2, ScopeTypes
      <3> QED
        BY <3>1, <3>3, SpentIs DEF Spent
    <2> QED
      BY <2>1, <2>2
  <1> QED
    BY <1>1, <1>2, <1>3, <1>4, <1>5 DEF TypeOK, Spent

\* The snapshot that the migration makes of an address.
Seeded == [NoSnap EXCEPT !.there = TRUE, !.v["IP"] = {ip}, !.first["IP"] = <<{ip}, 0>>]

LEMMA SeededIs ==
    ASSUME ip \in Records
    PROVE  /\ Seeded \in Snap /\ Seeded.there /\ ~Seeded.base
           /\ Seeded.v["IP"] = {ip} /\ Seeded.first["IP"] = <<{ip}, 0>>
           /\ \A t \in Types : Seeded.since[t] = 0
           /\ \A t \in Types \ {"IP"} : Seeded.v[t] = Null /\ Seeded.first[t] = <<Null, 0>>
  <1>1. {ip} \in Value /\ <<{ip}, 0>> \in Value \X Nat /\ "IP" \in Types
    BY ConstantTypes DEF Value
  <1> QED
    BY <1>1, SnapTypes DEF Seeded, Snap

LEMMA RestartIs ==
    ASSUME TypeOK, Restart
    PROVE  /\ spent' \in Spent
           /\ spent.slips <= spent'.slips
           /\ (\E r \in Tasks : tasks[r].sent) => spent'.slips = spent.slips + 1
           /\ snap' = snap \/ (~snap.there /\ ip \in Records /\ snap' = Seeded)
           /\ \A r \in Tasks : tasks'[r] = Idle
           /\ log' = log
  <1> DEFINE lost == \E r \in Tasks : tasks[r].sent
             m == spent.restarts + 1
             n == IF lost THEN spent.slips + 1 ELSE spent.slips
  <1>1. m \in 0..scope.restarts /\ n \in 0..scope.slips /\ spent.slips <= n
    <2>1. spent.restarts \in 0..scope.restarts /\ spent.slips \in 0..scope.slips
      BY SpentIs DEF Spent
    <2>2. spent.restarts < scope.restarts /\ (lost => spent.slips < scope.slips)
      BY DEF Restart
    <2> QED
      BY <2>1, <2>2, ScopeTypes
  <1>2. spent' = [spent EXCEPT !.restarts = m, !.slips = n]
    BY DEF Restart
  <1>3. snap' = snap \/ (~snap.there /\ ip \in Records /\ snap' = Seeded)
    BY SpentIs DEF Restart, Seeded
  <1>4. log' = log /\ \A r \in Tasks : tasks'[r] = Idle
    BY DEF Restart
  <1>5. lost => n = spent.slips + 1
    OBVIOUS
  <1> HIDE DEF lost, m, n
  <1>6. spent' \in Spent /\ spent'.slips = n
    BY <1>1, <1>2, SpentIs DEF Spent
  <1> QED
    BY <1>1, <1>3, <1>4, <1>5, <1>6 DEF lost

LEMMA RestartType ==
    ASSUME TypeOK, Addresses, Restart
    PROVE  TypeOK' /\ Addresses'
  <1>1. /\ UNCHANGED <<world, enabled, pref, ip, log, interval, torn, scope>>
        /\ tasks' = [r \in Tasks |-> Idle] /\ puts' = [p \in Requests |-> NoPut]
    BY DEF Restart
  <1>2. Idle \in Task /\ Task \subseteq Task' /\ Idle.pc = "idle"
    BY <1>1, IdleType, LogSame, TasksStay
  <1>3. tasks' \in [Tasks -> Task'] /\ Addresses'
    BY <1>1, <1>2 DEF Addresses
  <1>4. snap' \in Snap /\ spent' \in Spent
    BY RestartIs, SeededIs, SpentIs
  <1>5. puts' \in [Requests -> [pc : {"idle", "validate"}, want : BOOLEAN]]
    BY <1>1 DEF NoPut
  <1> QED
    BY <1>1, <1>3, <1>4, <1>5 DEF TypeOK, Spent

LEMMA NextType ==
    ASSUME TypeOK, Addresses, [Next]_vars
    PROVE  TypeOK' /\ Addresses'
  <1>1. CASE UNCHANGED vars
    <2>1. UNCHANGED <<world, enabled, pref, ip, snap, log, tasks, puts, interval, torn,
                      spent, scope>>
      BY <1>1 DEF vars
    <2>2. tasks' \in [Tasks -> Task'] /\ Addresses'
      BY <2>1, LogSame, TasksSame
    <2> QED
      BY <2>1, <2>2 DEF TypeOK
  <1>2. ASSUME NEW r \in Tasks, TaskStep(r) PROVE TypeOK' /\ Addresses'
    BY <1>2, StartType, CheckedType, CheckFailedType, LookedUpType, RecheckType, ReadType,
       WriteType, RecordFailsType, ListType, SendType, SendFailsType, MarkType, FailsType
       DEF TaskStep
  <1> QED
    BY <1>1, <1>2, SettingsType, WorldType, RestartType DEF Next

LEMMA InitType ==
    Init => TypeOK /\ Addresses
  <1> SUFFICES ASSUME Init PROVE TypeOK /\ Addresses
    OBVIOUS
  <1>1. scope \in Scope
    BY ConstantTypes DEF Init
  <1>2. /\ scope.changes \in Nat /\ scope.disables \in Nat
        /\ scope.restarts \in Nat /\ scope.slips \in Nat
    BY <1>1 DEF Scope
  <1>3. spent \in Spent /\ interval \in 1..(scope.disables + 1)
    <2>1. 0 \in 0..scope.changes /\ 0 \in 0..scope.restarts /\ 0 \in 0..scope.slips
          /\ 1 \in 1..(scope.disables + 1)
      BY <1>2
    <2> QED
      BY <2>1 DEF Init, Spent
  <1>4. log \in [Types -> Seq(Event)]
    BY EmptySeq DEF Init
  <1>5. tasks \in [Tasks -> Task] /\ Addresses
    BY IdleType DEF Init, Addresses
  <1>6. snap \in Snap
    BY SnapTypes DEF Init
  <1>7. puts \in [Requests -> [pc : {"idle", "validate"}, want : BOOLEAN]]
    BY DEF Init, NoPut
  <1> QED
    BY <1>3, <1>4, <1>5, <1>6, <1>7 DEF Init, TypeOK, Spent

\* The snapshot, the change events and what the tasks keep of them have the types that the
\* schema and record_dns_snapshot() give them; so the address written back to the site is
\* one of the last check, for any number of tasks and requests at once.
THEOREM TypeCorrect ==
    Spec => []TypeOK
  <1>1. TypeOK /\ Addresses /\ [Next]_vars => TypeOK' /\ Addresses'
    BY NextType
  <1> QED
    BY <1>1, InitType, PTL DEF Spec

-----------------------------------------------------------------------------
(* What happens to the log.                                                 *)

LEMMA LogKept ==
    ASSUME TypeOK,
           \/ log' = log
           \/ \E ids : log' = Told(ids)
           \/ \E ids : log' = Marked(ids)
    PROVE  /\ Ids' = Ids
           /\ \A t \in Types : Len(log'[t]) = Len(log[t])
           /\ \A t \in Types : \A i \in 1..Len(log[t]) :
                /\ log'[t][i].from = log[t][i].from /\ log'[t][i].to = log[t][i].to
                /\ log'[t][i].new = log[t][i].new
  <1>1. ASSUME NEW t \in Types
        PROVE  /\ Len(log'[t]) = Len(log[t])
               /\ \A i \in 1..Len(log[t]) :
                    /\ log'[t][i].from = log[t][i].from /\ log'[t][i].to = log[t][i].to
                    /\ log'[t][i].new = log[t][i].new
    <2>1. ASSUME NEW ids, log' = Told(ids)
          PROVE  /\ Len(log'[t]) = Len(log[t])
                 /\ \A i \in 1..Len(log[t]) :
                      /\ log'[t][i].from = log[t][i].from /\ log'[t][i].to = log[t][i].to
                      /\ log'[t][i].new = log[t][i].new
      <3>1. /\ Len(Told(ids)[t]) = Len(log[t])
            /\ \A i \in 1..Len(log[t]) :
                 /\ Told(ids)[t][i].from = log[t][i].from
                 /\ Told(ids)[t][i].to = log[t][i].to
                 /\ Told(ids)[t][i].new = log[t][i].new
        BY ToldIs
      <3> QED
        BY <2>1, <3>1
    <2>2. ASSUME NEW ids, log' = Marked(ids)
          PROVE  /\ Len(log'[t]) = Len(log[t])
                 /\ \A i \in 1..Len(log[t]) :
                      /\ log'[t][i].from = log[t][i].from /\ log'[t][i].to = log[t][i].to
                      /\ log'[t][i].new = log[t][i].new
      <3>1. /\ Len(Marked(ids)[t]) = Len(log[t])
            /\ \A i \in 1..Len(log[t]) :
                 /\ Marked(ids)[t][i].from = log[t][i].from
                 /\ Marked(ids)[t][i].to = log[t][i].to
                 /\ Marked(ids)[t][i].new = log[t][i].new
        BY MarkedIs
      <3> QED
        BY <2>2, <3>1
    <2> QED
      BY <2>1, <2>2
  <1>2. Ids' = Ids
    BY <1>1 DEF Ids
  <1> QED
    BY <1>1, <1>2

\* An event of the log after Write(r) was there before, or is the one just written.
LEMMA LogWritten ==
    ASSUME TypeOK, NEW r \in Tasks, Write(r), NEW t \in Types, NEW i \in 1..Len(log'[t])
    PROVE  \/ i \in 1..Len(log[t]) /\ log'[t][i] = log[t][i]
           \/ /\ t \in Changed(tasks[r].row, tasks[r].got) /\ i = Len(log[t]) + 1
              /\ log'[t][i] = WrittenEvent(r, t)
  <1>1. log[t] \in Seq(Event) /\ Len(log[t]) \in Nat
    BY LogTypes
  <1>2. IF t \in Changed(tasks[r].row, tasks[r].got)
        THEN log'[t] = Append(log[t], WrittenEvent(r, t)) /\ WrittenEvent(r, t) \in Event
        ELSE log'[t] = log[t]
    BY WriteIs
  <1>3. CASE t \in Changed(tasks[r].row, tasks[r].got)
    <2> DEFINE e == WrittenEvent(r, t)
    <2>1. /\ Len(log'[t]) = Len(log[t]) + 1
          /\ \A j \in 1..Len(log[t]) : log'[t][j] = log[t][j]
          /\ log'[t][Len(log[t]) + 1] = e
      BY <1>1, <1>2, <1>3, AppendProperties
    <2>2. i \in 1..Len(log[t]) \/ i = Len(log[t]) + 1
      BY <1>1, <2>1
    <2> QED
      BY <1>3, <2>1, <2>2
  <1>4. CASE t \notin Changed(tasks[r].row, tasks[r].got)
    BY <1>2, <1>4
  <1> QED
    BY <1>3, <1>4

-----------------------------------------------------------------------------
(* Where a step takes its task.                                             *)

LEMMA TaskNext ==
    ASSUME TypeOK, NEW r \in Tasks, TaskStep(r)
    PROVE  /\ \A q \in Tasks \ {r} : tasks'[q] = tasks[q]
           /\ Start(r) => tasks'[r].pc \in {"check", "checkOnly"} /\ ~tasks'[r].sent
           /\ Checked(r) => /\ tasks'[r].pc \in {"idle", "look"}
                            /\ tasks'[r].sent => tasks[r].sent
           /\ CheckFailed(r) \/ SendFails(r) \/ Mark(r) \/ Fails(r)
              => tasks'[r].pc = "idle" /\ ~tasks'[r].sent
           /\ (\E failed : LookedUp(r, failed))
              => tasks'[r].pc = "recheck" /\ tasks'[r].sent = tasks[r].sent
           /\ Recheck(r)
              => \/ tasks'[r].pc = "read" /\ tasks'[r].sent = tasks[r].sent
                 \/ tasks'[r].pc = "list" /\ ~tasks'[r].sent
           /\ Read(r) => /\ tasks'[r].pc = "write" /\ tasks'[r].sent = tasks[r].sent
                         /\ tasks'[r].at = tasks[r].at /\ tasks'[r].row = snap
           /\ Write(r) \/ RecordFails(r) => tasks'[r].pc = "list" /\ ~tasks'[r].sent
           /\ List(r)
              => \/ /\ tasks'[r].pc \in {"send", "mark"} /\ tasks'[r].ids = Pending
                    /\ tasks'[r].sent = tasks[r].sent
                 \/ tasks'[r].pc = "idle" /\ ~tasks'[r].sent
           /\ Send(r) => /\ tasks'[r].pc = "mark" /\ tasks'[r].sent
                         /\ tasks'[r].ids = tasks[r].ids
  <1>1. tasks \in [Tasks -> Task] /\ tasks[r] \in Task
    BY DEF TypeOK
  <1>2. \A x : tasks' = [tasks EXCEPT ![r] = x]
              => tasks'[r] = x /\ \A q \in Tasks \ {r} : tasks'[q] = tasks[q]
    BY <1>1
  <1>3. ASSUME Start(r)
        PROVE  /\ \A q \in Tasks \ {r} : tasks'[q] = tasks[q]
               /\ tasks'[r].pc \in {"check", "checkOnly"} /\ ~tasks'[r].sent
    <2> DEFINE x == [Idle EXCEPT !.pc = IF enabled THEN "check" ELSE "checkOnly",
                                 !.at = interval]
    <2>1. x.pc \in {"check", "checkOnly"} /\ ~x.sent
      BY IdleType DEF Task
    <2>2. tasks' = [tasks EXCEPT ![r] = x]
      BY <1>3 DEF Start
    <2> HIDE DEF x
    <2> QED
      BY <1>2, <2>1, <2>2
  <1>4. ASSUME Checked(r)
        PROVE  /\ \A q \in Tasks \ {r} : tasks'[q] = tasks[q]
               /\ tasks'[r].pc \in {"idle", "look"} /\ (tasks'[r].sent => tasks[r].sent)
    <2> DEFINE x == IF tasks[r].pc = "checkOnly" THEN Idle
                    ELSE [tasks[r] EXCEPT !.pc = "look", !.got["IP"] = world["IP"],
                                          !.pref = pref]
    <2>1. x.pc \in {"idle", "look"} /\ (x.sent => tasks[r].sent)
      BY <1>1, IdleType DEF Task
    <2>2. tasks' = [tasks EXCEPT ![r] = x]
      BY <1>4 DEF Checked
    <2> HIDE DEF x
    <2> QED
      BY <1>2, <2>1, <2>2
  <1>5. ASSUME CheckFailed(r) \/ SendFails(r) \/ Mark(r) \/ Fails(r)
        PROVE  /\ \A q \in Tasks \ {r} : tasks'[q] = tasks[q]
               /\ tasks'[r].pc = "idle" /\ ~tasks'[r].sent
    <2>1. \E x \in {Idle, Failed} : tasks' = [tasks EXCEPT ![r] = x]
      BY <1>5 DEF CheckFailed, SendFails, Mark, Fails
    <2> QED
      BY <1>2, <2>1, IdleType
  <1>6. ASSUME NEW failed, LookedUp(r, failed)
        PROVE  /\ \A q \in Tasks \ {r} : tasks'[q] = tasks[q]
               /\ tasks'[r].pc = "recheck" /\ tasks'[r].sent = tasks[r].sent
    <2> DEFINE g == [t \in Types |-> IF t = "IP" THEN tasks[r].got[t]
                                     ELSE IF t \in failed THEN Null ELSE world[t]]
               x == [tasks[r] EXCEPT !.pc = "recheck", !.bad = failed # {}, !.got = g]
    <2>1. x.pc = "recheck" /\ x.sent = tasks[r].sent
      BY <1>1 DEF Task
    <2>2. tasks' = [tasks EXCEPT ![r] = x]
      BY <1>6 DEF LookedUp
    <2> HIDE DEF x
    <2> QED
      BY <1>2, <2>1, <2>2
  <1>7. ASSUME NEW b, ToList(r, b)
        PROVE  /\ \A q \in Tasks \ {r} : tasks'[q] = tasks[q]
               /\ tasks'[r].pc = "list" /\ ~tasks'[r].sent
    <2> DEFINE x == [Idle EXCEPT !.pc = "list", !.pref = tasks[r].pref, !.bad = b]
    <2>1. x.pc = "list" /\ ~x.sent
      BY IdleType DEF Task
    <2>2. tasks' = [tasks EXCEPT ![r] = x]
      BY <1>7 DEF ToList
    <2> HIDE DEF x
    <2> QED
      BY <1>2, <2>1, <2>2
  <1>8. ASSUME Recheck(r)
        PROVE  /\ \A q \in Tasks \ {r} : tasks'[q] = tasks[q]
               /\ \/ tasks'[r].pc = "read" /\ tasks'[r].sent = tasks[r].sent
                  \/ tasks'[r].pc = "list" /\ ~tasks'[r].sent
    <2> DEFINE x == [tasks[r] EXCEPT !.pc = "read"]
    <2>1. x.pc = "read" /\ x.sent = tasks[r].sent /\ x.at = tasks[r].at
      BY <1>1 DEF Task
    <2>2. tasks' = [tasks EXCEPT ![r] = x] \/ ToList(r, tasks[r].bad)
      BY <1>8 DEF Recheck, Goto
    <2> HIDE DEF x
    <2> QED
      BY <1>2, <1>7, <2>1, <2>2
  <1>9. ASSUME Read(r)
        PROVE  /\ \A q \in Tasks \ {r} : tasks'[q] = tasks[q]
               /\ tasks'[r].pc = "write" /\ tasks'[r].sent = tasks[r].sent
               /\ tasks'[r].at = tasks[r].at /\ tasks'[r].row = snap
    <2> DEFINE x == [tasks[r] EXCEPT !.pc = "write", !.row = snap]
    <2>1. /\ x.pc = "write" /\ x.sent = tasks[r].sent /\ x.at = tasks[r].at /\ x.row = snap
      BY <1>1 DEF Task
    <2>2. tasks' = [tasks EXCEPT ![r] = x]
      BY <1>9 DEF Read
    <2> HIDE DEF x
    <2> QED
      BY <1>2, <2>1, <2>2
  <1>10. ASSUME Write(r) \/ RecordFails(r)
         PROVE  /\ \A q \in Tasks \ {r} : tasks'[q] = tasks[q]
                /\ tasks'[r].pc = "list" /\ ~tasks'[r].sent
    <2>1. \E b : ToList(r, b)
      BY <1>10 DEF Write, RecordFails
    <2> QED
      BY <1>7, <2>1
  <1>11. ASSUME List(r)
         PROVE  /\ \A q \in Tasks \ {r} : tasks'[q] = tasks[q]
                /\ \/ /\ tasks'[r].pc \in {"send", "mark"} /\ tasks'[r].ids = Pending
                      /\ tasks'[r].sent = tasks[r].sent
                   \/ tasks'[r].pc = "idle" /\ ~tasks'[r].sent
    <2> DEFINE x == [tasks[r] EXCEPT !.pc = IF tasks[r].pref THEN "send" ELSE "mark",
                                     !.ids = Pending]
    <2>1. x.pc \in {"send", "mark"} /\ x.sent = tasks[r].sent /\ x.ids = Pending
      BY <1>1 DEF Task
    <2>2. tasks' = [tasks EXCEPT ![r] = x] \/ tasks' = [tasks EXCEPT ![r] = Idle]
      BY <1>11 DEF List
    <2> HIDE DEF x
    <2> QED
      BY <1>2, <2>1, <2>2, IdleType
  <1>12. ASSUME Send(r)
         PROVE  /\ \A q \in Tasks \ {r} : tasks'[q] = tasks[q]
                /\ tasks'[r].pc = "mark" /\ tasks'[r].sent /\ tasks'[r].ids = tasks[r].ids
    <2> DEFINE x == [tasks[r] EXCEPT !.pc = "mark", !.sent = TRUE]
    <2>1. x.pc = "mark" /\ x.sent /\ x.ids = tasks[r].ids
      BY <1>1 DEF Task
    <2>2. tasks' = [tasks EXCEPT ![r] = x]
      BY <1>12 DEF Send
    <2> HIDE DEF x
    <2> QED
      BY <1>2, <2>1, <2>2
  <1>13. \A q \in Tasks \ {r} : tasks'[q] = tasks[q]
    BY <1>3, <1>4, <1>5, <1>6, <1>8, <1>9, <1>10, <1>11, <1>12 DEF TaskStep
  <1> QED
    BY <1>3, <1>4, <1>5, <1>6, <1>8, <1>9, <1>10, <1>11, <1>12, <1>13

\* A run keeps the interval in which it began.
LEMMA TaskAt ==
    ASSUME TypeOK, NEW r \in Tasks, TaskStep(r)
    PROVE  tasks'[r].at \in {0, tasks[r].at, interval}
  <1>1. tasks \in [Tasks -> Task] /\ tasks[r] \in Task
    BY DEF TypeOK
  <1>2. ASSUME NEW x, tasks' = [tasks EXCEPT ![r] = x], x.at \in {0, tasks[r].at, interval}
        PROVE  tasks'[r].at \in {0, tasks[r].at, interval}
    BY <1>1, <1>2
  <1>3. CASE Start(r)
    <2> DEFINE x == [Idle EXCEPT !.pc = IF enabled THEN "check" ELSE "checkOnly",
                                 !.at = interval]
    <2>1. x.at = interval
      BY IdleType DEF Task
    <2>2. tasks' = [tasks EXCEPT ![r] = x]
      BY <1>3 DEF Start
    <2> HIDE DEF x
    <2> QED
      BY <1>2, <2>1, <2>2
  <1>4. CASE Checked(r)
    <2> DEFINE x == IF tasks[r].pc = "checkOnly" THEN Idle
                    ELSE [tasks[r] EXCEPT !.pc = "look", !.got["IP"] = world["IP"],
                                          !.pref = pref]
    <2>1. x.at \in {0, tasks[r].at}
      BY <1>1, IdleType DEF Task
    <2>2. tasks' = [tasks EXCEPT ![r] = x]
      BY <1>4 DEF Checked
    <2> HIDE DEF x
    <2> QED
      BY <1>2, <2>1, <2>2
  <1>5. CASE CheckFailed(r) \/ SendFails(r) \/ Mark(r) \/ Fails(r)
    <2>1. \E x \in {Idle, Failed} : tasks' = [tasks EXCEPT ![r] = x]
      BY <1>5 DEF CheckFailed, SendFails, Mark, Fails
    <2> QED
      BY <1>2, <2>1, IdleType
  <1>6. ASSUME NEW failed, LookedUp(r, failed)
        PROVE  tasks'[r].at \in {0, tasks[r].at, interval}
    <2> DEFINE g == [t \in Types |-> IF t = "IP" THEN tasks[r].got[t]
                                     ELSE IF t \in failed THEN Null ELSE world[t]]
               x == [tasks[r] EXCEPT !.pc = "recheck", !.bad = failed # {}, !.got = g]
    <2>1. x.at = tasks[r].at
      BY <1>1 DEF Task
    <2>2. tasks' = [tasks EXCEPT ![r] = x]
      BY <1>6 DEF LookedUp
    <2> HIDE DEF x
    <2> QED
      BY <1>2, <2>1, <2>2
  <1>7. ASSUME NEW b, ToList(r, b) PROVE tasks'[r].at \in {0, tasks[r].at, interval}
    <2> DEFINE x == [Idle EXCEPT !.pc = "list", !.pref = tasks[r].pref, !.bad = b]
    <2>1. x.at = 0
      BY IdleType DEF Task
    <2>2. tasks' = [tasks EXCEPT ![r] = x]
      BY <1>7 DEF ToList
    <2> HIDE DEF x
    <2> QED
      BY <1>2, <2>1, <2>2
  <1>8. CASE Write(r) \/ RecordFails(r)
    <2>1. \E b : ToList(r, b)
      BY <1>8 DEF Write, RecordFails
    <2> QED
      BY <1>7, <2>1
  <1>9. CASE Recheck(r) \/ Read(r) \/ Send(r) \/ List(r)
    <2>1. /\ [tasks[r] EXCEPT !.pc = "read"].at = tasks[r].at
          /\ [tasks[r] EXCEPT !.pc = "write", !.row = snap].at = tasks[r].at
          /\ [tasks[r] EXCEPT !.pc = "mark", !.sent = TRUE].at = tasks[r].at
          /\ [tasks[r] EXCEPT !.pc = IF tasks[r].pref THEN "send" ELSE "mark",
                              !.ids = Pending].at = tasks[r].at
      BY <1>1 DEF Task
    <2>2. CASE Recheck(r)
      BY <1>2, <1>7, <2>1, <2>2 DEF Recheck, Goto
    <2>3. CASE Read(r)
      BY <1>2, <2>1, <2>3 DEF Read
    <2>4. CASE Send(r)
      BY <1>2, <2>1, <2>4 DEF Send
    <2>5. CASE List(r)
      <3>1. \/ tasks' = [tasks EXCEPT ![r] = Idle]
            \/ tasks' = [tasks EXCEPT ![r] =
                 [tasks[r] EXCEPT !.pc = IF tasks[r].pref THEN "send" ELSE "mark",
                                  !.ids = Pending]]
        BY <2>5 DEF List
      <3> QED
        BY <1>2, <2>1, <3>1, IdleType
    <2> QED
      BY <1>9, <2>2, <2>3, <2>4, <2>5
  <1> QED
    BY <1>3, <1>4, <1>5, <1>6, <1>8, <1>9 DEF TaskStep

-----------------------------------------------------------------------------
(* What the site and its snapshot hold before the first record.             *)

\* A row that is not there is the one that NoSnap describes.
Unseen == ~snap.there => snap = NoSnap

LEMMA UnseenStays ==
    ASSUME TypeOK, Unseen, [Next]_vars
    PROVE  Unseen'
  <1>1. ASSUME NEW r \in Tasks, Write(r) PROVE Unseen'
    <2>1. CASE snap' = Updated(tasks[r].row, tasks[r].got, tasks[r].at)
      BY <2>1 DEF Updated, Unseen
    <2>2. CASE snap' = snap
      BY <2>2 DEF Unseen
    <2> QED
      BY <1>1, <2>1, <2>2, WriteIs
  <1>2. ASSUME NEW r \in Tasks, TaskStep(r), ~Write(r) PROVE Unseen'
    <2>1. snap' = snap
      BY <1>2 DEF TaskStep, Start, Checked, CheckFailed, LookedUp, Recheck, Read,
         RecordFails, List, Send, SendFails, Mark, Fails
    <2> QED
      BY <2>1 DEF Unseen
  <1>3. ASSUME NEW p \in Requests, Save(p) PROVE Unseen'
    <2>1. snap' = snap \/ (snap.there /\ snap' = [snap EXCEPT !.base = TRUE])
      BY <1>3 DEF Save
    <2>2. CASE snap' = snap
      BY <2>2 DEF Unseen
    <2>3. CASE snap.there /\ snap' = [snap EXCEPT !.base = TRUE]
      BY <2>3, SpentIs DEF Unseen, Snap
    <2> QED
      BY <2>1, <2>2, <2>3
  <1>4. CASE Restart
    <2>1. CASE snap' = snap
      BY <2>1 DEF Unseen
    <2>2. CASE ip \in Records /\ snap' = Seeded
      BY <2>2, SeededIs DEF Unseen
    <2> QED
      BY <1>4, <2>1, <2>2, RestartIs
  <1>5. ASSUME UNCHANGED snap PROVE Unseen'
    BY <1>5 DEF Unseen
  <1> QED
    BY <1>1, <1>2, <1>3, <1>4, <1>5
       DEF Next, vars, Put, Refuse, SetPref, DnsChanges

-----------------------------------------------------------------------------
(* A change lies within one interval of enabled monitoring.                 *)

\* What is compared with this row was found in this interval, or is not compared.
SinceOK(s) == s.base \/ \A t \in Types : s.since[t] \in {0, interval}

Spans == \A t \in Types : \A i \in 1..Len(log[t]) : log[t][i].from \in {0, log[t][i].to}

\* A run of this interval that is about to write has read the row in this interval.
RowOK(r) == tasks[r].pc = "write" /\ tasks[r].at = interval => SinceOK(tasks[r].row)

\* No run begins in an interval to come.
Begun == \A r \in Tasks : tasks[r].at <= interval

Intervals == ~torn => SinceOK(snap) /\ Spans /\ \A r \in Tasks : RowOK(r)

\* The snapshot and the events stay as they are, and no task comes to
\* the write.
LEMMA QuietIntervals ==
    ASSUME TypeOK, Intervals, UNCHANGED <<interval, torn, snap>>,
           \/ log' = log
           \/ \E ids : log' = Told(ids)
           \/ \E ids : log' = Marked(ids),
           \A q \in Tasks : tasks'[q] = tasks[q] \/ tasks'[q].pc # "write"
    PROVE  Intervals'
  <1> SUFFICES ASSUME ~torn PROVE SinceOK(snap)' /\ Spans' /\ \A q \in Tasks : RowOK(q)'
    BY DEF Intervals
  <1>1. SinceOK(snap)'
    BY DEF Intervals, SinceOK
  <1>2. Spans'
    BY LogKept DEF Intervals, Spans
  <1>3. ASSUME NEW q \in Tasks PROVE RowOK(q)'
    BY DEF Intervals, RowOK, SinceOK
  <1> QED
    BY <1>1, <1>2, <1>3

LEMMA ReadIntervals ==
    ASSUME TypeOK, Intervals, NEW r \in Tasks, Read(r)
    PROVE  Intervals'
  <1>1. UNCHANGED <<interval, torn, snap, log>> /\ tasks[r].pc = "read"
    BY DEF Read, Rest
  <1>2. /\ \A q \in Tasks \ {r} : tasks'[q] = tasks[q]
        /\ tasks'[r].pc = "write" /\ tasks'[r].at = tasks[r].at /\ tasks'[r].row = snap
    BY TaskNext DEF TaskStep
  <1> SUFFICES ASSUME ~torn PROVE SinceOK(snap)' /\ Spans' /\ \A q \in Tasks : RowOK(q)'
    BY <1>1 DEF Intervals
  <1>3. SinceOK(snap)' /\ Spans'
    BY <1>1 DEF Intervals, SinceOK, Spans
  <1>4. RowOK(r)'
    BY <1>1, <1>2 DEF Intervals, RowOK, SinceOK
  <1>5. \A q \in Tasks \ {r} : RowOK(q)'
    BY <1>1, <1>2 DEF Intervals, RowOK, SinceOK
  <1> QED
    BY <1>3, <1>4, <1>5

LEMMA WriteIntervals ==
    ASSUME TypeOK, Intervals, NEW r \in Tasks, Write(r)
    PROVE  Intervals'
  <1> DEFINE row == tasks[r].row
             got == tasks[r].got
  <1>1. /\ interval' = interval /\ torn' = (torn \/ tasks[r].at # interval)
        /\ tasks[r].pc = "write" /\ snap' \in {snap, Updated(row, got, tasks[r].at)}
    BY WriteIs DEF Rested
  <1>2. tasks'[r].pc = "list" /\ \A q \in Tasks \ {r} : tasks'[q] = tasks[q]
    BY TaskNext DEF TaskStep
  <1>3. row \in Snap /\ got \in [Types -> Value] /\ tasks[r].at \in Nat
    BY TaskIs
  <1> SUFFICES ASSUME ~torn, tasks[r].at = interval
               PROVE  SinceOK(snap)' /\ Spans' /\ \A q \in Tasks : RowOK(q)'
    BY <1>1 DEF Intervals
  <1>4. tasks[r].at = interval /\ SinceOK(row) /\ SinceOK(snap)
    BY <1>1 DEF Intervals, RowOK
  <1>5. SinceOK(Updated(row, got, tasks[r].at))
    <2> DEFINE n == tasks[r].at
               u == Updated(row, got, n)
    <2>1. u.base = (row.base /\ Incomplete(got))
      BY DEF Updated
    <2>2. \A t \in Types : u.since[t] = IF got[t] = Null THEN row.since[t] ELSE interval
      BY <1>4 DEF Updated, Since
    <2> HIDE DEF row, got, n, u
    <2>3. SinceOK(u)
      BY <1>4, <2>1, <2>2 DEF SinceOK, Incomplete
    <2> QED
      BY <2>3 DEF u, n
  <1>6. SinceOK(snap)'
    BY <1>1, <1>4, <1>5 DEF SinceOK
  <1>7. Spans'
    <2> SUFFICES ASSUME NEW t \in Types, NEW i \in 1..Len(log'[t])
                 PROVE  log'[t][i].from \in {0, log'[t][i].to}
      BY DEF Spans
    <2>1. CASE i \in 1..Len(log[t]) /\ log'[t][i] = log[t][i]
      BY <2>1 DEF Intervals, Spans
    <2>2. CASE t \in Changed(row, got) /\ log'[t][i] = WrittenEvent(r, t)
      <3>1. ~row.base
        BY <2>2 DEF Changed
      <3>2. row.since[t] \in {0, tasks[r].at}
        BY <1>4, <3>1 DEF SinceOK
      <3> QED
        BY <2>2, <3>2 DEF WrittenEvent
    <2> QED
      BY <2>1, <2>2, LogWritten
  <1>8. \A q \in Tasks : RowOK(q)'
    BY <1>1, <1>2 DEF Intervals, RowOK, SinceOK
  <1> QED
    BY <1>6, <1>7, <1>8

\* "disabled" starts a new interval, with a new baseline, and no run of it has begun.
LEMMA SaveIntervals ==
    ASSUME TypeOK, Unseen, Begun, Intervals, NEW p \in Requests, Save(p)
    PROVE  Intervals'
  <1>1. /\ tasks' = tasks /\ torn' = torn
        /\ log' = log \/ log' = Marked(Pending)
        /\ \/ interval' = interval /\ snap' = snap
           \/ /\ interval' = interval + 1
              /\ snap' = IF ~snap.there THEN snap ELSE [snap EXCEPT !.base = TRUE]
    BY DEF Save
  <1> SUFFICES ASSUME ~torn PROVE SinceOK(snap)' /\ Spans' /\ \A q \in Tasks : RowOK(q)'
    BY <1>1 DEF Intervals
  <1>2. SinceOK(snap)'
    <2>1. CASE interval' = interval /\ snap' = snap
      BY <2>1 DEF Intervals, SinceOK
    <2>2. CASE ~snap.there /\ snap' = snap
      BY <2>2, SnapTypes DEF Unseen, SinceOK
    <2>3. CASE snap' = [snap EXCEPT !.base = TRUE]
      BY <2>3, SpentIs DEF SinceOK, Snap
    <2> QED
      BY <1>1, <2>1, <2>2, <2>3
  <1>3. Spans'
    BY <1>1, LogKept DEF Intervals, Spans
  <1>4. ASSUME NEW q \in Tasks PROVE RowOK(q)'
    <2>1. CASE interval' = interval
      BY <1>1, <2>1 DEF Intervals, RowOK, SinceOK
    <2>2. CASE interval' = interval + 1
      <3>1. tasks[q].at <= interval /\ tasks[q].at \in Nat /\ interval \in Nat
        BY TaskIs, ScopeTypes DEF Begun
      <3>2. tasks[q].at # interval'
        BY <2>2, <3>1
      <3> QED
        BY <1>1, <3>2 DEF RowOK
    <2> QED
      BY <1>1, <2>1, <2>2
  <1> QED
    BY <1>2, <1>3, <1>4

LEMMA BegunStays ==
    ASSUME TypeOK, Begun, [Next]_vars
    PROVE  Begun'
  <1>1. interval \in Nat /\ \A q \in Tasks : tasks[q].at \in Nat /\ tasks[q].at <= interval
    BY TaskIs, ScopeTypes DEF Begun
  <1>2. ASSUME tasks' = tasks, interval' \in {interval, interval + 1} PROVE Begun'
    BY <1>1, <1>2 DEF Begun
  <1>3. ASSUME NEW r \in Tasks, TaskStep(r) PROVE Begun'
    <2>1. interval' = interval
      BY <1>3 DEF TaskStep, Start, Checked, CheckFailed, Recheck, Read, Write, LookedUp,
         RecordFails, List, Send, SendFails, Mark, Fails, Rest
    <2>2. \A q \in Tasks \ {r} : tasks'[q] = tasks[q]
      BY <1>3, TaskNext
    <2>3. tasks'[r].at \in {0, tasks[r].at, interval}
      BY <1>3, TaskAt
    <2>4. tasks'[r].at <= interval
      BY <1>1, <2>3
    <2> QED
      BY <1>1, <2>1, <2>2, <2>4 DEF Begun
  <1>4. CASE Restart
    <2>1. interval' = interval /\ \A q \in Tasks : tasks'[q].at = 0
      BY <1>4, RestartIs, IdleType DEF Restart
    <2> QED
      BY <1>1, <2>1 DEF Begun
  <1>5. ASSUME NEW p \in Requests, Put(p) \/ Save(p) \/ Refuse(p) PROVE Begun'
    BY <1>2, <1>5 DEF Put, Save, Refuse
  <1>6. CASE UNCHANGED vars \/ SetPref \/ \E t \in Types : DnsChanges(t)
    BY <1>2, <1>6 DEF vars, SetPref, DnsChanges
  <1> QED
    BY <1>3, <1>4, <1>5, <1>6 DEF Next

LEMMA RestartIntervals ==
    ASSUME TypeOK, Intervals, Restart
    PROVE  Intervals'
  <1>1. UNCHANGED <<interval, torn, log>> /\ \A q \in Tasks : tasks'[q].pc = "idle"
    BY RestartIs, IdleType DEF Restart
  <1>2. CASE snap' = snap
    BY <1>1, <1>2, QuietIntervals
  <1>3. CASE ip \in Records /\ snap' = Seeded
    <2>1. SinceOK(snap)'
      BY <1>3, SeededIs DEF SinceOK
    <2>2. Spans' <=> Spans
      BY <1>1 DEF Spans
    <2>3. \A q \in Tasks : RowOK(q)'
      BY <1>1 DEF RowOK
    <2> QED
      BY <1>1, <2>1, <2>2, <2>3 DEF Intervals
  <1> QED
    BY <1>2, <1>3, RestartIs

LEMMA NextIntervals ==
    ASSUME TypeOK, Unseen, Begun, Intervals, [Next]_vars
    PROVE  Intervals'
  <1>1. CASE UNCHANGED vars
    BY <1>1, QuietIntervals DEF vars
  <1>2. ASSUME NEW r \in Tasks,
               \/ Start(r) \/ Checked(r) \/ CheckFailed(r) \/ Recheck(r) \/ RecordFails(r)
               \/ List(r) \/ Send(r) \/ SendFails(r) \/ Mark(r) \/ Fails(r)
               \/ \E failed \in SUBSET (Types \ {"IP"}) : LookedUp(r, failed)
        PROVE  Intervals'
    <2>1. UNCHANGED <<interval, torn, snap>>
      BY <1>2 DEF Start, Checked, CheckFailed, Recheck, RecordFails, List, Send, SendFails,
         Mark, Fails, LookedUp, Rest
    <2>2. \/ log' = log
          \/ \E ids : log' = Told(ids)
          \/ \E ids : log' = Marked(ids)
      BY <1>2 DEF Start, Checked, CheckFailed, Recheck, RecordFails, List, Send, SendFails,
         Mark, Fails, LookedUp
    <2>3. \A q \in Tasks : tasks'[q] = tasks[q] \/ tasks'[q].pc # "write"
      <3>1. TaskStep(r)
        BY <1>2 DEF TaskStep
      <3> QED
        BY <1>2, <3>1, TaskNext
    <2> QED
      BY <2>1, <2>2, <2>3, QuietIntervals
  <1>3. ASSUME NEW r \in Tasks, TaskStep(r) PROVE Intervals'
    BY <1>2, <1>3, ReadIntervals, WriteIntervals DEF TaskStep
  <1>4. ASSUME NEW p \in Requests, Put(p) \/ Refuse(p) PROVE Intervals'
    BY <1>4, QuietIntervals DEF Put, Refuse
  <1>5. ASSUME SetPref \/ \E t \in Types : DnsChanges(t) PROVE Intervals'
    BY <1>5, QuietIntervals DEF SetPref, DnsChanges
  <1> QED
    BY <1>1, <1>3, <1>4, <1>5, SaveIntervals, RestartIntervals DEF Next

LEMMA InitLog ==
    ASSUME Init
    PROVE  Unseen /\ Ids = {} /\ \A t \in Types : Len(log[t]) = 0
  <1>1. \A t \in Types : log[t] = <<>> /\ Len(log[t]) = 0
    BY EmptySeq DEF Init
  <1>2. Ids = {}
    BY <1>1 DEF Ids
  <1> QED
    BY <1>1, <1>2 DEF Init, Unseen

\* A change is reported between two values that were looked up in the same enabled
\* interval, however many tasks work on the site and whatever fails (record_dns_snapshot(),
\* set_site_check_settings()): what was found before monitoring was disabled is never
\* compared with what is found after, as long as no run that began before "disabled" was
\* saved has recorded its lookups after it.
THEOREM WithinOneInterval ==
    Spec => []SameInterval
  <1>1. Init => Intervals /\ Begun
    <2> SUFFICES ASSUME Init PROVE Intervals /\ Begun
      OBVIOUS
    <2>1. interval = 1 /\ snap = NoSnap /\ \A q \in Tasks : tasks[q] = Idle
      BY DEF Init
    <2>2. Intervals
      BY <2>1, InitLog, IdleType, SnapTypes DEF Intervals, Spans, RowOK, SinceOK
    <2>3. Begun
      BY <2>1, IdleType DEF Begun
    <2> QED
      BY <2>2, <2>3
  <1>2. Init => Unseen
    BY InitLog
  <1>3. TypeOK /\ Addresses /\ Unseen /\ Begun /\ Intervals /\ [Next]_vars
          => TypeOK' /\ Addresses' /\ Unseen' /\ Begun' /\ Intervals'
    BY NextType, UnseenStays, BegunStays, NextIntervals
  <1>4. Intervals => SameInterval
    BY IdsAre DEF Intervals, Spans, SameInterval, Events
  <1> QED
    BY <1>1, <1>2, <1>3, <1>4, InitType, PTL DEF Spec

-----------------------------------------------------------------------------
(* No change is lost, with one task on the site.                            *)

\* One task works on the site at a time: MONITOR_MAX_INSTANCES is 1, its default, and no
\* run was abandoned.
OneTask == \A r, q \in Tasks : r = q

\* From the first value over the events one comes to the snapshot.
Kept(t) ==
    /\ snap.first[t][2] <= Len(log[t])
    /\ snap.v[t] = IF Len(log[t]) > snap.first[t][2] THEN log[t][Len(log[t])].new
                   ELSE snap.first[t][1]

\* The row that a task is about to write from is the snapshot, up to the mark of a baseline.
RowCurrent ==
    \A r \in Tasks : tasks[r].pc = "write" =>
        /\ tasks[r].row.there = snap.there
        /\ tasks[r].row.v = snap.v /\ tasks[r].row.first = snap.first

Changes == RowCurrent /\ \A t \in Types : Kept(t)

LEMMA SnapFirst ==
    ASSUME TypeOK, NEW t \in Types
    PROVE  snap.first[t][2] \in Nat /\ snap.first[t][1] \in Value /\ snap.v[t] \in Value
  <1>1. snap.first \in [Types -> Value \X Nat] /\ snap.v \in [Types -> Value]
    BY SpentIs DEF Snap
  <1> QED
    BY <1>1

LEMMA QuietChanges ==
    ASSUME TypeOK, Changes,
           snap'.there = snap.there, snap'.v = snap.v, snap'.first = snap.first,
           \/ log' = log
           \/ \E ids : log' = Told(ids)
           \/ \E ids : log' = Marked(ids),
           \A q \in Tasks : tasks'[q] = tasks[q] \/ tasks'[q].pc # "write"
    PROVE  Changes'
  <1>1. RowCurrent'
    BY DEF Changes, RowCurrent
  <1>2. ASSUME NEW t \in Types PROVE Kept(t)'
    <2>1. /\ Len(log'[t]) = Len(log[t])
          /\ \A i \in 1..Len(log[t]) : log'[t][i].new = log[t][i].new
      BY LogKept
    <2>2. Len(log[t]) \in Nat /\ snap.first[t][2] \in Nat /\ Kept(t)
      BY LogTypes, SnapFirst DEF Changes
    <2>3. Len(log[t]) > snap.first[t][2] => Len(log[t]) \in 1..Len(log[t])
      BY <2>2
    <2> QED
      BY <2>1, <2>2, <2>3 DEF Kept
  <1> QED
    BY <1>1, <1>2 DEF Changes

LEMMA ReadChanges ==
    ASSUME TypeOK, Changes, NEW r \in Tasks, Read(r)
    PROVE  Changes'
  <1>1. snap' = snap /\ log' = log
    BY DEF Read
  <1>2. /\ \A q \in Tasks \ {r} : tasks'[q] = tasks[q]
        /\ tasks'[r].row = snap
    BY TaskNext DEF TaskStep
  <1>3. RowCurrent'
    BY <1>1, <1>2 DEF Changes, RowCurrent
  <1> QED
    BY <1>1, <1>3 DEF Changes, Kept

LEMMA WriteChanges ==
    ASSUME TypeOK, OneTask, Changes, NEW r \in Tasks, Write(r)
    PROVE  Changes'
  <1> DEFINE row == tasks[r].row
             got == tasks[r].got
             new == Updated(row, got, tasks[r].at)
  <1>1. /\ row.there = snap.there /\ row.v = snap.v /\ row.first = snap.first
        /\ snap' = new
    BY WriteIs DEF Changes, RowCurrent
  <1>2. RowCurrent'
    BY TaskNext DEF TaskStep, OneTask, RowCurrent
  <1>3. ASSUME NEW t \in Types PROVE Kept(t)'
    <2> DEFINE e == WrittenEvent(r, t)
               n == Len(log[t])
    <2>1. /\ new.v[t] = IF got[t] = Null THEN snap.v[t] ELSE got[t]
          /\ new.first[t] = IF got[t] # Null /\ (row.base \/ snap.v[t] = Null)
                            THEN <<got[t], n>> ELSE snap.first[t]
      BY <1>1 DEF Updated, Merged, First
    <2>2. n \in Nat /\ snap.first[t][2] \in Nat /\ Kept(t)
      BY LogTypes, SnapFirst DEF Changes
    <2>3. e.new = got[t]
      BY DEF WrittenEvent
    <2>4. t \in Changed(row, got)
          <=> ~row.base /\ got[t] # Null /\ snap.v[t] # Null /\ got[t] # snap.v[t]
      BY <1>1 DEF Changed
    <2>5. CASE t \in Changed(row, got)
      <3>1. /\ log'[t] = Append(log[t], e) /\ e \in Event /\ log[t] \in Seq(Event)
        BY <2>5, WriteIs, LogTypes
      <3>2. Len(log'[t]) = n + 1 /\ log'[t][n + 1] = e
        BY <3>1, AppendProperties
      <3>3. new.v[t] = got[t] /\ new.first[t] = snap.first[t]
        BY <2>1, <2>4, <2>5
      <3> HIDE DEF e, n, new
      <3> QED
        BY <1>1, <2>2, <2>3, <3>2, <3>3 DEF Kept, n
    <2>6. CASE t \notin Changed(row, got)
      <3>1. log'[t] = log[t]
        BY <2>6, WriteIs
      <3> HIDE DEF new
      <3>2. CASE got[t] # Null /\ (row.base \/ snap.v[t] = Null)
        BY <1>1, <2>1, <2>2, <3>1, <3>2 DEF Kept
      <3>3. CASE ~(got[t] # Null /\ (row.base \/ snap.v[t] = Null))
        <4>1. new.v[t] = snap.v[t] /\ new.first[t] = snap.first[t]
          BY <2>1, <2>4, <2>6, <3>3
        <4> QED
          BY <1>1, <2>2, <3>1, <4>1 DEF Kept
      <3> QED
        BY <3>2, <3>3
    <2> QED
      BY <2>5, <2>6
  <1> QED
    BY <1>2, <1>3 DEF Changes

LEMMA SaveChanges ==
    ASSUME TypeOK, Changes, NEW p \in Requests, Save(p)
    PROVE  Changes'
  <1>1. snap' = snap \/ snap' = [snap EXCEPT !.base = TRUE]
    BY DEF Save
  <1>2. snap'.there = snap.there /\ snap'.v = snap.v /\ snap'.first = snap.first
    BY <1>1, SpentIs DEF Snap
  <1>3. tasks' = tasks /\ (log' = log \/ log' = Marked(Pending))
    BY DEF Save
  <1> QED
    BY <1>2, <1>3, QuietChanges

\* The migration only finds sites whose log is empty.
LEMMA RestartChanges ==
    ASSUME TypeOK, Unseen, Changes, Restart
    PROVE  Changes'
  <1>1. log' = log /\ \A q \in Tasks : tasks'[q].pc = "idle"
    BY RestartIs, IdleType
  <1>2. CASE snap' = snap
    BY <1>1, <1>2, QuietChanges
  <1>3. CASE ~snap.there /\ ip \in Records /\ snap' = Seeded
    <2>1. RowCurrent'
      BY <1>1 DEF RowCurrent
    <2>2. ASSUME NEW t \in Types PROVE Kept(t)'
      <3>1. snap.v[t] = Null /\ snap.first[t] = <<Null, 0>>
        BY <1>3, SnapTypes DEF Unseen
      <3>2. Len(log[t]) \in Nat /\ Kept(t)
        BY LogTypes DEF Changes
      <3>3. Len(log[t]) = 0
        <4>1. SUFFICES ASSUME Len(log[t]) # 0 PROVE FALSE
          OBVIOUS
        <4>2. log[t][Len(log[t])].new = Null
          BY <3>1, <3>2, <4>1 DEF Kept
        <4>3. log[t][Len(log[t])] \in Event
          BY <3>2, <4>1, LogTypes
        <4> QED
          BY <4>2, <4>3, ConstantTypes DEF Event
      <3>4. snap'.v[t] = snap'.first[t][1] /\ snap'.first[t][2] = 0
        BY <1>3, SeededIs
      <3> QED
        BY <1>1, <3>3, <3>4 DEF Kept
    <2> QED
      BY <2>1, <2>2 DEF Changes
  <1> QED
    BY <1>2, <1>3, RestartIs

LEMMA NextChanges ==
    ASSUME TypeOK, OneTask, Unseen, Changes, [Next]_vars
    PROVE  Changes'
  <1>1. CASE UNCHANGED vars
    BY <1>1, QuietChanges DEF vars
  <1>2. ASSUME NEW r \in Tasks, TaskStep(r), ~Read(r), ~Write(r) PROVE Changes'
    <2>1. snap' = snap
      BY <1>2 DEF TaskStep, Start, Checked, CheckFailed, LookedUp, Recheck,
         RecordFails, List, Send, SendFails, Mark, Fails
    <2>2. \/ log' = log
          \/ \E ids : log' = Told(ids)
          \/ \E ids : log' = Marked(ids)
      BY <1>2 DEF TaskStep, Start, Checked, CheckFailed, LookedUp, Recheck,
         RecordFails, List, Send, SendFails, Mark, Fails
    <2>3. \A q \in Tasks \ {r} : tasks'[q] = tasks[q]
      BY <1>2, TaskNext
    <2>4. tasks'[r].pc # "write"
      BY <1>2, TaskNext DEF TaskStep
    <2> QED
      BY <2>1, <2>2, <2>3, <2>4, QuietChanges
  <1>3. ASSUME NEW p \in Requests, Put(p) \/ Refuse(p) PROVE Changes'
    BY <1>3, QuietChanges DEF Put, Refuse
  <1>4. ASSUME SetPref \/ \E t \in Types : DnsChanges(t) PROVE Changes'
    BY <1>4, QuietChanges DEF SetPref, DnsChanges
  <1> QED
    BY <1>1, <1>2, <1>3, <1>4, ReadChanges, WriteChanges, SaveChanges, RestartChanges
       DEF Next

\* No change of the DNS gets lost: with one task on the site, the first value of a baseline
\* and the events after it lead to the snapshot, although the task works on a copy of the
\* row whose lock is gone at the fetch, a lookup may fail for one type only, and a restart
\* seeds a snapshot (record_dns_snapshot()).
THEOREM ChangesKept ==
    ASSUME OneTask
    PROVE  Spec => []NoChangeLost
  <1>1. Init => Changes
    BY InitLog, IdleType, SnapTypes DEF Init, Changes, RowCurrent, Kept
  <1>2. Init => Unseen
    BY InitLog
  <1>3. TypeOK /\ Addresses /\ Unseen /\ Changes /\ [Next]_vars
          => TypeOK' /\ Addresses' /\ Unseen' /\ Changes'
    BY NextType, UnseenStays, NextChanges
  <1>4. Changes => NoChangeLost
    BY DEF Changes, Kept, NoChangeLost
  <1> QED
    BY <1>1, <1>2, <1>3, <1>4, InitType, PTL DEF Spec

-----------------------------------------------------------------------------
(* A change is told once, with one task on the site.                        *)

\* A task that has sent is about to record it.
SentOK == \A r \in Tasks : tasks[r].sent => tasks[r].pc = "mark"

LEMMA SentStays ==
    ASSUME TypeOK, SentOK, [Next]_vars
    PROVE  SentOK'
  <1>1. ASSUME NEW r \in Tasks, TaskStep(r) PROVE SentOK'
    <2>1. \A q \in Tasks \ {r} : tasks'[q] = tasks[q]
      BY <1>1, TaskNext
    <2>2. tasks[r].pc # "mark" => ~tasks[r].sent
      BY DEF SentOK
    <2>3. tasks'[r].sent => tasks'[r].pc = "mark"
      <3>1. CASE Start(r) \/ Checked(r) \/ Send(r) \/ Write(r) \/ RecordFails(r)
        BY <1>1, <2>2, <3>1, TaskNext DEF Checked
      <3>2. CASE CheckFailed(r) \/ SendFails(r) \/ Mark(r) \/ Fails(r)
        BY <1>1, <3>2, TaskNext
      <3>3. CASE \E failed \in SUBSET (Types \ {"IP"}) : LookedUp(r, failed)
        BY <1>1, <2>2, <3>3, TaskNext DEF LookedUp
      <3>4. CASE Recheck(r) \/ Read(r)
        BY <1>1, <2>2, <3>4, TaskNext DEF Recheck, Read
      <3>5. CASE List(r)
        BY <1>1, <2>2, <3>5, TaskNext DEF List
      <3> QED
        BY <1>1, <3>1, <3>2, <3>3, <3>4, <3>5 DEF TaskStep
    <2> QED
      BY <2>1, <2>3 DEF SentOK
  <1>2. ASSUME tasks' = tasks PROVE SentOK'
    BY <1>2 DEF SentOK
  <1>3. CASE Restart
    BY <1>3, RestartIs, IdleType DEF SentOK
  <1> QED
    BY <1>1, <1>2, <1>3 DEF Next, vars, Put, Save, Refuse, SetPref, DnsChanges

\* A message of task r names event i of type t, or is about to.
Sends(r, t, i) == tasks[r].pc = "send" /\ <<t, i>> \in tasks[r].ids
HasSent(r, t, i) == tasks[r].sent /\ <<t, i>> \in tasks[r].ids

\* What the owner has read of an event is paid for by slips, but for one message, after
\* which the event is recorded as told, or about to be, and in no message to come.
Paid(t, i) ==
    \/ log[t][i].told <= spent.slips
    \/ /\ log[t][i].told <= spent.slips + 1
       /\ \A r \in Tasks : ~Sends(r, t, i)
       /\ log[t][i].notified \/ \E r \in Tasks : HasSent(r, t, i)

AllPaid == \A t \in Types : \A i \in 1..Len(log[t]) : Paid(t, i)

LEMMA EventIs ==
    ASSUME TypeOK, NEW t \in Types, NEW i \in 1..Len(log[t])
    PROVE  log[t][i].told \in Nat /\ log[t][i].notified \in BOOLEAN
  <1>1. log[t][i] \in Event
    BY LogTypes
  <1> QED
    BY <1>1 DEF Event

\* The events are told no more than before, and no task begins or ends to send.
LEMMA QuietPaid ==
    ASSUME TypeOK, AllPaid, spent'.slips = spent.slips,
           log' = log \/ \E ids : log' = Marked(ids),
           \A q \in Tasks : \/ tasks'[q] = tasks[q]
                            \/ tasks'[q].pc # "send" /\ ~tasks[q].sent
    PROVE  AllPaid'
  <1> SUFFICES ASSUME NEW t \in Types, NEW i \in 1..Len(log'[t]) PROVE Paid(t, i)'
    BY DEF AllPaid
  <1>1. /\ i \in 1..Len(log[t]) /\ log'[t][i].told = log[t][i].told
        /\ log[t][i].notified => log'[t][i].notified
    <2>1. CASE log' = log
      BY <2>1
    <2>2. ASSUME NEW ids, log' = Marked(ids)
          PROVE  /\ i \in 1..Len(log[t]) /\ log'[t][i].told = log[t][i].told
                 /\ log[t][i].notified => log'[t][i].notified
      <3>1. i \in 1..Len(log[t])
        BY <2>2, MarkedIs
      <3>2. /\ Marked(ids)[t][i].told = log[t][i].told
            /\ log[t][i].notified \/ <<t, i>> \in ids => Marked(ids)[t][i].notified
        BY <3>1, MarkedIs
      <3> QED
        BY <2>2, <3>1, <3>2
    <2> QED
      BY <2>1, <2>2
  <1>2. Paid(t, i)
    BY <1>1 DEF AllPaid
  <1> QED
    BY <1>1, <1>2 DEF Paid, Sends, HasSent

LEMMA WritePaid ==
    ASSUME TypeOK, SentOK, AllPaid, NEW r \in Tasks, Write(r)
    PROVE  AllPaid'
  <1> SUFFICES ASSUME NEW t \in Types, NEW i \in 1..Len(log'[t]) PROVE Paid(t, i)'
    BY DEF AllPaid
  <1>1. /\ \A q \in Tasks \ {r} : tasks'[q] = tasks[q]
        /\ tasks'[r].pc = "list"
    BY TaskNext DEF TaskStep
  <1>2. spent' = spent /\ ~tasks[r].sent
    BY WriteIs DEF SentOK
  <1>3. CASE i \in 1..Len(log[t]) /\ log'[t][i] = log[t][i]
    <2>1. Paid(t, i)
      BY <1>3 DEF AllPaid
    <2> QED
      BY <1>1, <1>2, <1>3, <2>1 DEF Paid, Sends, HasSent
  <1>4. CASE log'[t][i] = WrittenEvent(r, t)
    <2>1. log'[t][i].told = 0
      BY <1>4 DEF WrittenEvent
    <2> QED
      BY <1>2, <2>1, ScopeTypes DEF Paid
  <1> QED
    BY <1>3, <1>4, LogWritten

\* The events that are listed were not told, or that was paid for.
LEMMA ListPaid ==
    ASSUME TypeOK, OneTask, SentOK, AllPaid, NEW r \in Tasks, List(r)
    PROVE  AllPaid'
  <1>1. log' = log /\ spent' = spent /\ ~tasks[r].sent
    BY DEF List, SentOK
  <1>2. \/ tasks'[r].ids = Pending
        \/ tasks'[r].pc = "idle" /\ ~tasks'[r].sent
    BY TaskNext DEF TaskStep
  <1> SUFFICES ASSUME NEW t \in Types, NEW i \in 1..Len(log[t]) PROVE Paid(t, i)'
    BY <1>1 DEF AllPaid
  <1>3. Paid(t, i) /\ \A q \in Tasks : q = r
    BY DEF AllPaid, OneTask
  <1>4. CASE log[t][i].told <= spent.slips
    BY <1>1, <1>4 DEF Paid
  <1>5. CASE log[t][i].told <= spent.slips + 1 /\ log[t][i].notified
    <2>1. <<t, i>> \notin Pending
      BY <1>5 DEF Pending
    <2> QED
      BY <1>1, <1>2, <1>3, <1>5, <2>1 DEF Paid, Sends
  <1> QED
    BY <1>1, <1>3, <1>4, <1>5 DEF Paid, HasSent

LEMMA SendPaid ==
    ASSUME TypeOK, OneTask, SentOK, AllPaid, NEW r \in Tasks, Send(r)
    PROVE  AllPaid'
  <1>1. log' = Told(tasks[r].ids) /\ spent' = spent /\ tasks[r].pc = "send" /\ ~tasks[r].sent
    BY DEF Send, SentOK
  <1>2. tasks'[r].pc = "mark" /\ tasks'[r].sent /\ tasks'[r].ids = tasks[r].ids
    BY TaskNext DEF TaskStep
  <1> SUFFICES ASSUME NEW t \in Types, NEW i \in 1..Len(log'[t]) PROVE Paid(t, i)'
    BY DEF AllPaid
  <1>3. /\ i \in 1..Len(log[t]) /\ log'[t][i].told \in {log[t][i].told, log[t][i].told + 1}
        /\ log'[t][i].notified = log[t][i].notified
        /\ <<t, i>> \notin tasks[r].ids => log'[t][i].told = log[t][i].told
    BY <1>1, ToldIs
  <1>4. Paid(t, i) /\ \A q \in Tasks : q = r
    BY <1>3 DEF AllPaid, OneTask
  <1>5. \A q \in Tasks : ~Sends(q, t, i)'
    BY <1>2, <1>4 DEF Sends
  <1>6. log[t][i].told \in Nat /\ spent.slips \in Nat
    BY <1>3, EventIs, ScopeTypes
  <1>7. CASE <<t, i>> \in tasks[r].ids
    <2>1. log[t][i].told <= spent.slips
      BY <1>1, <1>4, <1>7 DEF Paid, Sends
    <2>2. HasSent(r, t, i)'
      BY <1>2, <1>7 DEF HasSent
    <2>3. log'[t][i].told <= spent.slips + 1
      <3> DEFINE m == log[t][i].told
                 k == log'[t][i].told
      <3>1. k \in {m, m + 1} /\ m \in Nat /\ m <= spent.slips
        BY <1>3, <1>6, <2>1
      <3> HIDE DEF m, k
      <3>2. k <= spent.slips + 1
        BY <1>6, <3>1
      <3> QED
        BY <3>2 DEF k
    <2> QED
      BY <1>1, <1>5, <2>2, <2>3 DEF Paid
  <1>8. CASE <<t, i>> \notin tasks[r].ids
    BY <1>1, <1>3, <1>4, <1>5, <1>8 DEF Paid, HasSent
  <1> QED
    BY <1>7, <1>8

\* After a slip every event is paid for.
LEMMA SlipPaid ==
    ASSUME TypeOK, AllPaid, spent'.slips = spent.slips + 1,
           \A t \in Types : Len(log'[t]) = Len(log[t]),
           \A t \in Types : \A i \in 1..Len(log[t]) :
               \/ log'[t][i].told = log[t][i].told
               \/ /\ log'[t][i].told = log[t][i].told + 1
                  /\ \E r \in Tasks : Sends(r, t, i)
    PROVE  AllPaid'
  <1> SUFFICES ASSUME NEW t \in Types, NEW i \in 1..Len(log'[t])
               PROVE  log'[t][i].told <= spent'.slips
    BY DEF AllPaid, Paid
  <1>1. i \in 1..Len(log[t]) /\ Paid(t, i)
    BY DEF AllPaid
  <1>2. log[t][i].told \in Nat /\ spent.slips \in Nat
    BY <1>1, EventIs, ScopeTypes
  <1>3. CASE log'[t][i].told = log[t][i].told
    BY <1>1, <1>2, <1>3 DEF Paid
  <1>4. CASE log'[t][i].told = log[t][i].told + 1 /\ \E r \in Tasks : Sends(r, t, i)
    BY <1>1, <1>2, <1>4 DEF Paid
  <1> QED
    BY <1>1, <1>3, <1>4

LEMMA SendFailsPaid ==
    ASSUME TypeOK, SentOK, AllPaid, NEW r \in Tasks, SendFails(r)
    PROVE  AllPaid'
  <1>1. tasks[r].pc = "send" /\ ~tasks[r].sent
    BY DEF SendFails, SentOK
  <1>2. /\ \A q \in Tasks \ {r} : tasks'[q] = tasks[q]
        /\ tasks'[r].pc = "idle"
    BY TaskNext DEF TaskStep
  <1>3. CASE log' = log /\ spent' = spent
    BY <1>1, <1>2, <1>3, QuietPaid
  <1>4. CASE log' = Told(tasks[r].ids) /\ Slip
    <2>1. spent'.slips = spent.slips + 1
      BY <1>4, SlipType
    <2>2. \A t \in Types : Len(log'[t]) = Len(log[t])
      BY <1>4, ToldIs
    <2>3. ASSUME NEW t \in Types, NEW i \in 1..Len(log[t])
          PROVE  \/ log'[t][i].told = log[t][i].told
                 \/ /\ log'[t][i].told = log[t][i].told + 1
                    /\ \E q \in Tasks : Sends(q, t, i)
      <3>1. /\ log'[t][i].told \in {log[t][i].told, log[t][i].told + 1}
            /\ <<t, i>> \notin tasks[r].ids => log'[t][i].told = log[t][i].told
        BY <1>4, ToldIs
      <3> QED
        BY <1>1, <3>1 DEF Sends
    <2> QED
      BY <2>1, <2>2, <2>3, SlipPaid
  <1> QED
    BY <1>3, <1>4 DEF SendFails

LEMMA MarkPaid ==
    ASSUME TypeOK, OneTask, AllPaid, NEW r \in Tasks, Mark(r)
    PROVE  AllPaid'
  <1>1. log' = Marked(tasks[r].ids) /\ spent' = spent
    BY DEF Mark
  <1>2. tasks'[r].pc = "idle"
    BY TaskNext DEF TaskStep
  <1> SUFFICES ASSUME NEW t \in Types, NEW i \in 1..Len(log'[t]) PROVE Paid(t, i)'
    BY DEF AllPaid
  <1>3. /\ i \in 1..Len(log[t]) /\ log'[t][i].told = log[t][i].told
        /\ log[t][i].notified \/ <<t, i>> \in tasks[r].ids => log'[t][i].notified
    BY <1>1, MarkedIs
  <1>4. Paid(t, i) /\ \A q \in Tasks : q = r
    BY <1>3 DEF AllPaid, OneTask
  <1>5. \A q \in Tasks : ~Sends(q, t, i)'
    BY <1>2, <1>4 DEF Sends
  <1> QED
    BY <1>1, <1>3, <1>4, <1>5 DEF Paid, HasSent

LEMMA FailsPaid ==
    ASSUME TypeOK, AllPaid, NEW r \in Tasks, Fails(r)
    PROVE  AllPaid'
  <1>1. log' = log /\ IF tasks[r].sent THEN Slip ELSE UNCHANGED spent
    BY DEF Fails
  <1>2. CASE tasks[r].sent
    <2>1. spent'.slips = spent.slips + 1
      BY <1>1, <1>2, SlipType
    <2> QED
      BY <1>1, <2>1, SlipPaid
  <1>3. CASE ~tasks[r].sent
    <2>1. /\ \A q \in Tasks \ {r} : tasks'[q] = tasks[q]
          /\ tasks'[r].pc = "idle"
      BY TaskNext DEF TaskStep
    <2> QED
      BY <1>1, <1>3, <2>1, QuietPaid
  <1> QED
    BY <1>2, <1>3

LEMMA RestartPaid ==
    ASSUME TypeOK, AllPaid, Restart
    PROVE  AllPaid'
  <1>1. /\ log' = log /\ \A q \in Tasks : tasks'[q] = Idle
        /\ (\E r \in Tasks : tasks[r].sent) => spent'.slips = spent.slips + 1
    BY RestartIs
  <1>2. CASE \E r \in Tasks : tasks[r].sent
    BY <1>1, <1>2, SlipPaid
  <1>3. CASE \A r \in Tasks : ~tasks[r].sent
    <2>1. spent'.slips = spent.slips
      <3>1. spent \in Spent
        BY SpentIs
      <3> QED
        BY <1>3, <3>1 DEF Restart, Spent
    <2> QED
      BY <1>1, <1>3, <2>1, IdleType, QuietPaid
  <1> QED
    BY <1>2, <1>3

LEMMA NextPaid ==
    ASSUME TypeOK, OneTask, SentOK, AllPaid, [Next]_vars
    PROVE  AllPaid'
  <1>1. ASSUME tasks' = tasks, spent'.slips = spent.slips,
               log' = log \/ \E ids : log' = Marked(ids)
        PROVE  AllPaid'
    BY <1>1, QuietPaid
  <1>2. CASE UNCHANGED vars
    BY <1>1, <1>2 DEF vars
  <1>3. ASSUME NEW r \in Tasks,
               \/ Start(r) \/ Checked(r) \/ CheckFailed(r) \/ Recheck(r) \/ Read(r)
               \/ \E failed \in SUBSET (Types \ {"IP"}) : LookedUp(r, failed)
               \/ RecordFails(r)
        PROVE  AllPaid'
    <2>1. log' = log /\ spent' = spent /\ tasks[r].pc # "mark"
      BY <1>3 DEF Start, Checked, CheckFailed, Recheck, Read, LookedUp, RecordFails
    <2>2. TaskStep(r)
      BY <1>3 DEF TaskStep
    <2>3. \A q \in Tasks \ {r} : tasks'[q] = tasks[q]
      BY <2>2, TaskNext
    <2>4. tasks'[r].pc # "send" /\ ~tasks[r].sent
      BY <1>3, <2>1, <2>2, TaskNext DEF SentOK
    <2> QED
      BY <2>1, <2>3, <2>4, QuietPaid
  <1>4. ASSUME NEW r \in Tasks, TaskStep(r) PROVE AllPaid'
    BY <1>3, <1>4, WritePaid, ListPaid, SendPaid, SendFailsPaid, MarkPaid, FailsPaid
       DEF TaskStep
  <1>5. ASSUME NEW p \in Requests, Put(p) \/ Save(p) \/ Refuse(p) PROVE AllPaid'
    BY <1>1, <1>5 DEF Put, Save, Refuse
  <1>6. ASSUME SetPref PROVE AllPaid'
    BY <1>1, <1>6 DEF SetPref
  <1>7. ASSUME NEW t \in Types, DnsChanges(t) PROVE AllPaid'
    <2>1. spent'.slips = spent.slips
      BY <1>7, SpentIs DEF DnsChanges, Spent
    <2> QED
      BY <1>1, <1>7, <2>1 DEF DnsChanges
  <1> QED
    BY <1>2, <1>4, <1>5, <1>6, <1>7, RestartPaid DEF Next

\* The owner reads of a change once, and once more for every message that was delivered
\* without being recorded: with one task on the site, through failures of Telegram and the
\* database, restarts, and saves of the settings that retire the change while its message
\* is on the way (monitor_site_dns(), mark_dns_changes_notified()).
THEOREM ChangesToldOnce ==
    ASSUME OneTask
    PROVE  Spec => []ToldOnce
  <1>1. Init => SentOK /\ AllPaid
    BY InitLog, IdleType DEF Init, SentOK, AllPaid
  <1>2. TypeOK /\ Addresses /\ SentOK /\ AllPaid /\ [Next]_vars
          => TypeOK' /\ Addresses' /\ SentOK' /\ AllPaid'
    BY NextType, SentStays, NextPaid
  <1>3. TypeOK /\ AllPaid => ToldOnce
    <2> SUFFICES ASSUME TypeOK, AllPaid, NEW e \in Ids
                 PROVE  log[e[1]][e[2]].told <= 1 + spent.slips
      BY DEF ToldOnce, Events
    <2>1. e[1] \in Types /\ e[2] \in 1..Len(log[e[1]])
      BY IdsAre
    <2>2. Paid(e[1], e[2]) /\ log[e[1]][e[2]].told \in Nat /\ spent.slips \in Nat
      BY <2>1, EventIs, ScopeTypes DEF AllPaid
    <2> QED
      BY <2>2 DEF Paid
  <1> QED
    BY <1>1, <1>2, <1>3, InitType, PTL DEF Spec

=============================================================================
