-------------------------- MODULE AgentRegistry_proof --------------------------
(* Theorems about AgentRegistry, for any agents, connections and rounds. *)
EXTENDS AgentRegistry, TLAPS

\* A connection admitted before its agent was disabled knows it.
AdmittedLate ==
    \A c \in Conns : conns[c].pc = "admitted" /\ conns[c].agent \in disabled
                       => conns[c].late

\* Nothing is known of the jobs of a round that has not begun.
Unbegun ==
    \A j \in Jobs : j[1] \notin begun => req[j] = "none" /\ j \notin pending

\* The inductive invariant.
IInv ==
    /\ TypeOK
    /\ ServedIsOnline
    /\ OnlineIsServed
    /\ DisabledOnlyLate
    /\ AdmittedLate
    /\ OneSender
    /\ Unbegun
    /\ PendingAccounted

LEMMA Names ==
    /\ None \notin Conns /\ None \notin Agents /\ None \notin Jobs
    /\ Admin \notin Jobs /\ Admin # None
  BY RegistryAssumption DEF RegistryAssumption, Jobs

LEMMA JobParts ==
    ASSUME NEW j \in Jobs
    PROVE  j[1] \in Rounds /\ j[2] \in Agents
  BY DEF Jobs

LEMMA InitInv == Init => IInv
  <1> SUFFICES ASSUME Init PROVE IInv
    OBVIOUS
  <1>0. Off \in Conn /\ Off.agent = None /\ Off.pc = "off"
    BY DEF Off, Conn
  <1>1. TypeOK
    BY <1>0 DEF Init, TypeOK, ReqState
  <1>2. \A c \in Conns : conns[c].pc = "off"
    BY DEF Init, Off
  <1>3. ServedIsOnline /\ AdmittedLate
    BY <1>2 DEF ServedIsOnline, AdmittedLate, Reachable
  <1>4. OnlineIsServed /\ DisabledOnlyLate
    BY DEF Init, OnlineIsServed, DisabledOnlyLate, Reachable
  <1>5. OneSender /\ Unbegun /\ PendingAccounted
    BY Names DEF Init, OneSender, Unbegun, PendingAccounted
  <1> QED
    BY <1>1, <1>3, <1>4, <1>5 DEF IInv

-----------------------------------------------------------------------------
(* The list of connections and the disabled agents.                        *)

\* What a step of a connection or of the administrator must preserve; the
\* requests are untouched by it, but for the work of a dropped connection.
ListInv == ServedIsOnline /\ OnlineIsServed /\ DisabledOnlyLate /\ AdmittedLate

ListTypes ==
    /\ online \in [Agents -> Conns \cup {None}]
    /\ disabled \subseteq Agents
    /\ conns \in [Conns -> Conn]
    /\ \A c \in Conns : conns[c].agent = None <=> conns[c].pc = "off"

LEMMA SetPc ==
    ASSUME NEW x \in Conn, NEW pc \in {"hello", "admitted", "registered", "loop", "ending"}
    PROVE  /\ [x EXCEPT !.pc = pc] \in Conn
           /\ [x EXCEPT !.pc = pc].pc = pc
           /\ [x EXCEPT !.pc = pc].agent = x.agent
           /\ [x EXCEPT !.pc = pc].closing = x.closing
           /\ [x EXCEPT !.pc = pc].late = x.late
  BY DEF Conn

LEMMA SetClosing ==
    ASSUME NEW x \in Conn
    PROVE  /\ [x EXCEPT !.closing = TRUE] \in Conn
           /\ [x EXCEPT !.closing = TRUE].closing
           /\ [x EXCEPT !.closing = TRUE].pc = x.pc
           /\ [x EXCEPT !.closing = TRUE].agent = x.agent
           /\ [x EXCEPT !.closing = TRUE].late = x.late
  BY DEF Conn

LEMMA AgentOf ==
    ASSUME ListTypes, NEW c \in Conns, conns[c].pc # "off"
    PROVE  conns[c] \in Conn /\ conns[c].agent \in Agents
  BY DEF ListTypes, Conn

LEMMA SetConn ==
    ASSUME ListTypes, NEW c \in Conns, NEW new \in Conn,
           new.agent = None <=> new.pc = "off",
           conns' = [conns EXCEPT ![c] = new],
           online' \in [Agents -> Conns \cup {None}], disabled' \subseteq Agents
    PROVE  ListTypes'
  BY DEF ListTypes

LEMMA HelloList ==
    ASSUME ListTypes, ListInv, NEW c \in Conns, NEW a \in Agents, Hello(c, a)
    PROVE  ListTypes' /\ ListInv'
  <1> DEFINE new == [pc |-> "hello", agent |-> a, closing |-> FALSE, late |-> FALSE]
  <1>1. new \in Conn /\ new.pc = "hello" /\ new.agent \in Agents
    BY DEF Conn
  <1>2. conns' = [conns EXCEPT ![c] = new] /\ UNCHANGED <<online, disabled>>
    BY DEF Hello
  <1>3. \A b \in Agents : online[b] # c
    BY Names DEF Hello, ListInv, OnlineIsServed, Reachable
  <1> HIDE DEF new
  <1>4. ListTypes'
    BY <1>1, <1>2, Names, SetConn DEF ListTypes
  <1>5. ServedIsOnline' /\ AdmittedLate'
    BY <1>1, <1>2 DEF ListTypes, ListInv, ServedIsOnline, AdmittedLate, Reachable
  <1>6. OnlineIsServed' /\ DisabledOnlyLate'
    BY <1>2, <1>3 DEF ListTypes, ListInv, OnlineIsServed, DisabledOnlyLate, Reachable
  <1> QED
    BY <1>4, <1>5, <1>6 DEF ListInv

LEMMA AdmitList ==
    ASSUME ListTypes, ListInv, NEW c \in Conns, Admit(c)
    PROVE  ListTypes' /\ ListInv'
  <1> DEFINE pc  == IF conns[c].agent \in disabled THEN "ending" ELSE "admitted"
             new == [conns[c] EXCEPT !.pc = pc]
  <1>1. conns[c] \in Conn /\ conns[c].pc = "hello"
    BY DEF Admit, ListTypes
  <1>a. pc \in {"ending", "admitted"} /\ (pc = "admitted" => conns[c].agent \notin disabled)
    OBVIOUS
  <1>b. conns[c].agent # None
    BY <1>1 DEF ListTypes
  <1> HIDE DEF pc
  <1>c. pc \in {"hello", "admitted", "registered", "loop", "ending"}
    BY <1>a
  <1>d. new \in Conn /\ new.pc = pc /\ new.agent = conns[c].agent
    BY <1>1, <1>c, SetPc
  <1>2. /\ new \in Conn /\ new.pc = pc /\ new.agent = conns[c].agent
        /\ pc = "admitted" => new.agent \notin disabled
        /\ pc \notin Reachable /\ pc # "off"
    BY <1>a, <1>d DEF Reachable
  <1>3. conns' = [conns EXCEPT ![c] = new] /\ UNCHANGED <<online, disabled>>
    BY DEF Admit, pc
  <1>4. \A b \in Agents : online[b] # c
    BY <1>1, Names DEF ListInv, OnlineIsServed, Reachable
  <1> HIDE DEF new
  <1>5. ListTypes'
    BY <1>2, <1>3, <1>b, SetConn DEF ListTypes
  <1>6. ServedIsOnline' /\ AdmittedLate'
    BY <1>2, <1>3 DEF ListTypes, ListInv, ServedIsOnline, AdmittedLate, Reachable
  <1>7. OnlineIsServed' /\ DisabledOnlyLate'
    BY <1>3, <1>4 DEF ListTypes, ListInv, OnlineIsServed, DisabledOnlyLate, Reachable
  <1> QED
    BY <1>5, <1>6, <1>7 DEF ListInv

LEMMA RegisterList ==
    ASSUME ListTypes, ListInv, NEW c \in Conns, Register(c)
    PROVE  ListTypes' /\ ListInv'
  <1> DEFINE a   == conns[c].agent
             old == online[a]
             new == [conns[c] EXCEPT !.pc = "registered"]
  <1>1. conns[c] \in Conn /\ conns[c].pc = "admitted" /\ a \in Agents
    BY AgentOf, SetPc DEF Register, ListTypes
  <1>2. /\ new \in Conn /\ new.pc = "registered" /\ new.agent = a
        /\ new.late = conns[c].late
    BY <1>1, AgentOf, SetPc
  <1>3. old \in Conns \cup {None} /\ old # c
    BY <1>1, Names DEF ListTypes, ListInv, OnlineIsServed, Reachable
  <1>4. old # None => /\ conns[old].pc \in {"registered", "loop", "ending"} /\ conns[old].agent = a
                      /\ conns[old] \in Conn
    BY <1>1, <1>3 DEF ListTypes, ListInv, OnlineIsServed, Reachable
  <1>5. a # None
    BY <1>1, Names
  <1>6. /\ conns' = [Closed(old) EXCEPT ![c] = new]
        /\ online' = [online EXCEPT ![a] = c]
        /\ disabled' = disabled
    <2>1. Closed(old)[c] = conns[c]
      BY <1>3 DEF ListTypes, Closed
    <2> QED
      BY <2>1 DEF Register
  <1>7. /\ conns'[c] = new
        /\ old # None => conns'[old] = [conns[old] EXCEPT !.closing = TRUE]
        /\ \A d \in Conns \ {c, old} : conns'[d] = conns[d]
    BY <1>3, <1>6 DEF Closed, ListTypes
  <1>8. DOMAIN conns' = Conns /\ conns' = [d \in Conns |-> conns'[d]]
    BY <1>6 DEF Closed, ListTypes
  <1>13. old # None => /\ conns'[old] \in Conn
                       /\ conns'[old].pc \in {"registered", "loop", "ending"}
                       /\ conns'[old].agent = a /\ conns'[old].closing
    <2> SUFFICES ASSUME old # None
                 PROVE  /\ conns'[old] \in Conn
                        /\ conns'[old].pc \in {"registered", "loop", "ending"}
                        /\ conns'[old].agent = a /\ conns'[old].closing
      OBVIOUS
    <2>1. conns'[old] = [conns[old] EXCEPT !.closing = TRUE]
      BY <1>7
    <2>2. /\ conns[old] \in Conn /\ conns[old].pc \in {"registered", "loop", "ending"}
          /\ conns[old].agent = a
      BY <1>4
    <2> HIDE DEF old
    <2> QED
      BY <2>1, <2>2, SetClosing
  <1> HIDE DEF new, old
  <1>9. ListTypes'
    <2>1. ASSUME NEW d \in Conns
          PROVE  conns'[d] \in Conn /\ (conns'[d].agent = None <=> conns'[d].pc = "off")
      <3>1. CASE d = c
        BY <1>1, <1>2, <1>7, <3>1, Names
      <3>2. CASE d = old /\ d # c
        BY <1>3, <1>5, <1>13, <3>2, Names
      <3>3. CASE d # c /\ d # old
        BY <1>7, <3>3 DEF ListTypes
      <3> QED
        BY <3>1, <3>2, <3>3
    <2>2. online' \in [Agents -> Conns \cup {None}]
      BY <1>6 DEF ListTypes
    <2>3. \A d \in Conns : conns'[d] \in Conn
      BY <2>1
    <2>4. \A d \in Conns : conns'[d].agent = None <=> conns'[d].pc = "off"
      BY <2>1
    <2>5. conns' \in [Conns -> Conn]
      BY <1>8, <2>3
    <2> QED
      BY <1>6, <2>2, <2>4, <2>5 DEF ListTypes
  <1>10. ServedIsOnline'
    <2> SUFFICES ASSUME NEW d \in Conns, conns'[d].pc \in Reachable, ~conns'[d].closing
                 PROVE  online'[conns'[d].agent] = d
      BY DEF ServedIsOnline, Reachable
    <2>1. CASE d = c
      BY <1>1, <1>2, <1>6, <1>7, <2>1 DEF ListTypes
    <2>2. CASE d = old /\ d # c
      BY <1>13, <2>2, Names
    <2>3. CASE d # c /\ d # old
      <3>1. conns'[d] = conns[d]
        BY <1>7, <2>3
      <3>2. online[conns[d].agent] = d
        BY <3>1 DEF ListInv, ServedIsOnline, Reachable
      <3>3. conns[d].agent # a
        BY <2>3, <3>2 DEF old
      <3> QED
        BY <1>6, <3>1, <3>2, <3>3, AgentOf, SetPc DEF ListTypes
    <2> QED
      BY <2>1, <2>2, <2>3
  <1>11. OnlineIsServed' /\ DisabledOnlyLate'
    <2> SUFFICES ASSUME NEW b \in Agents, online'[b] # None
                 PROVE  /\ conns'[online'[b]].pc \in {"registered", "loop", "ending"}
                        /\ conns'[online'[b]].agent = b
                        /\ b \in disabled => conns'[online'[b]].late
      BY <1>6 DEF OnlineIsServed, DisabledOnlyLate, ListTypes, Reachable
    <2>1. CASE b = a
      BY <1>1, <1>2, <1>6, <1>7, <2>1 DEF ListTypes, ListInv, AdmittedLate
    <2>2. CASE b # a
      <3>1. online'[b] = online[b] /\ online[b] \in Conns
        BY <1>6, <2>2 DEF ListTypes
      <3>2. /\ conns[online[b]].agent = b
            /\ conns[online[b]].pc \in {"registered", "loop", "ending"}
            /\ b \in disabled => conns[online[b]].late
        BY <3>1, Names DEF ListInv, OnlineIsServed, DisabledOnlyLate, Reachable
      <3>3. online[b] # c /\ online[b] # old
        BY <1>1, <1>4, <2>2, <3>1, <3>2, Names
      <3> QED
        BY <1>7, <3>1, <3>2, <3>3
    <2> QED
      BY <2>1, <2>2
  <1>12. AdmittedLate'
    <2> SUFFICES ASSUME NEW d \in Conns, conns'[d].pc = "admitted",
                        conns'[d].agent \in disabled'
                 PROVE  conns'[d].late
      BY DEF AdmittedLate
    <2>1. d # c
      BY <1>2, <1>7
    <2>2. d # old
      BY <1>13, Names
    <2> QED
      BY <1>6, <1>7, <2>1, <2>2 DEF ListInv, AdmittedLate
  <1> QED
    BY <1>9, <1>10, <1>11, <1>12 DEF ListInv

LEMMA AcknowledgeList ==
    ASSUME ListTypes, ListInv, NEW c \in Conns, Acknowledge(c)
    PROVE  ListTypes' /\ ListInv'
  <1> DEFINE new == [conns[c] EXCEPT !.pc = "loop"]
  <1>1. conns[c] \in Conn /\ conns[c].pc = "registered"
    BY DEF Acknowledge, ListTypes
  <1>2. conns[c].agent # None
    BY <1>1 DEF ListTypes
  <1>3. /\ new \in Conn /\ new.pc = "loop" /\ new.agent = conns[c].agent
        /\ new.closing = conns[c].closing /\ new.late = conns[c].late
    BY <1>1, SetPc
  <1>4. conns' = [conns EXCEPT ![c] = new] /\ UNCHANGED <<online, disabled>>
    BY DEF Acknowledge
  <1> HIDE DEF new
  <1>5. ListTypes'
    BY <1>2, <1>3, <1>4, SetConn DEF ListTypes
  <1>6. ServedIsOnline' /\ AdmittedLate'
    BY <1>1, <1>3, <1>4 DEF ListTypes, ListInv, ServedIsOnline, AdmittedLate, Reachable
  <1>7. OnlineIsServed' /\ DisabledOnlyLate'
    BY <1>1, <1>3, <1>4 DEF ListTypes, ListInv, OnlineIsServed, DisabledOnlyLate, Reachable
  <1> QED
    BY <1>5, <1>6, <1>7 DEF ListInv

LEMMA DropList ==
    ASSUME ListTypes, ListInv, NEW c \in Conns, Drop(c)
    PROVE  ListTypes' /\ ListInv'
  <1> DEFINE new == [conns[c] EXCEPT !.pc = "ending"]
  <1>1. conns[c] \in Conn /\ conns[c].pc # "off"
    BY DEF Drop, ListTypes, Reachable
  <1>a. conns[c].agent # None
    BY <1>1 DEF ListTypes
  <1>2. /\ new \in Conn /\ new.pc = "ending" /\ new.agent = conns[c].agent
        /\ new.late = conns[c].late /\ new.agent # None
    BY <1>1, <1>a, SetPc
  <1>3. conns' = [conns EXCEPT ![c] = new] /\ UNCHANGED <<online, disabled>>
    BY DEF Drop, Reachable
  <1> HIDE DEF new
  <1>4. ListTypes'
    BY <1>2, <1>3, SetConn DEF ListTypes
  <1>5. ServedIsOnline' /\ AdmittedLate'
    BY <1>2, <1>3 DEF ListTypes, ListInv, ServedIsOnline, AdmittedLate, Reachable
  <1>6. OnlineIsServed' /\ DisabledOnlyLate'
    BY <1>2, <1>3 DEF ListTypes, ListInv, OnlineIsServed, DisabledOnlyLate, Reachable
  <1> QED
    BY <1>4, <1>5, <1>6 DEF ListInv

LEMMA LeaveList ==
    ASSUME ListTypes, ListInv, NEW c \in Conns, Leave(c)
    PROVE  ListTypes' /\ ListInv'
  <1> DEFINE a == conns[c].agent
  <1>1. conns[c] \in Conn /\ conns[c].pc = "ending" /\ a \in Agents
    BY AgentOf, SetPc DEF Leave, ListTypes
  <1>2. Off \in Conn /\ Off.pc = "off" /\ Off.agent = None
    BY DEF Conn, Off
  <1>3. /\ conns' = [conns EXCEPT ![c] = Off]
        /\ online' = [online EXCEPT ![a] = IF @ = c THEN None ELSE @]
        /\ disabled' = disabled
    BY DEF Leave
  <1>4. \A b \in Agents : online'[b] # c /\ (online'[b] # None => online'[b] = online[b])
    BY <1>1, <1>3, Names DEF ListTypes, ListInv, OnlineIsServed, Reachable
  <1>5. ListTypes'
    <2>1. online' \in [Agents -> Conns \cup {None}]
      BY <1>1, <1>3 DEF ListTypes
    <2> QED
      BY <1>2, <1>3, <2>1, SetConn DEF ListTypes
  <1>6. ServedIsOnline'
    <2> SUFFICES ASSUME NEW d \in Conns, conns'[d].pc \in Reachable, ~conns'[d].closing
                 PROVE  online'[conns'[d].agent] = d
      BY DEF ServedIsOnline, Reachable
    <2>1. d # c /\ conns'[d] = conns[d]
      BY <1>2, <1>3 DEF ListTypes, Reachable
    <2>2. online[conns[d].agent] = d /\ conns[d].agent \in Agents
      BY <2>1, AgentOf, SetPc DEF ListTypes, ListInv, ServedIsOnline, Reachable
    <2> QED
      BY <1>1, <1>3, <2>1, <2>2 DEF ListTypes
  <1>7. AdmittedLate'
    BY <1>2, <1>3 DEF ListTypes, ListInv, AdmittedLate
  <1>8. OnlineIsServed' /\ DisabledOnlyLate'
    <2> SUFFICES ASSUME NEW b \in Agents, online'[b] # None
                 PROVE  /\ conns'[online'[b]].pc \in {"registered", "loop", "ending"}
                        /\ conns'[online'[b]].agent = b
                        /\ b \in disabled => conns'[online'[b]].late
      BY <1>3 DEF OnlineIsServed, DisabledOnlyLate, ListTypes, Reachable
    <2>1. online'[b] = online[b] /\ online'[b] # c /\ online'[b] \in Conns
      BY <1>4, <1>5 DEF ListTypes
    <2>2. conns'[online'[b]] = conns[online[b]]
      BY <1>3, <2>1 DEF ListTypes
    <2> QED
      BY <2>1, <2>2 DEF ListInv, OnlineIsServed, DisabledOnlyLate, Reachable
  <1> QED
    BY <1>5, <1>6, <1>7, <1>8 DEF ListInv

LEMMA DisableList ==
    ASSUME ListTypes, ListInv, NEW a \in Agents, Disable(a)
    PROVE  ListTypes' /\ ListInv'
  <1>1. \A d \in Conns :
          conns'[d] = [conns[d] EXCEPT
                         !.late = @ \/ (conns[d].pc = "admitted" /\ conns[d].agent = a),
                         !.closing = @ \/ d = online[a]]
    BY DEF Disable
  <1>2. \A d \in Conns :
          /\ conns'[d] \in Conn
          /\ conns'[d].pc = conns[d].pc /\ conns'[d].agent = conns[d].agent
          /\ conns'[d].late = (conns[d].late \/ (conns[d].pc = "admitted" /\ conns[d].agent = a))
          /\ conns'[d].closing = (conns[d].closing \/ d = online[a])
    <2> SUFFICES ASSUME NEW d \in Conns
                 PROVE  /\ conns'[d] \in Conn
                        /\ conns'[d].pc = conns[d].pc /\ conns'[d].agent = conns[d].agent
                        /\ conns'[d].late = (conns[d].late \/ (conns[d].pc = "admitted"
                                                              /\ conns[d].agent = a))
                        /\ conns'[d].closing = (conns[d].closing \/ d = online[a])
      OBVIOUS
    <2> DEFINE l == conns[d].late \/ (conns[d].pc = "admitted" /\ conns[d].agent = a)
               k == conns[d].closing \/ d = online[a]
    <2>1. conns[d] \in Conn
      BY DEF ListTypes
    <2>2. conns'[d] = [conns[d] EXCEPT !.late = l, !.closing = k]
      BY <1>1
    <2>3. l \in BOOLEAN /\ k \in BOOLEAN
      OBVIOUS
    <2> HIDE DEF l, k
    <2>4. /\ conns'[d] \in Conn
          /\ conns'[d].pc = conns[d].pc /\ conns'[d].agent = conns[d].agent
          /\ conns'[d].late = l /\ conns'[d].closing = k
      BY <2>1, <2>2, <2>3 DEF Conn
    <2> QED
      BY <2>4 DEF l, k
  <1>3. /\ online' = [online EXCEPT ![a] = None]
        /\ disabled' = disabled \cup {a}
    BY DEF Disable
  <1>4. ListTypes'
    <2>1. conns' = [d \in Conns |-> conns'[d]]
      BY DEF Disable
    <2> QED
      BY <1>2, <1>3, <2>1 DEF ListTypes
  <1>5. ServedIsOnline'
    <2> SUFFICES ASSUME NEW d \in Conns, conns'[d].pc \in Reachable, ~conns'[d].closing
                 PROVE  online'[conns'[d].agent] = d
      BY DEF ServedIsOnline, Reachable
    <2>1. conns[d].pc \in Reachable /\ ~conns[d].closing /\ d # online[a]
      BY <1>2
    <2>2. online[conns[d].agent] = d /\ conns[d].agent \in Agents
      BY <2>1, AgentOf DEF ListInv, ServedIsOnline, Reachable
    <2> QED
      BY <1>2, <1>3, <2>1, <2>2 DEF ListTypes
  <1>6. OnlineIsServed' /\ DisabledOnlyLate'
    <2> SUFFICES ASSUME NEW b \in Agents, online'[b] # None
                 PROVE  /\ conns'[online'[b]].pc \in {"registered", "loop", "ending"}
                        /\ conns'[online'[b]].agent = b
                        /\ b \in disabled' => conns'[online'[b]].late
      BY <1>3 DEF OnlineIsServed, DisabledOnlyLate, ListTypes, Reachable
    <2>1. b # a /\ online'[b] = online[b] /\ online[b] \in Conns
      BY <1>3 DEF ListTypes
    <2>2. /\ conns[online[b]].pc \in {"registered", "loop", "ending"} /\ conns[online[b]].agent = b
          /\ b \in disabled => conns[online[b]].late
      BY <2>1, Names DEF ListInv, OnlineIsServed, DisabledOnlyLate, Reachable
    <2>3. b \in disabled' => b \in disabled
      BY <1>3, <2>1
    <2>4. conns'[online[b]].pc = conns[online[b]].pc
          /\ conns'[online[b]].agent = conns[online[b]].agent
          /\ (conns[online[b]].late => conns'[online[b]].late)
      BY <1>2, <2>1
    <2> QED
      BY <2>1, <2>2, <2>3, <2>4
  <1>7. AdmittedLate'
    <2> SUFFICES ASSUME NEW d \in Conns, conns'[d].pc = "admitted",
                        conns'[d].agent \in disabled'
                 PROVE  conns'[d].late
      BY DEF AdmittedLate
    <2>1. conns[d].pc = "admitted" /\ conns'[d].agent = conns[d].agent
      BY <1>2
    <2>2. CASE conns[d].agent \in disabled
      BY <1>2, <2>1, <2>2 DEF ListInv, AdmittedLate
    <2>3. CASE conns[d].agent \notin disabled
      BY <1>2, <1>3, <2>1, <2>3
    <2> QED
      BY <2>2, <2>3
  <1> QED
    BY <1>4, <1>5, <1>6, <1>7 DEF ListInv

LEMMA EnableList ==
    ASSUME ListTypes, ListInv, NEW a \in Agents, Enable(a)
    PROVE  ListTypes' /\ ListInv'
  <1>1. UNCHANGED <<online, conns>> /\ disabled' \subseteq disabled
    BY DEF Enable
  <1>2. ListTypes'
    BY <1>1 DEF ListTypes
  <1>3. ListInv'
    BY <1>1 DEF ListInv, ServedIsOnline, OnlineIsServed, DisabledOnlyLate, AdmittedLate, Reachable
  <1> QED
    BY <1>2, <1>3

\* Every step of a connection or of the administrator.
LEMMA ListStep ==
    ASSUME ListTypes, ListInv, (\E c \in Conns : ConnStep(c)) \/ AdminStep
    PROVE  ListTypes' /\ ListInv'
  <1>1. ASSUME NEW c \in Conns, ConnStep(c) PROVE ListTypes' /\ ListInv'
    BY <1>1, HelloList, AdmitList, RegisterList, AcknowledgeList, DropList, LeaveList DEF ConnStep
  <1>2. ASSUME UNCHANGED <<online, disabled, conns>> PROVE ListTypes' /\ ListInv'
    BY <1>2 DEF ListTypes, ListInv, ServedIsOnline, OnlineIsServed, DisabledOnlyLate,
                AdmittedLate, Reachable
  <1>3. ASSUME AdminStep PROVE ListTypes' /\ ListInv'
    <2>1. CASE AdminSent
      BY <1>2, <2>1 DEF AdminSent
    <2>2. ASSUME NEW a \in Agents, Disable(a) \/ Enable(a) PROVE ListTypes' /\ ListInv'
      BY <2>2, DisableList, EnableList
    <2>3. ASSUME NEW a \in Agents, AdminSends(a) PROVE ListTypes' /\ ListInv'
      BY <1>2, <2>3 DEF AdminSends
    <2> QED
      BY <1>3, <2>1, <2>2, <2>3 DEF AdminStep
  <1> QED
    BY <1>1, <1>3

-----------------------------------------------------------------------------
(* The requests.                                                           *)

JobTypes ==
    /\ pending \subseteq Jobs
    /\ holder \in Jobs \cup {None, Admin}
    /\ begun \subseteq Rounds
    /\ req \in [Jobs -> ReqState]
    /\ at \in [Jobs -> Conns \cup {None}]

JobInv == OneSender /\ Unbegun /\ PendingAccounted

LEMMA Parts == IInv <=> ListTypes /\ JobTypes /\ ListInv /\ JobInv
  BY DEF IInv, TypeOK, ListTypes, JobTypes, ListInv, JobInv

\* A step of a connection or of the administrator leaves the requests alone.
LEMMA ListStepJobs ==
    ASSUME JobTypes, JobInv, ListTypes, (\E c \in Conns : ConnStep(c)) \/ AdminStep
    PROVE  JobTypes' /\ JobInv'
  <1>1. UNCHANGED <<pending, begun, req>>
    BY DEF ConnStep, AdminStep, Hello, Admit, Register, Acknowledge, Drop, Leave, Disable,
           Enable, AdminSends, AdminSent, Reachable
  <1>2. \/ UNCHANGED holder
        \/ holder = None /\ holder' = Admin
        \/ holder = Admin /\ holder' = None
    BY DEF ConnStep, AdminStep, Hello, Admit, Register, Acknowledge, Drop, Leave, Disable,
           Enable, AdminSends, AdminSent, Free, Reachable
  <1>3. at' \in [Jobs -> Conns \cup {None}]
    <2>1. ASSUME NEW c \in Conns, Drop(c) PROVE at' \in [Jobs -> Conns \cup {None}]
      BY <2>1 DEF Drop, JobTypes, Reachable
    <2>2. (\E c \in Conns : Drop(c)) \/ UNCHANGED at
      BY DEF ConnStep, AdminStep, Hello, Admit, Register, Acknowledge, Leave, Disable,
             Enable, AdminSends, AdminSent
    <2> QED
      BY <2>1, <2>2 DEF JobTypes
  <1>4. JobTypes'
    BY <1>1, <1>2, <1>3 DEF JobTypes
  <1>5. OneSender'
    BY <1>1, <1>2, Names DEF JobInv, OneSender
  <1>6. Unbegun' /\ PendingAccounted'
    BY <1>1 DEF JobInv, Unbegun, PendingAccounted
  <1> QED
    BY <1>4, <1>5, <1>6 DEF JobInv

LEMMA BeginJobs ==
    ASSUME JobTypes, JobInv, NEW n \in Rounds, Begin(n)
    PROVE  JobTypes' /\ JobInv'
  <1>1. UNCHANGED <<pending, holder, at>> /\ begun' = begun \cup {n} /\ n \notin begun
        /\ req' = [j \in Jobs |-> IF j[1] = n /\ online[j[2]] # None THEN "lock" ELSE req[j]]
    BY DEF Begin
  <1>2. JobTypes'
    BY <1>1 DEF JobTypes, ReqState
  <1>3. ASSUME NEW j \in Jobs
        PROVE  \/ req'[j] = req[j]
               \/ req'[j] = "lock" /\ j[1] = n /\ req[j] = "none" /\ j \notin pending
    BY <1>1 DEF JobInv, Unbegun
  <1>4. OneSender'
    BY <1>1, <1>3 DEF JobInv, OneSender
  <1>5. Unbegun'
    BY <1>1, <1>3 DEF JobInv, Unbegun
  <1>6. PendingAccounted'
    BY <1>1, <1>3, JobTypes DEF JobTypes, JobInv, PendingAccounted
  <1> QED
    BY <1>2, <1>4, <1>5, <1>6 DEF JobInv

\* What a step of the job j must show: it sets req[j] to a new value, registers
\* or drops the future of j only, and moves the lock only with "sending".
LEMMA OneJob ==
    ASSUME JobTypes, JobInv, NEW j \in Jobs, NEW new \in ReqState, req[j] # "none",
           req' = [req EXCEPT ![j] = new], begun' = begun,
           pending' \in {pending, pending \cup {j}, pending \ {j}},
           at' \in [Jobs -> Conns \cup {None}],
           j \in pending' => new \in {"sending", "waiting", "expired", "sendError"},
           \/ holder' = holder /\ (new = "sending" <=> req[j] = "sending")
           \/ holder = None /\ holder' = j /\ new = "sending"
           \/ req[j] = "sending" /\ holder' = None /\ new # "sending"
    PROVE  JobTypes' /\ JobInv'
  <1>1. JobTypes'
    BY DEF JobTypes
  <1>2. req'[j] = new /\ \A k \in Jobs \ {j} : req'[k] = req[k]
    BY DEF JobTypes
  <1>3. \A k \in Jobs \ {j} : k \in pending' <=> k \in pending
    OBVIOUS
  <1>4. OneSender'
    BY <1>2, Names DEF JobInv, OneSender
  <1>5. Unbegun'
    BY <1>2, <1>3 DEF JobInv, Unbegun
  <1>6. PendingAccounted'
    BY <1>1, <1>2, <1>3 DEF JobTypes, JobInv, PendingAccounted
  <1> QED
    BY <1>1, <1>4, <1>5, <1>6 DEF JobInv

LEMMA JobStepJobs ==
    ASSUME JobTypes, JobInv, ListTypes, NEW j \in Jobs, JobStep(j)
    PROVE  JobTypes' /\ JobInv'
  <1>0. online[j[2]] \in Conns \cup {None}
    BY JobParts DEF ListTypes
  <1>a. j \in pending => req[j] \in {"sending", "waiting", "expired", "sendError"}
    BY DEF JobInv, PendingAccounted
  <1>b. req[j] = "sending" <=> holder = j
    BY DEF JobInv, OneSender
  <1>1. CASE Take(j)
    <2>1. CASE online[j[2]] = None
      BY <1>1, <1>a, <2>1, OneJob DEF Take, ReqState, JobTypes
    <2>2. CASE online[j[2]] # None
      <3>1. at' \in [Jobs -> Conns \cup {None}]
        BY <1>0, <1>1, <2>2 DEF Take, JobTypes
      <3> QED
        BY <1>1, <2>2, <3>1, OneJob DEF Take, Free, ReqState
    <2> QED
      BY <2>1, <2>2
  <1>2. CASE Sent(j)
    <2>1. at' \in [Jobs -> Conns \cup {None}]
      BY <1>2 DEF Sent, JobTypes
    <2> QED
      BY <1>2, <2>1, OneJob DEF Sent, ReqState
  <1>3. CASE SendFails(j)
    <2>1. at' \in [Jobs -> Conns \cup {None}]
      BY <1>3 DEF SendFails, JobTypes
    <2> QED
      BY <1>3, <2>1, OneJob DEF SendFails, ReqState
  <1>4. CASE RecordResult(j)
    <2>1. at' \in [Jobs -> Conns \cup {None}]
      BY <1>4 DEF RecordResult, JobTypes
    <2>2. CASE j \in pending /\ req[j] = "waiting"
      BY <1>4, <2>1, <2>2, OneJob DEF RecordResult, ReqState
    <2>3. CASE ~(j \in pending /\ req[j] = "waiting")
      <3>1. UNCHANGED <<holder, begun, req>> /\ pending' = pending \ {j}
        BY <1>4, <2>3 DEF RecordResult
      <3>2. JobTypes'
        BY <2>1, <3>1 DEF JobTypes
      <3>3. JobInv'
        BY <3>1 DEF JobInv, OneSender, Unbegun, PendingAccounted
      <3> QED
        BY <3>2, <3>3
    <2> QED
      BY <2>2, <2>3
  <1>5. CASE Answered(j)
    BY <1>5, <1>a, OneJob DEF Answered, ReqState, JobTypes
  <1>6. CASE Expire(j)
    BY <1>6, OneJob DEF Expire, ReqState, JobTypes
  <1>7. CASE Forget(j)
    BY <1>7, OneJob DEF Forget, ReqState, JobTypes
  <1> QED
    BY <1>1, <1>2, <1>3, <1>4, <1>5, <1>6, <1>7 DEF JobStep

\* The requests leave the list of connections alone.
LEMMA JobStepList ==
    ASSUME ListTypes, ListInv,
           (\E n \in Rounds : Begin(n)) \/ (\E j \in Jobs : JobStep(j)) \/ UNCHANGED vars
    PROVE  ListTypes' /\ ListInv'
  <1>1. UNCHANGED <<online, disabled, conns>>
    BY DEF Begin, JobStep, Take, Sent, SendFails, RecordResult, Answered, Expire, Forget,
           vars
  <1> QED
    BY <1>1 DEF ListTypes, ListInv, ServedIsOnline, OnlineIsServed, DisabledOnlyLate,
                AdmittedLate, Reachable

LEMMA StepInv ==
    ASSUME IInv, [Next]_vars
    PROVE  IInv'
  <1>1. ListTypes /\ JobTypes /\ ListInv /\ JobInv
    BY Parts
  <1>2. ListTypes' /\ ListInv'
    BY <1>1, ListStep, JobStepList DEF Next
  <1>3. JobTypes' /\ JobInv'
    <2>1. CASE UNCHANGED vars
      BY <1>1, <2>1 DEF vars, JobTypes, JobInv, OneSender, Unbegun, PendingAccounted
    <2>2. CASE Next
      BY <1>1, <2>2, ListStepJobs, BeginJobs, JobStepJobs DEF Next
    <2> QED
      BY <2>1, <2>2
  <1> QED
    BY <1>2, <1>3 DEF IInv, TypeOK, ListTypes, JobTypes, ListInv, JobInv

LEMMA Invariance == Spec => []IInv
  BY InitInv, StepInv, PTL DEF Spec

\* The variables have their types.
THEOREM TypeCorrect == Spec => []TypeOK
  <1>1. IInv => TypeOK
    BY DEF IInv
  <1> QED
    BY <1>1, Invariance, PTL

\* However connections replace one another, end late, are refused or are closed
\* by the administrator, the list of online agents is the list of the live
\* handlers: one in its loop that was not closed is listed, and whoever is
\* listed has a handler for that agent.
THEOREM ListIsTrue == Spec => [](ServedIsOnline /\ OnlineIsServed)
  <1>1. IInv => ServedIsOnline /\ OnlineIsServed
    BY DEF IInv
  <1> QED
    BY <1>1, Invariance, PTL

\* A disabled agent is online only over a connection that passed is_disabled()
\* before it was disabled.
THEOREM DisabledIsOffline == Spec => []DisabledOnlyLate
  <1>1. IInv => DisabledOnlyLate
    BY DEF IInv
  <1> QED
    BY <1>1, Invariance, PTL

\* The lock is held by the one request that is being sent.
THEOREM SendsAlone == Spec => []OneSender
  <1>1. IInv => OneSender
    BY DEF IInv
  <1> QED
    BY <1>1, Invariance, PTL

\* No future of a job that has ended is kept, save those whose request could
\* not be sent.
THEOREM FuturesAccounted == Spec => []PendingAccounted
  <1>1. IInv => PendingAccounted
    BY DEF IInv
  <1> QED
    BY <1>1, Invariance, PTL

-----------------------------------------------------------------------------
(* The registry implements the exchange.                                   *)

LEMMA OutcomeOf ==
    ASSUME NEW j \in Jobs
    PROVE  Outcome[j] = IF req[j] = "none" THEN "none"
                        ELSE IF req[j] \in {"set", "answer"} THEN "answer"
                        ELSE IF req[j] \in {"expired", "error", "sendError"} THEN "error"
                        ELSE "asked"
  BY DEF Outcome

\* A step of the job j that leaves its outcome alone is a stutter ...
LEMMA SameOutcome ==
    ASSUME JobTypes, begun' = begun, NEW j \in Jobs, NEW new \in ReqState,
           req' = [req EXCEPT ![j] = new],
           Outcome'[j] = Outcome[j]
    PROVE  UNCHANGED <<begun, Outcome>>
  <1>1. ASSUME NEW k \in Jobs PROVE Outcome'[k] = Outcome[k]
    <2>1. CASE k # j
      <3>1. req'[k] = req[k]
        BY <2>1 DEF JobTypes
      <3> QED
        BY <3>1 DEF Outcome
    <2>2. CASE k = j
      BY <2>2
    <2> QED
      BY <2>1, <2>2
  <1>2. Outcome' = [k \in Jobs |-> Outcome'[k]] /\ Outcome = [k \in Jobs |-> Outcome[k]]
    BY DEF Outcome
  <1> QED
    BY <1>1, <1>2

\* ... and one that decides it settles the job.
LEMMA NewOutcome ==
    ASSUME JobTypes, begun' = begun, NEW j \in Jobs, NEW new \in ReqState,
           req' = [req EXCEPT ![j] = new],
           Outcome[j] = "asked", NEW result \in {"answer", "error"}, Outcome'[j] = result
    PROVE  Exchange!Next
  <1>1. ASSUME NEW k \in Jobs PROVE Outcome'[k] = [Outcome EXCEPT ![j] = result][k]
    <2>1. CASE k # j
      <3>1. req'[k] = req[k]
        BY <2>1 DEF JobTypes
      <3> QED
        BY <2>1, <3>1 DEF Outcome
    <2>2. CASE k = j
      BY <2>2 DEF Outcome
    <2> QED
      BY <2>1, <2>2
  <1>2. /\ Outcome' = [k \in Jobs |-> Outcome'[k]]
        /\ [Outcome EXCEPT ![j] = result] = [k \in Jobs |-> [Outcome EXCEPT ![j] = result][k]]
    BY DEF Outcome
  <1>3. Outcome' = [Outcome EXCEPT ![j] = result]
    BY <1>1, <1>2
  <1>4. Exchange!Settle(j, result)
    BY <1>3 DEF Exchange!Settle
  <1> QED
    BY <1>4 DEF Exchange!Next, Jobs

LEMMA BeginRefines ==
    ASSUME JobTypes, NEW n \in Rounds, Begin(n)
    PROVE  Exchange!Next
  <1> DEFINE chosen == {a \in Agents : online[a] # None}
             asked  == [j \in Jobs |-> IF j[1] = n /\ j[2] \in chosen THEN "asked"
                                       ELSE Outcome[j]]
  <1>1. ASSUME NEW j \in Jobs PROVE Outcome'[j] = asked[j]
    <2>1. j[2] \in chosen <=> online[j[2]] # None
      BY JobParts
    <2>2. req'[j] = IF j[1] = n /\ j[2] \in chosen THEN "lock" ELSE req[j]
      BY <2>1 DEF Begin
    <2> QED
      BY <2>2 DEF Outcome
  <1>2. Outcome' = [j \in Jobs |-> Outcome'[j]] /\ asked = [j \in Jobs |-> asked[j]]
    BY DEF Outcome
  <1>3. Outcome' = asked
    BY <1>1, <1>2
  <1>4. Exchange!Begin(n, chosen)
    BY <1>3 DEF Exchange!Begin, Begin, Jobs
  <1>5. chosen \in SUBSET Agents
    OBVIOUS
  <1> HIDE DEF chosen
  <1> QED
    BY <1>4, <1>5 DEF Exchange!Next

LEMMA JobRefines ==
    ASSUME JobTypes, JobInv, NEW j \in Jobs, JobStep(j)
    PROVE  Exchange!Next \/ UNCHANGED <<begun, Outcome>>
  <1>0. begun' = begun
    BY DEF JobStep, Take, Sent, SendFails, RecordResult, Answered, Expire, Forget
  <1>1. PICK new \in ReqState :
          /\ req' = [req EXCEPT ![j] = new]
          /\ \/ new = req[j]
             \/ req[j] = "lock" /\ new \in {"sending", "error"}
             \/ req[j] = "sending" /\ new \in {"waiting", "sendError"}
             \/ req[j] = "waiting" /\ new \in {"set", "expired"}
             \/ req[j] = "set" /\ new = "answer"
             \/ req[j] = "expired" /\ new = "error"
    <2>1. CASE RecordResult(j)
      <3>1. CASE j \in pending /\ req[j] = "waiting"
        BY <2>1, <3>1 DEF RecordResult, ReqState
      <3>2. CASE ~(j \in pending /\ req[j] = "waiting")
        <4>1. req' = req
          BY <2>1, <3>2 DEF RecordResult
        <4>2. req' = [req EXCEPT ![j] = req[j]] /\ req[j] \in ReqState
          BY <4>1 DEF JobTypes
        <4> QED
          BY <4>2
      <3> QED
        BY <3>1, <3>2
    <2>2. CASE Take(j)
      BY <2>2 DEF Take, ReqState
    <2>3. CASE Sent(j) \/ SendFails(j) \/ Answered(j) \/ Expire(j) \/ Forget(j)
      BY <2>3 DEF Sent, SendFails, Answered, Expire, Forget, ReqState
    <2> QED
      BY <2>1, <2>2, <2>3 DEF JobStep
  <1>2. req'[j] = new
    BY <1>1 DEF JobTypes
  <1>3. \/ Outcome'[j] = Outcome[j]
        \/ Outcome[j] = "asked" /\ Outcome'[j] \in {"answer", "error"}
    BY <1>1, <1>2 DEF Outcome
  <1>4. CASE Outcome'[j] = Outcome[j]
    BY <1>0, <1>1, <1>4, SameOutcome
  <1>5. CASE Outcome[j] = "asked" /\ Outcome'[j] \in {"answer", "error"}
    BY <1>0, <1>1, <1>5, NewOutcome
  <1> QED
    BY <1>3, <1>4, <1>5

\* However a result, a time-out, a failed send and the loss of the connection
\* race, every agent asked gets one outcome that nothing changes afterwards:
\* record_result() and _request_check_or_error() implement the exchange.
THEOREM Implements == Spec => ImplementsExchange
  <1>1. Init => Exchange!Init
    BY DEF Init, Exchange!Init, Outcome, Jobs
  <1>2. ASSUME IInv, [Next]_vars PROVE [Exchange!Next]_<<begun, Outcome>>
    <2>1. JobTypes /\ JobInv
      BY <1>2, Parts
    <2>2. CASE UNCHANGED vars
      BY <2>2 DEF vars, Outcome
    <2>3. CASE (\E c \in Conns : ConnStep(c)) \/ AdminStep
      <3>1. UNCHANGED <<begun, req>>
        BY <2>3 DEF ConnStep, AdminStep, Hello, Admit, Register, Acknowledge, Drop, Leave,
               Disable, Enable, AdminSends, AdminSent, Reachable
      <3> QED
        BY <3>1 DEF Outcome
    <2>4. ASSUME NEW n \in Rounds, Begin(n) PROVE Exchange!Next
      BY <2>1, <2>4, BeginRefines
    <2>5. ASSUME NEW j \in Jobs, JobStep(j) PROVE Exchange!Next \/ UNCHANGED <<begun, Outcome>>
      BY <2>1, <2>5, JobRefines
    <2> QED
      BY <1>2, <2>2, <2>3, <2>4, <2>5 DEF Next
  <1> QED
    BY <1>1, <1>2, Invariance, PTL DEF Spec, ImplementsExchange, Exchange!Spec
================================================================================
