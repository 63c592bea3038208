----------------------------- MODULE AgentRegistry -----------------------------
(***************************************************************************)
(* The registry of remote agents: bot/agent_server/registry.py with the     *)
(* WebSocket handler of server.py.  Agents connect, are replaced by newer   *)
(* connections of the same agent, are disabled by the administrator and     *)
(* drop; rounds of check requests are sent to whoever is online.            *)
(*                                                                         *)
(* One asyncio.Lock guards the registry.  A method that does not await      *)
(* while it holds the lock is one action, enabled when the lock is free;    *)
(* request_check() and send_check() hold it during send_json().             *)
(***************************************************************************)
EXTENDS Naturals, FiniteSets

CONSTANTS
    Agents,     \* agent ids
    Conns,      \* WebSocket connections; one may be used again after its end
    Rounds,     \* calls of request_check_all()
    None,       \* no connection, nobody
    Admin       \* send_check() of the admin console, as a holder of the lock

RegistryAssumption ==
    /\ None \notin Conns \cup Agents
    /\ None \notin Rounds \X Agents
    /\ Admin \notin (Rounds \X Agents) \cup {None}

ASSUME RegistryAssumption

Jobs == Rounds \X Agents

VARIABLES
    online,     \* _agents: the connection each agent is reached by
    disabled,   \* _disabled_agents
    pending,    \* _pending: the jobs whose future is registered
    holder,     \* who holds _lock across an await
    conns,      \* the WebSocket handlers
    begun,      \* the rounds that have listed the online agents
    req,        \* request_check() of each job
    at          \* the connection a job is being sent to, or whose agent works on it

vars == <<online, disabled, pending, holder, conns, begun, req, at>>

\* late is history: the agent was disabled after this connection was admitted.
Off == [pc |-> "off", agent |-> None, closing |-> FALSE, late |-> FALSE]

Conn == [pc : {"off", "hello", "admitted", "registered", "loop", "ending"}, agent : Agents \cup {None},
         closing : BOOLEAN, late : BOOLEAN]

ReqState == {"none", "lock", "sending", "waiting", "set", "expired",
             "answer", "error", "sendError"}

Init ==
    /\ online = [a \in Agents |-> None]
    /\ disabled = {}
    /\ pending = {}
    /\ holder = None
    /\ conns = [c \in Conns |-> Off]
    /\ begun = {}
    /\ req = [j \in Jobs |-> "none"]
    /\ at = [j \in Jobs |-> None]

-----------------------------------------------------------------------------
(* Connections.                                                            *)

Free == holder = None

\* The server closes the connection c, if there is one: its loop will end.
Closed(c) == IF c = None THEN conns ELSE [conns EXCEPT ![c].closing = TRUE]

\* Mutated form of Hello: an empty agent_id is not refused.
HelloUnnamed(c, a) ==
    /\ conns[c].pc = "off"
    /\ conns' = [conns EXCEPT ![c] = [Off EXCEPT !.pc = "hello"]]
    /\ UNCHANGED <<online, disabled, pending, holder, begun, req, at>>

\* agents_ws() has received a valid hello of agent a.
Hello(c, a) ==
    /\ conns[c].pc = "off"
    /\ conns' = [conns EXCEPT ![c] =
                   [pc |-> "hello", agent |-> a, closing |-> FALSE, late |-> FALSE]]
    /\ UNCHANGED <<online, disabled, pending, holder, begun, req, at>>

\* is_disabled()
Admit(c) ==
    /\ conns[c].pc = "hello" /\ Free
    /\ conns' = [conns EXCEPT ![c].pc =
                   IF conns[c].agent \in disabled THEN "ending" ELSE "admitted"]
    /\ UNCHANGED <<online, disabled, pending, holder, begun, req, at>>

\* register(): from here on the agent is sent requests over this connection, while the
\* handler awaits that the older one closes.
Register(c) ==
    LET a == conns[c].agent
    IN  /\ conns[c].pc = "admitted" /\ Free
        /\ online' = [online EXCEPT ![a] = c]
        /\ conns' = [Closed(online[a]) EXCEPT ![c].pc = "registered"]
        /\ UNCHANGED <<disabled, pending, holder, begun, req, at>>

\* The older connection is closed, the acknowledgement is sent, the message loop starts.
Acknowledge(c) ==
    /\ conns[c].pc = "registered"
    /\ conns' = [conns EXCEPT ![c].pc = "loop"]
    /\ UNCHANGED <<online, disabled, pending, holder, begun, req, at>>

\* A handler in one of these places can be reached by its agent's requests.
Reachable == {"registered", "loop"}

\* The handler leaves: the peer is gone, the heartbeat failed, or the server
\* closed the connection.  What the remote agent was working on is lost.
Drop(c) ==
    /\ conns[c].pc \in {"hello", "admitted"} \cup Reachable
    /\ conns' = [conns EXCEPT ![c].pc = "ending"]
    /\ at' = [j \in Jobs |-> IF at[j] = c /\ req[j] # "sending" THEN None ELSE at[j]]
    /\ UNCHANGED <<online, disabled, pending, holder, begun, req>>

\* Mutated form of Leave: whichever connection is registered is removed.
LeaveForAll(c) ==
    /\ conns[c].pc = "ending" /\ Free
    /\ online' = [online EXCEPT ![conns[c].agent] = None]
    /\ conns' = [conns EXCEPT ![c] = Off]
    /\ UNCHANGED <<disabled, pending, holder, begun, req, at>>

\* The finally clause: unregister() removes this connection only.
Leave(c) ==
    LET a == conns[c].agent
    IN  /\ conns[c].pc = "ending" /\ Free
        /\ online' = [online EXCEPT ![a] = IF @ = c THEN None ELSE @]
        /\ conns' = [conns EXCEPT ![c] = Off]
        /\ UNCHANGED <<disabled, pending, holder, begun, req, at>>

\* Mutated form of Disable: the agent online now stays.
DisableLater(a) ==
    /\ Free
    /\ disabled' = disabled \cup {a}
    /\ UNCHANGED <<online, pending, holder, conns, begun, req, at>>

Disable(a) ==
    LET overtaken == [c \in Conns |-> [conns[c] EXCEPT
                        !.late = @ \/ (conns[c].pc = "admitted" /\ conns[c].agent = a),
                        !.closing = @ \/ c = online[a]]]
    IN  /\ Free
        /\ disabled' = disabled \cup {a}
        /\ online' = [online EXCEPT ![a] = None]
        /\ conns' = overtaken
        /\ UNCHANGED <<pending, holder, begun, req, at>>

Enable(a) ==
    /\ Free
    /\ disabled' = disabled \ {a}
    /\ UNCHANGED <<online, pending, holder, conns, begun, req, at>>

-----------------------------------------------------------------------------
(* Requests.                                                               *)

\* request_check_all(): one task per agent online at this moment.
Begin(n) ==
    /\ n \notin begun /\ Free
    /\ begun' = begun \cup {n}
    /\ req' = [j \in Jobs |-> IF j[1] = n /\ online[j[2]] # None THEN "lock" ELSE req[j]]
    /\ UNCHANGED <<online, disabled, pending, holder, conns, at>>

\* Mutated form of Take: a request for an agent that left waits for it.
TakeWaits(j) ==
    /\ req[j] = "lock" /\ Free /\ online[j[2]] # None
    /\ req' = [req EXCEPT ![j] = "sending"]
    /\ pending' = pending \cup {j}
    /\ holder' = j
    /\ at' = [at EXCEPT ![j] = online[j[2]]]
    /\ UNCHANGED <<online, disabled, conns, begun>>

\* request_check() has the lock: the future is registered before the send.
Take(j) ==
    /\ req[j] = "lock" /\ Free
    /\ IF online[j[2]] = None
       THEN /\ req' = [req EXCEPT ![j] = "error"]
            /\ UNCHANGED <<pending, holder, at>>
       ELSE /\ req' = [req EXCEPT ![j] = "sending"]
            /\ pending' = pending \cup {j}
            /\ holder' = j
            /\ at' = [at EXCEPT ![j] = online[j[2]]]
    /\ UNCHANGED <<online, disabled, conns, begun>>

\* send_json() returned; a frame to a peer that is gone arrives nowhere.
Sent(j) ==
    /\ req[j] = "sending"
    /\ req' = [req EXCEPT ![j] = "waiting"]
    /\ holder' = None
    /\ at' = [at EXCEPT ![j] = IF conns[@].pc \in Reachable THEN @ ELSE None]
    /\ UNCHANGED <<online, disabled, pending, conns, begun>>

\* send_json() raised: the future stays in _pending, for the try comes later.
SendFails(j) ==
    /\ req[j] = "sending"
    /\ req' = [req EXCEPT ![j] = "sendError"]
    /\ holder' = None
    /\ at' = [at EXCEPT ![j] = None]
    /\ UNCHANGED <<online, disabled, pending, conns, begun>>

\* A remote agent has the job, and the loop that would read its result has begun.
Working(j) == at[j] # None /\ req[j] # "sending" /\ conns[at[j]].pc = "loop"

\* Mutated form of RecordResult: the state of the future is not asked for.
RecordAlways(j) ==
    /\ Working(j) /\ Free
    /\ at' = [at EXCEPT ![j] = None]
    /\ pending' = pending \ {j}
    /\ req' = IF j \in pending THEN [req EXCEPT ![j] = "set"] ELSE req
    /\ UNCHANGED <<online, disabled, holder, conns, begun>>

\* record_result(): the result of a job arrives on its connection.
RecordResult(j) ==
    /\ Working(j) /\ Free
    /\ at' = [at EXCEPT ![j] = None]
    /\ pending' = pending \ {j}
    /\ req' = IF j \in pending /\ req[j] = "waiting" THEN [req EXCEPT ![j] = "set"] ELSE req
    /\ UNCHANGED <<online, disabled, holder, conns, begun>>

\* wait_for() returns the result of the future.
Answered(j) ==
    /\ req[j] = "set"
    /\ req' = [req EXCEPT ![j] = "answer"]
    /\ UNCHANGED <<online, disabled, pending, holder, conns, begun, at>>

\* wait_for() gives up and cancels the future.
Expire(j) ==
    /\ req[j] = "waiting"
    /\ req' = [req EXCEPT ![j] = "expired"]
    /\ UNCHANGED <<online, disabled, pending, holder, conns, begun, at>>

\* Mutated form of Forget: the future stays registered.
ForgetNothing(j) ==
    /\ req[j] = "expired" /\ Free
    /\ req' = [req EXCEPT ![j] = "error"]
    /\ UNCHANGED <<online, disabled, pending, holder, conns, begun, at>>

\* The except clause takes the lock and drops the future.
Forget(j) ==
    /\ req[j] = "expired" /\ Free
    /\ req' = [req EXCEPT ![j] = "error"]
    /\ pending' = pending \ {j}
    /\ UNCHANGED <<online, disabled, holder, conns, begun, at>>

\* send_check() of the admin console holds the lock too, but waits for nothing.
AdminSends(a) ==
    /\ Free /\ online[a] # None
    /\ holder' = Admin
    /\ UNCHANGED <<online, disabled, pending, conns, begun, req, at>>

AdminSent ==
    /\ holder = Admin
    /\ holder' = None
    /\ UNCHANGED <<online, disabled, pending, conns, begun, req, at>>

ConnStep(c) ==
    \/ \E a \in Agents : Hello(c, a)
    \/ Admit(c) \/ Register(c) \/ Acknowledge(c) \/ Drop(c) \/ Leave(c)

JobStep(j) ==
    \/ Take(j) \/ Sent(j) \/ SendFails(j) \/ RecordResult(j)
    \/ Answered(j) \/ Expire(j) \/ Forget(j)

AdminStep == AdminSent \/ \E a \in Agents : Disable(a) \/ Enable(a) \/ AdminSends(a)

Next ==
    \/ \E c \in Conns : ConnStep(c)
    \/ \E n \in Rounds : Begin(n)
    \/ \E j \in Jobs : JobStep(j)
    \/ AdminStep

Spec == Init /\ [][Next]_vars

-----------------------------------------------------------------------------
(* Properties.                                                             *)

TypeOK ==
    /\ online \in [Agents -> Conns \cup {None}]
    /\ disabled \subseteq Agents
    /\ pending \subseteq Jobs
    /\ holder \in Jobs \cup {None, Admin}
    /\ conns \in [Conns -> Conn]
    /\ \A c \in Conns : conns[c].agent = None <=> conns[c].pc = "off"
    /\ begun \subseteq Rounds
    /\ req \in [Jobs -> ReqState]
    /\ at \in [Jobs -> Conns \cup {None}]

\* A connection that has registered and that the server has not closed is the one
\* its agent is reached by: an older connection, ending late, does not take a
\* newer one off the list, and no agent has two.
ServedIsOnline ==
    \A c \in Conns :
        conns[c].pc \in Reachable /\ ~conns[c].closing => online[conns[c].agent] = c

\* Whoever is listed as online has a handler for that very agent.
OnlineIsServed ==
    \A a \in Agents :
        LET c == online[a]
        IN  c # None => conns[c].pc \in Reachable \cup {"ending"} /\ conns[c].agent = a

\* A disabled agent is online only over a connection that was admitted before
\* the administrator disabled it.
DisabledOnlyLate ==
    \A a \in disabled : online[a] # None => conns[online[a]].late

\* The dictionary of futures holds no job that has ended, save those whose
\* request could not be sent.
PendingAccounted ==
    \A j \in pending : req[j] \in {"sending", "waiting", "expired", "sendError"}

\* Only the request that holds the lock is being sent: no two frames of one
\* connection are written at once.
OneSender == \A j \in Jobs : req[j] = "sending" <=> holder = j

\* The fate of a request is decided once: cancelled, it never gets a result.
Outcome ==
    [j \in Jobs |->
        IF req[j] = "none" THEN "none"
        ELSE IF req[j] \in {"set", "answer"} THEN "answer"
        ELSE IF req[j] \in {"expired", "error", "sendError"} THEN "error" ELSE "asked"]

Exchange == INSTANCE AgentExchange WITH outcome <- Outcome

\* The registry implements the exchange: one outcome for every agent asked, and
\* an answer that comes after the time-out changes nothing.
ImplementsExchange == Exchange!Spec

-----------------------------------------------------------------------------
(* Liveness.                                                               *)

\* asyncio.Lock is fair, a send ends because of the heartbeat, and a request
\* that waits is woken by its result or by its time-out.
Fairness ==
    /\ \A j \in Jobs :
         /\ SF_vars(Take(j)) /\ SF_vars(Forget(j))
         /\ WF_vars(Sent(j) \/ SendFails(j))
         /\ WF_vars(Answered(j)) /\ WF_vars(Expire(j))
    /\ WF_vars(AdminSent)

FairSpec == Spec /\ Fairness

\* check_with_agents() returns: each request ends although agents drop, are
\* replaced, are disabled or never answer.
RequestsEnd ==
    \A j \in Jobs : req[j] = "lock" ~> req[j] \in {"answer", "error", "sendError"}
================================================================================
