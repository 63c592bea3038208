------------------------------ MODULE AgentClient ------------------------------
(***************************************************************************)
(* The remote agent: agent/client.py.  run_forever() keeps a WebSocket       *)
(* connection to the server; every check request becomes a task; a          *)
(* semaphore, which outlives the connections, bounds the running checks.    *)
(*                                                                         *)
(* AgentRegistry is the other end.  It takes for granted of an agent that a *)
(* lost connection takes the unanswered jobs with it and that a job is      *)
(* answered at most once; here is how the agent sees to it.                 *)
(***************************************************************************)
EXTENDS Naturals, Sequences, FiniteSets

CONSTANTS
    Jobs,           \* the check requests of the server
    MaxConcurrent,  \* AGENT_MAX_CONCURRENT_CHECKS
    MinDelay,       \* AGENT_RECONNECT_MIN_SECONDS
    MaxDelay        \* AGENT_RECONNECT_MAX_SECONDS

ClientAssumption ==
    /\ MaxConcurrent \in Nat \ {0}
    /\ MinDelay \in Nat \ {0} /\ MaxDelay \in Nat /\ MinDelay <= MaxDelay

ASSUME ClientAssumption

VARIABLES
    link,       \* where run_forever() and _connect_once() are
    delay,      \* seconds of the next sleep before reconnecting
    jobs,       \* _handle_check() of each request
    queue,      \* the waiters of the semaphore, first come first
    free,       \* its value
    answered,   \* the jobs whose result reached the server
    peer,       \* the server's end of the connection, as the agent will read it
    refusing    \* nobody accepts connections

vars == <<link, delay, jobs, queue, free, answered, peer, refusing>>

Link == {"connecting", "open", "closing", "cancelling", "sleeping"}

\* granted: the permit is handed over but the task has not resumed.
JobState == {"none", "new", "queued", "granted", "running", "sending", "done"}

Init ==
    /\ link = "connecting"
    /\ delay = MinDelay
    /\ jobs = [j \in Jobs |-> "none"]
    /\ queue = <<>>
    /\ free = MaxConcurrent
    /\ answered = {}
    /\ peer = "closed"
    /\ refusing = FALSE

Active == {j \in Jobs : jobs[j] \notin {"none", "done"}}    \* self.tasks
Holders == {j \in Jobs : jobs[j] \in {"granted", "running", "sending"}}

-----------------------------------------------------------------------------
(* The connection.                                                         *)

\* ws_connect(), the hello and the start of the heartbeat.
Connect ==
    /\ link = "connecting" /\ ~refusing
    /\ link' = "open" /\ peer' = "up"
    /\ UNCHANGED <<delay, jobs, queue, free, answered, refusing>>

\* Either of the two sends raises, or nobody answers.
ConnectFails ==
    /\ link = "connecting"
    /\ link' = "sleeping"
    /\ UNCHANGED <<delay, jobs, queue, free, answered, peer, refusing>>

\* Mutated form of Wake: the delay grows without the bound.
WakeUnbounded ==
    /\ link = "sleeping"
    /\ link' = "connecting" /\ delay' = 2 * delay
    /\ UNCHANGED <<jobs, queue, free, answered, peer, refusing>>

\* The sleep is over; the delay doubles for the next failure.
Wake ==
    /\ link = "sleeping"
    /\ link' = "connecting"
    /\ delay' = IF 2 * delay > MaxDelay THEN MaxDelay ELSE 2 * delay
    /\ UNCHANGED <<jobs, queue, free, answered, peer, refusing>>

\* The message loop ends, and the heartbeat is cancelled and awaited.
Leave ==
    /\ link = "open" /\ peer # "up"
    /\ link' = "closing"
    /\ UNCHANGED <<delay, jobs, queue, free, answered, peer, refusing>>

\* Every task is cancelled: no waiter of the semaphore is woken from now on.
CancelAll ==
    /\ link = "closing"
    /\ link' = "cancelling" /\ queue' = <<>>
    /\ UNCHANGED <<delay, jobs, free, answered, peer, refusing>>

\* Mutated form of Left: run_forever() ends with a connection that ends well.
LeftForGood ==
    /\ link = "cancelling" /\ Active = {} /\ peer # "closed"
    /\ link' = "sleeping"
    /\ UNCHANGED <<delay, jobs, queue, free, answered, peer, refusing>>

\* All of them have ended.  A loop that ended by itself reconnects at once,
\* with the shortest delay; one that raised sleeps first.
Left ==
    /\ link = "cancelling" /\ Active = {}
    /\ IF peer = "closed" THEN link' = "connecting" /\ delay' = MinDelay
                          ELSE link' = "sleeping" /\ UNCHANGED delay
    /\ UNCHANGED <<jobs, queue, free, answered, peer, refusing>>

-----------------------------------------------------------------------------
(* The tasks.                                                              *)

\* _handle_message(): check.request
Receive(j) ==
    /\ link = "open" /\ peer = "up" /\ jobs[j] = "none"
    /\ jobs' = [jobs EXCEPT ![j] = "new"]
    /\ UNCHANGED <<link, delay, queue, free, answered, peer, refusing>>

\* The task starts and acquires the semaphore, or waits for it.
Begin(j) ==
    /\ link # "cancelling" /\ jobs[j] = "new"
    /\ IF free > 0 /\ queue = <<>>
       THEN /\ free' = free - 1 /\ UNCHANGED queue
            /\ jobs' = [jobs EXCEPT ![j] = "running"]
       ELSE /\ queue' = Append(queue, j) /\ UNCHANGED free
            /\ jobs' = [jobs EXCEPT ![j] = "queued"]
    /\ UNCHANGED <<link, delay, answered, peer, refusing>>

Resume(j) ==
    /\ link # "cancelling" /\ jobs[j] = "granted"
    /\ jobs' = [jobs EXCEPT ![j] = "running"]
    /\ UNCHANGED <<link, delay, queue, free, answered, peer, refusing>>

\* The task j ends and gives its permit to the first waiter, or back.
Release(j) ==
    IF queue = <<>>
    THEN /\ free' = free + 1 /\ UNCHANGED queue
         /\ jobs' = [jobs EXCEPT ![j] = "done"]
    ELSE /\ queue' = Tail(queue) /\ UNCHANGED free
         /\ jobs' = [jobs EXCEPT ![j] = "done", ![Head(queue)] = "granted"]

\* Mutated form of Answer: a check that failed is not reported.
AnswerIfEnded(j) ==
    /\ link = "open" /\ peer = "up" /\ jobs[j] = "running"
    /\ \/ /\ jobs' = [jobs EXCEPT ![j] = "sending"]
          /\ answered' = answered \cup {j}
          /\ UNCHANGED <<queue, free>>
       \/ Release(j) /\ UNCHANGED answered
    /\ UNCHANGED <<link, delay, peer, refusing>>

\* The check ended, or failed, or its timeout is over: one result is sent.
Answer(j) ==
    /\ link = "open" /\ peer = "up" /\ jobs[j] = "running"
    /\ jobs' = [jobs EXCEPT ![j] = "sending"]
    /\ answered' = answered \cup {j}
    /\ UNCHANGED <<link, delay, queue, free, peer, refusing>>

Sent(j) ==
    /\ link # "cancelling" /\ jobs[j] = "sending"
    /\ Release(j)
    /\ UNCHANGED <<link, delay, answered, peer, refusing>>

\* The result has no connection to go to: send_json() raises.
Lost(j) ==
    /\ link # "cancelling" /\ peer # "up" /\ jobs[j] = "running"
    /\ Release(j)
    /\ UNCHANGED <<link, delay, answered, peer, refusing>>

\* Mutated form of Cancelled: a permit handed to a cancelled waiter is lost.
CancelledLosing(j) ==
    /\ link = "cancelling" /\ j \in Active
    /\ IF jobs[j] \in {"running", "sending"}
       THEN Release(j)
       ELSE jobs' = [jobs EXCEPT ![j] = "done"] /\ UNCHANGED <<queue, free>>
    /\ UNCHANGED <<link, delay, answered, peer, refusing>>

\* A cancelled task ends where it was.  One that held a permit returns it,
\* also when the permit had only been handed over.
Cancelled(j) ==
    /\ link = "cancelling" /\ j \in Active
    /\ IF j \in Holders
       THEN Release(j)
       ELSE jobs' = [jobs EXCEPT ![j] = "done"] /\ UNCHANGED <<queue, free>>
    /\ UNCHANGED <<link, delay, answered, peer, refusing>>

-----------------------------------------------------------------------------
(* The other end.                                                          *)

\* The server closes (replaced, disabled or refused agent, shutdown) or the
\* stream ends: the loop ends by itself.  After a protocol error it raises.
PeerGone ==
    /\ link = "open" /\ peer = "up"
    /\ peer' \in {"closed", "error"}
    /\ UNCHANGED <<link, delay, jobs, queue, free, answered, refusing>>

Weather ==
    /\ refusing' = ~refusing
    /\ UNCHANGED <<link, delay, jobs, queue, free, answered, peer>>

-----------------------------------------------------------------------------
Work(j) == Begin(j) \/ Resume(j) \/ Answer(j) \/ Sent(j) \/ Lost(j) \/ Cancelled(j)

Reconnect == Connect \/ ConnectFails \/ Wake

Next ==
    \/ Reconnect \/ Leave \/ CancelAll \/ Left
    \/ \E j \in Jobs : Receive(j) \/ Work(j)
    \/ PeerGone \/ Weather

Spec == Init /\ [][Next]_vars

\* The event loop runs what is ready, a sleep ends, wait_for() bounds a check,
\* and a connection that somebody accepts is made.
FairSpec ==
    /\ Spec
    /\ WF_vars(Wake) /\ WF_vars(Leave) /\ WF_vars(CancelAll) /\ WF_vars(Left)
    /\ WF_vars(ConnectFails) /\ SF_vars(Connect)
    /\ \A j \in Jobs : WF_vars(Work(j))

-----------------------------------------------------------------------------
(* Properties.                                                             *)

\* Types; the delay of run_forever() stays between its two bounds.
TypeOK ==
    /\ link \in Link
    /\ delay \in MinDelay .. MaxDelay
    /\ jobs \in [Jobs -> JobState]
    /\ queue \in Seq(Jobs)
    /\ free \in 0 .. MaxConcurrent
    /\ answered \subseteq Jobs
    /\ peer \in {"up", "closed", "error"}
    /\ refusing \in BOOLEAN

\* Whatever way connections and tasks end (client.py:50-56), no permit of the
\* semaphore is lost or made, and none is idle while a task waits for one.
PermitsBalanced ==
    /\ free + Cardinality(Holders) = MaxConcurrent
    /\ queue # <<>> => free = 0

\* A request that is received is answered, as long as the connection lives,
\* however many requests compete for the permits (client.py:81-89).
Answered ==
    \A j \in Jobs : j \in Active ~> j \in answered \/ peer # "up"

\* When the server stays reachable the agent is connected again and again
\* (client.py:24-33).
Returns == <>[](~refusing) => []<>(link = "open")

=============================================================================
