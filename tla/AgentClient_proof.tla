--------------------------- MODULE AgentClient_proof ---------------------------
(* Theorems about AgentClient, for any jobs, permits and delays. *)
EXTENDS AgentClient, FiniteSetTheorems, TLAPS

\* The waiters are distinct tasks that wait, and none is left when tasks are cancelled.
QueueInv ==
    /\ \A k \in 1..Len(queue) : jobs[queue[k]] = "queued"
    /\ \A k, l \in 1..Len(queue) : k # l => queue[k] # queue[l]
    /\ link = "cancelling" => queue = <<>>

IInv ==
    /\ TypeOK
    /\ QueueInv
    /\ IsFiniteSet(Holders)
    /\ PermitsBalanced

LEMMA Bounds ==
    /\ MaxConcurrent \in Nat /\ MaxConcurrent > 0
    /\ MinDelay \in Nat /\ MaxDelay \in Nat /\ MinDelay <= MaxDelay
  BY ClientAssumption DEF ClientAssumption

LEMMA InitInv == Init => IInv
  <1> SUFFICES ASSUME Init PROVE IInv
    OBVIOUS
  <1>1. TypeOK
    <2>1. delay \in MinDelay..MaxDelay /\ free \in 0..MaxConcurrent
      BY Bounds DEF Init
    <2>2. jobs \in [Jobs -> JobState] /\ queue \in Seq(Jobs) /\ answered \subseteq Jobs
      BY DEF Init, JobState
    <2>3. link \in Link /\ peer \in {"up", "closed", "error"} /\ refusing \in BOOLEAN
      BY DEF Init, Link
    <2> QED
      BY <2>1, <2>2, <2>3 DEF TypeOK
  <1>2. QueueInv
    BY DEF Init, QueueInv
  <1>3. Holders = {}
    BY DEF Init, Holders
  <1> QED
    BY <1>1, <1>2, <1>3, FS_EmptySet, Bounds DEF Init, IInv, PermitsBalanced

\* A step of the connection leaves the tasks and the permits alone.
LEMMA Aside ==
    ASSUME IInv, UNCHANGED <<jobs, free>>, TypeOK', queue' \in {queue, <<>>},
           link' = "cancelling" => queue' = <<>>
    PROVE  IInv'
  <1>1. Holders' = Holders
    BY DEF Holders
  <1>2. PermitsBalanced'
    BY <1>1 DEF IInv, PermitsBalanced
  <1>3. QueueInv'
    BY DEF IInv, QueueInv
  <1> QED
    BY <1>1, <1>2, <1>3 DEF IInv

\* A task takes a step in which it neither gets nor returns a permit.
LEMMA OwnStep ==
    ASSUME IInv, NEW j \in Jobs, NEW state \in JobState,
           jobs[j] # "queued" \/ link = "cancelling",
           state # "queued",
           jobs[j] \in {"granted", "running", "sending"}
             <=> state \in {"granted", "running", "sending"},
           jobs' = [jobs EXCEPT ![j] = state],
           answered' \subseteq Jobs,
           UNCHANGED <<link, delay, queue, free, peer, refusing>>
    PROVE  IInv'
  <1>1. TypeOK'
    BY DEF IInv, TypeOK
  <1>2. Holders' = Holders
    BY DEF IInv, TypeOK, Holders
  <1>3. QueueInv'
    BY DEF IInv, TypeOK, QueueInv
  <1> QED
    BY <1>1, <1>2, <1>3 DEF IInv, PermitsBalanced

LEMMA ReleaseStep ==
    ASSUME IInv, NEW j \in Holders, Release(j),
           UNCHANGED <<link, delay, answered, peer, refusing>>
    PROVE  IInv'
  <1>1. /\ j \in Jobs /\ jobs[j] \in {"granted", "running", "sending"}
        /\ queue \in Seq(Jobs) /\ Len(queue) \in Nat /\ jobs \in [Jobs -> JobState]
    BY DEF IInv, TypeOK, Holders
  <1>2. Cardinality(Holders) \in Nat /\ Cardinality(Holders) # 0
    BY FS_CardinalityType, FS_EmptySet DEF IInv
  <1>3. CASE queue = <<>>
    <2>1. /\ free' = free + 1 /\ queue' = queue
          /\ jobs' = [jobs EXCEPT ![j] = "done"]
      BY <1>3 DEF Release
    <2>2. Holders' = Holders \ {j}
      BY <1>1, <2>1 DEF Holders
    <2>3. IsFiniteSet(Holders') /\ Cardinality(Holders') = Cardinality(Holders) - 1
      BY <2>2, FS_RemoveElement DEF IInv
    <2>4. PermitsBalanced' /\ free' \in 0..MaxConcurrent
      BY <1>2, <1>3, <2>1, <2>3, Bounds DEF IInv, TypeOK, PermitsBalanced
    <2>5. TypeOK'
      BY <1>1, <2>1, <2>4 DEF IInv, TypeOK, JobState
    <2>6. QueueInv'
      BY <1>3, <2>1 DEF IInv, QueueInv
    <2> QED
      BY <2>3, <2>4, <2>5, <2>6 DEF IInv
  <1>4. CASE queue # <<>>
    <2> DEFINE h == Head(queue)
    <2>1. /\ UNCHANGED free /\ queue' = Tail(queue)
          /\ jobs' = [jobs EXCEPT ![j] = "done", ![h] = "granted"]
      BY <1>4 DEF Release
    <2>2. /\ h = queue[1] /\ Len(queue) > 0 /\ h \in Jobs /\ Len(queue') = Len(queue) - 1
          /\ queue' \in Seq(Jobs)
          /\ \A k \in 1..Len(queue') : queue'[k] = queue[k + 1]
      BY <1>1, <1>4, <2>1
    <2>3. jobs[h] = "queued" /\ h # j /\ h \notin Holders
      BY <1>1, <2>2 DEF IInv, QueueInv, Holders
    <2> HIDE DEF h
    <2>4. /\ jobs' \in [Jobs -> JobState] /\ jobs'[j] = "done" /\ jobs'[h] = "granted"
          /\ \A k \in Jobs : k \notin {j, h} => jobs'[k] = jobs[k]
      BY <1>1, <2>1, <2>2, <2>3 DEF JobState
    <2>5. Holders' = (Holders \ {j}) \cup {h}
      BY <1>1, <2>2, <2>3, <2>4 DEF Holders
    <2>6. /\ IsFiniteSet(Holders \ {j})
          /\ Cardinality(Holders \ {j}) = Cardinality(Holders) - 1
      BY FS_RemoveElement DEF IInv
    <2>7. /\ IsFiniteSet(Holders')
          /\ Cardinality(Holders') = Cardinality(Holders \ {j}) + 1
      BY <2>3, <2>5, <2>6, FS_AddElement
    <2>8. PermitsBalanced'
      <3>1. Cardinality(Holders') = Cardinality(Holders)
        BY <1>2, <2>6, <2>7
      <3> QED
        BY <1>4, <2>1, <3>1 DEF IInv, PermitsBalanced
    <2>9. TypeOK'
      BY <2>1, <2>2, <2>4 DEF IInv, TypeOK
    <2>10. QueueInv'
      <3>1. link' # "cancelling"
        BY <1>4 DEF IInv, QueueInv
      <3>2. ASSUME NEW k \in 1..Len(queue')
            PROVE  k + 1 \in 1..Len(queue) /\ queue[k + 1] # h /\ jobs[queue[k + 1]] = "queued"
                   /\ queue[k + 1] \in Jobs
        BY <1>1, <2>2 DEF IInv, QueueInv
      <3>3. \A k \in 1..Len(queue') : jobs'[queue'[k]] = "queued"
        BY <1>1, <2>2, <2>4, <3>2
      <3>4. \A k, l \in 1..Len(queue') : k # l => queue'[k] # queue'[l]
        BY <1>1, <2>2, <3>2 DEF IInv, QueueInv
      <3> QED
        BY <3>1, <3>3, <3>4 DEF QueueInv
    <2> QED
      BY <2>7, <2>8, <2>9, <2>10 DEF IInv
  <1> QED
    BY <1>3, <1>4

LEMMA BeginStep ==
    ASSUME IInv, NEW j \in Jobs, Begin(j)
    PROVE  IInv'
  <1>1. /\ jobs[j] = "new" /\ link # "cancelling" /\ queue \in Seq(Jobs)
        /\ Len(queue) \in Nat /\ jobs \in [Jobs -> JobState]
        /\ UNCHANGED <<link, delay, answered, peer, refusing>>
    BY DEF IInv, TypeOK, Begin
  <1>2. CASE free > 0 /\ queue = <<>>
    <2>1. free' = free - 1 /\ queue' = queue /\ jobs' = [jobs EXCEPT ![j] = "running"]
      BY <1>2 DEF Begin
    <2>2. Holders' = Holders \cup {j} /\ j \notin Holders
      BY <1>1, <2>1 DEF Holders
    <2>3. /\ IsFiniteSet(Holders') /\ Cardinality(Holders') = Cardinality(Holders) + 1
          /\ Cardinality(Holders) \in Nat
      BY <2>2, FS_AddElement, FS_CardinalityType DEF IInv
    <2>4. TypeOK'
      BY <1>1, <1>2, <2>1, Bounds DEF IInv, TypeOK, JobState
    <2>5. QueueInv' /\ PermitsBalanced'
      BY <1>1, <1>2, <2>1, <2>3, Bounds DEF IInv, TypeOK, QueueInv, PermitsBalanced
    <2> QED
      BY <2>3, <2>4, <2>5 DEF IInv
  <1>3. CASE ~(free > 0 /\ queue = <<>>)
    <2>1. UNCHANGED free /\ queue' = Append(queue, j) /\ jobs' = [jobs EXCEPT ![j] = "queued"]
      BY <1>3 DEF Begin
    <2>2. Holders' = Holders
      BY <1>1, <2>1 DEF Holders
    <2>3. free = 0
      BY <1>3 DEF IInv, TypeOK, PermitsBalanced
    <2>4. TypeOK'
      BY <1>1, <2>1 DEF IInv, TypeOK, JobState
    <2>5. /\ Len(queue') = Len(queue) + 1 /\ queue'[Len(queue) + 1] = j
          /\ \A k \in 1..Len(queue) : queue'[k] = queue[k]
      BY <1>1, <2>1
    <2>6. \A k \in 1..Len(queue) : queue[k] # j /\ queue[k] \in Jobs
      BY <1>1 DEF IInv, QueueInv
    <2>7. \A k \in 1..Len(queue') : jobs'[queue'[k]] = "queued"
      BY <1>1, <2>1, <2>5, <2>6 DEF IInv, QueueInv
    <2>8. \A k, l \in 1..Len(queue') : k # l => queue'[k] # queue'[l]
      BY <1>1, <2>5, <2>6 DEF IInv, QueueInv
    <2>9. QueueInv' /\ PermitsBalanced'
      BY <1>1, <2>1, <2>2, <2>3, <2>7, <2>8 DEF IInv, QueueInv, PermitsBalanced
    <2> QED
      BY <2>2, <2>4, <2>9 DEF IInv
  <1> QED
    BY <1>2, <1>3

LEMMA LinkStep ==
    ASSUME IInv, Reconnect \/ Leave \/ CancelAll \/ Left \/ PeerGone \/ Weather
    PROVE  IInv'
  <1>1. UNCHANGED <<jobs, free>> /\ queue' \in {queue, <<>>}
    BY DEF Reconnect, Connect, ConnectFails, Wake, Leave, CancelAll, Left, PeerGone, Weather
  <1>2. link' = "cancelling" => queue' = <<>>
    BY DEF Reconnect, Connect, ConnectFails, Wake, Leave, CancelAll, Left, PeerGone, Weather,
           IInv, QueueInv
  <1>3. TypeOK'
    <2>1. delay \in MinDelay..MaxDelay
      BY DEF IInv, TypeOK
    <2>2. delay' \in {delay, MinDelay, MaxDelay} \/ (delay' = 2 * delay /\ ~(2 * delay > MaxDelay))
      BY DEF Reconnect, Connect, ConnectFails, Wake, Leave, CancelAll, Left, PeerGone, Weather
    <2>3. delay' \in MinDelay..MaxDelay
      BY <2>1, <2>2, Bounds
    <2>4. /\ link' \in Link /\ peer' \in {"up", "closed", "error"} /\ refusing' \in BOOLEAN
          /\ UNCHANGED answered
      BY DEF Reconnect, Connect, ConnectFails, Wake, Leave, CancelAll, Left, PeerGone,
             Weather, IInv, TypeOK, Link
    <2>5. queue' \in Seq(Jobs)
      <3>1. queue \in Seq(Jobs) /\ <<>> \in Seq(Jobs)
        BY DEF IInv, TypeOK
      <3>2. CASE queue' = queue
        BY <3>1, <3>2
      <3>3. CASE queue' = <<>>
        BY <3>1, <3>3
      <3> QED
        BY <1>1, <3>2, <3>3
    <2> QED
      BY <1>1, <2>3, <2>4, <2>5 DEF IInv, TypeOK
  <1> QED
    BY <1>1, <1>2, <1>3, Aside

LEMMA WorkStep ==
    ASSUME IInv, NEW j \in Jobs, Receive(j) \/ Work(j)
    PROVE  IInv'
  <1> USE DEF JobState
  <1>1. CASE Receive(j)
    BY <1>1, OwnStep DEF Receive, IInv, TypeOK
  <1>2. CASE Begin(j)
    BY <1>2, BeginStep
  <1>3. CASE Resume(j)
    BY <1>3, OwnStep DEF Resume, IInv, TypeOK
  <1>4. CASE Answer(j)
    BY <1>4, OwnStep DEF Answer, IInv, TypeOK
  <1>5. CASE Sent(j) \/ Lost(j)
    BY <1>5, ReleaseStep DEF Sent, Lost, Holders
  <1>6. CASE Cancelled(j)
    <2>1. CASE j \in Holders
      BY <1>6, <2>1, ReleaseStep DEF Cancelled
    <2>2. CASE j \notin Holders
      BY <1>6, <2>2, OwnStep DEF Cancelled, Holders, IInv, TypeOK
    <2> QED
      BY <2>1, <2>2
  <1> QED
    BY <1>1, <1>2, <1>3, <1>4, <1>5, <1>6 DEF Work

LEMMA Invariance == Spec => []IInv
  <1>1. IInv /\ [Next]_vars => IInv'
    <2> SUFFICES ASSUME IInv, [Next]_vars PROVE IInv'
      OBVIOUS
    <2>1. CASE UNCHANGED vars
      BY <2>1, Aside DEF vars, IInv, TypeOK, QueueInv
    <2> QED
      BY <2>1, LinkStep, WorkStep DEF Next
  <1> QED
    BY <1>1, InitInv, PTL DEF Spec

\* The variables keep their types, and the delay stays between its bounds however often
\* connecting fails.
THEOREM TypeCorrect == Spec => []TypeOK
  <1>1. IInv => TypeOK
    BY DEF IInv
  <1> QED
    BY <1>1, Invariance, PTL

\* No permit is lost or made and none is idle while a task waits, however connections and
\* tasks end, for any number of either.
THEOREM PermitsKept == Spec => []PermitsBalanced
  <1>1. IInv => PermitsBalanced
    BY DEF IInv
  <1> QED
    BY <1>1, Invariance, PTL

-----------------------------------------------------------------------------
(* What one connection leaves to the next, and to the server.               *)

\* Between two connections there are no tasks, no waiters and no permits in use.
CleanStart ==
    link \in {"connecting", "sleeping"} =>
        Active = {} /\ queue = <<>> /\ free = MaxConcurrent

NoTasks == link \in {"connecting", "sleeping"} => Active = {}

LEMMA NoTasksStep == IInv /\ NoTasks /\ [Next]_vars => NoTasks'
  <1> SUFFICES ASSUME IInv, NoTasks, [Next]_vars PROVE NoTasks'
    OBVIOUS
  <1>1. CASE UNCHANGED vars
    BY <1>1 DEF vars, NoTasks, Active
  <1>2. CASE Reconnect \/ Leave \/ CancelAll \/ Left \/ PeerGone \/ Weather
    <2>1. UNCHANGED jobs
          /\ (link' \in {"connecting", "sleeping"} =>
                link \in {"connecting", "sleeping"} \/ Active = {})
      BY <1>2 DEF Reconnect, Connect, ConnectFails, Wake, Leave, CancelAll, Left, PeerGone,
                  Weather
    <2> QED
      BY <2>1 DEF NoTasks, Active
  <1>3. ASSUME NEW j \in Jobs, Receive(j) \/ Work(j) PROVE NoTasks'
    <2>1. UNCHANGED link
      BY <1>3 DEF Receive, Work, Begin, Resume, Answer, Sent, Lost, Cancelled
    <2>2. link = "open" \/ j \in Active
      BY <1>3 DEF Receive, Work, Begin, Resume, Answer, Sent, Lost, Cancelled, Active
    <2> QED
      BY <2>1, <2>2 DEF NoTasks
  <1> QED
    BY <1>1, <1>2, <1>3 DEF Next

\* No check outlives its connection: when the agent connects again or sleeps before it
\* does, every task of the last connection has ended, nobody waits and all permits are
\* free (the finally of _connect_once()).
THEOREM StartsClean == Spec => []CleanStart
  <1>1. Init => NoTasks
    BY DEF Init, NoTasks, Active
  <1>2. IInv /\ NoTasks => CleanStart
    <2> SUFFICES ASSUME IInv, NoTasks, link \in {"connecting", "sleeping"}
                 PROVE  Active = {} /\ queue = <<>> /\ free = MaxConcurrent
      BY DEF CleanStart
    <2>1. Active = {}
      BY DEF NoTasks
    <2>2. Holders = {}
      BY <2>1 DEF Holders, Active
    <2>3. free = MaxConcurrent
      BY <2>2, FS_EmptySet, Bounds DEF IInv, TypeOK, PermitsBalanced
    <2>4. queue = <<>>
      BY <2>3, Bounds DEF IInv, PermitsBalanced
    <2> QED
      BY <2>1, <2>3, <2>4
  <1> QED
    BY <1>1, <1>2, NoTasksStep, Invariance, PTL DEF Spec

\* An answered job has its result on the way, or has ended.
AnsweredLate == \A j \in answered : jobs[j] \in {"sending", "done"}

\* No result is sent for a job that has one.
AnsweredOnce == [][\A j \in Jobs : Answer(j) => j \notin answered]_vars

LEMMA AnsweredLateStep == IInv /\ AnsweredLate /\ [Next]_vars => AnsweredLate'
  <1> SUFFICES ASSUME IInv, AnsweredLate, [Next]_vars PROVE AnsweredLate'
    OBVIOUS
  <1>1. /\ answered \subseteq Jobs /\ jobs \in [Jobs -> JobState] /\ queue \in Seq(Jobs)
        /\ Len(queue) \in Nat /\ \A k \in 1..Len(queue) : jobs[queue[k]] = "queued"
    BY DEF IInv, TypeOK, QueueInv
  <1>2. CASE UNCHANGED <<jobs, answered>>
    BY <1>2 DEF AnsweredLate
  <1>3. ASSUME NEW j \in Jobs, Release(j), UNCHANGED answered PROVE AnsweredLate'
    <2>1. CASE queue = <<>>
      BY <1>1, <1>3, <2>1 DEF Release, AnsweredLate
    <2>2. CASE queue # <<>>
      <3> DEFINE h == Head(queue)
      <3>1. h = queue[1] /\ 1 \in 1..Len(queue) /\ h \in Jobs
        BY <1>1, <2>2
      <3>2. jobs[h] = "queued" /\ jobs' = [jobs EXCEPT ![j] = "done", ![h] = "granted"]
        BY <1>1, <1>3, <2>2, <3>1 DEF Release
      <3> HIDE DEF h
      <3>3. h \notin answered
        BY <3>2 DEF AnsweredLate
      <3>4. \A k \in Jobs : k # h => jobs'[k] \in {jobs[k], "done"}
        BY <1>1, <3>1, <3>2
      <3> QED
        BY <1>1, <1>3, <3>3, <3>4 DEF AnsweredLate
    <2> QED
      BY <2>1, <2>2
  <1>4. ASSUME NEW j \in Jobs, NEW state, jobs' = [jobs EXCEPT ![j] = state],
               jobs[j] \notin {"sending", "done"} \/ state = "done", UNCHANGED answered
        PROVE  AnsweredLate'
    BY <1>1, <1>4 DEF AnsweredLate
  <1>5. ASSUME NEW j \in Jobs, Answer(j) PROVE AnsweredLate'
    BY <1>1, <1>5 DEF Answer, AnsweredLate
  <1>6. ASSUME NEW j \in Jobs, Receive(j) \/ Begin(j) \/ Resume(j) PROVE AnsweredLate'
    BY <1>4, <1>6 DEF Receive, Begin, Resume
  <1>7. ASSUME NEW j \in Jobs, Sent(j) \/ Lost(j) \/ Cancelled(j) PROVE AnsweredLate'
    BY <1>3, <1>4, <1>7 DEF Sent, Lost, Cancelled
  <1>8. CASE Reconnect \/ Leave \/ CancelAll \/ Left \/ PeerGone \/ Weather
    BY <1>2, <1>8 DEF Reconnect, Connect, ConnectFails, Wake, Leave, CancelAll, Left,
       PeerGone, Weather
  <1> QED
    BY <1>2, <1>5, <1>6, <1>7, <1>8 DEF Next, Work, vars

\* Each request is answered once at most (_handle_check()), whenever its task waits, is
\* cancelled or fails to send: the registry on the other side takes that for granted.
THEOREM AnswersOnce == Spec => AnsweredOnce
  <1>1. Init => AnsweredLate
    BY DEF Init, AnsweredLate
  <1>2. AnsweredLate /\ [Next]_vars
          => [\A j \in Jobs : Answer(j) => j \notin answered]_vars
    BY DEF AnsweredLate, Answer
  <1> QED
    BY <1>1, <1>2, AnsweredLateStep, Invariance, PTL DEF Spec, AnsweredOnce
=============================================================================
