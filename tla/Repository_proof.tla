--------------------------- MODULE Repository_proof ---------------------------
(* Theorems about Repository, for any threads, pool sizes and functions of db.py. *)
EXTENDS Repository, FiniteSetTheorems, TLAPS

-----------------------------------------------------------------------------
(* The pool: permits and connections are those of the threads that hold them. *)

PoolTypes ==
    /\ pc \in [Threads -> Places]
    /\ open \subseteq Threads
    /\ permits \in Nat /\ idle \in 0..Min /\ used \in Nat

\* A thread that has a state is not on its way to a connection or back.
OpenAtRest == \A t \in open : pc[t] \in {"outside", "inside"}

PoolInv ==
    /\ PoolTypes
    /\ OpenAtRest
    /\ PermitsBalanced
    /\ used = Cardinality(Connected)

LEMMA Sizes == Max \in Nat /\ Min \in Nat /\ Min > 0 /\ Min <= Max
  BY RepositoryAssumption DEF RepositoryAssumption

LEMMA FiniteHolders ==
    ASSUME PoolTypes
    PROVE  /\ Permitted \subseteq Threads /\ Connected \subseteq Permitted
           /\ IsFiniteSet(Permitted) /\ IsFiniteSet(Connected)
           /\ Cardinality(Permitted) \in Nat /\ Cardinality(Connected) \in Nat
           /\ Cardinality(Connected) <= Cardinality(Permitted)
           /\ Cardinality(Connected) = Cardinality(Permitted) => Connected = Permitted
  <1>1. Permitted \subseteq Threads /\ Connected \subseteq Permitted
    BY DEF Permitted, Connected, PoolTypes
  <1>2. IsFiniteSet(Permitted)
    BY <1>1, FS_Subset, RepositoryAssumption DEF RepositoryAssumption
  <1>3. /\ IsFiniteSet(Connected) /\ Cardinality(Connected) <= Cardinality(Permitted)
        /\ Cardinality(Connected) = Cardinality(Permitted) => Connected = Permitted
    BY <1>1, <1>2, FS_Subset
  <1>4. Cardinality(Permitted) \in Nat /\ Cardinality(Connected) \in Nat
    BY <1>2, <1>3, FS_CardinalityType
  <1> QED
    BY <1>1, <1>2, <1>3, <1>4

\* A step that moves one thread, and changes no count.
LEMMA SamePool ==
    ASSUME PoolInv, PoolTypes', OpenAtRest',
           Permitted' = Permitted, Connected' = Connected,
           UNCHANGED <<permits, used>>
    PROVE  PoolInv'
  BY DEF PoolInv, PermitsBalanced

LEMMA PoolInit == Init => PoolInv
  <1> SUFFICES ASSUME Init PROVE PoolInv
    OBVIOUS
  <1>1. PoolTypes /\ OpenAtRest
    BY Sizes DEF Init, PoolTypes, OpenAtRest, Places
  <1>2. Permitted = {} /\ Connected = {}
    BY DEF Init, Permitted, Connected
  <1>3. PermitsBalanced /\ used = Cardinality(Connected)
    BY <1>2, FS_EmptySet, Sizes DEF Init, PermitsBalanced
  <1> QED
    BY <1>1, <1>3 DEF PoolInv

LEMMA AcquirePool ==
    ASSUME PoolInv, NEW t \in Threads, Acquire(t)
    PROVE  PoolInv'
  <1>1. PoolTypes' /\ OpenAtRest'
    BY DEF Acquire, Waiting, Goto, PoolInv, PoolTypes, OpenAtRest, Places
  <1>2. t \notin Permitted /\ Permitted' = Permitted \cup {t} /\ Connected' = Connected
    BY DEF Acquire, Waiting, Goto, PoolInv, PoolTypes, Permitted, Connected
  <1>3. Cardinality(Permitted') = Cardinality(Permitted) + 1
    BY <1>2, FiniteHolders, FS_AddElement DEF PoolInv
  <1>4. permits' = permits - 1 /\ UNCHANGED used
    BY DEF Acquire
  <1>5. PermitsBalanced'
    BY <1>3, <1>4, FiniteHolders, Sizes DEF PoolInv, PoolTypes, PermitsBalanced
  <1> QED
    BY <1>1, <1>2, <1>4, <1>5 DEF PoolInv

LEMMA GetConnectionPool ==
    ASSUME PoolInv, NEW t \in Threads, GetConnection(t)
    PROVE  PoolInv'
  <1>1. PoolTypes' /\ OpenAtRest'
    BY Sizes DEF GetConnection, Goto, PoolInv, PoolTypes, OpenAtRest, Places
  <1>2. t \notin Connected /\ Connected' = Connected \cup {t} /\ Permitted' = Permitted
    BY DEF GetConnection, Goto, PoolInv, PoolTypes, OpenAtRest, Permitted, Connected
  <1>3. Cardinality(Connected') = Cardinality(Connected) + 1
    BY <1>2, FiniteHolders, FS_AddElement DEF PoolInv
  <1>4. used' = used + 1 /\ UNCHANGED permits
    BY DEF GetConnection
  <1> QED
    BY <1>1, <1>2, <1>3, <1>4 DEF PoolInv, PermitsBalanced

LEMMA PutConnectionPool ==
    ASSUME PoolInv, NEW t \in Threads, PutConnection(t)
    PROVE  PoolInv'
  <1>1. t \in Connected /\ Connected' = Connected \ {t} /\ Permitted' = Permitted
    BY DEF PutConnection, Goto, PoolInv, PoolTypes, OpenAtRest, Permitted, Connected
  <1>2. Cardinality(Connected') = Cardinality(Connected) - 1
    BY <1>1, FiniteHolders, FS_RemoveElement DEF PoolInv
  <1>3. Cardinality(Connected) # 0
    BY <1>1, FiniteHolders, FS_EmptySet DEF PoolInv
  <1>4. used' = used - 1 /\ UNCHANGED permits
    BY DEF PutConnection
  <1>5. used' \in Nat
    BY <1>3, <1>4, FiniteHolders DEF PoolInv
  <1>6. idle' \in 0..Min
    BY Sizes DEF PutConnection, Keep, Drop, PoolInv, PoolTypes
  <1>7. pc' \in [Threads -> Places] /\ UNCHANGED open /\ OpenAtRest'
    BY DEF PutConnection, Goto, PoolInv, PoolTypes, OpenAtRest, Places
  <1>8. PoolTypes'
    BY <1>4, <1>5, <1>6, <1>7 DEF PoolInv, PoolTypes
  <1> QED
    BY <1>1, <1>2, <1>4, <1>7, <1>8 DEF PoolInv, PermitsBalanced

LEMMA ReleasePool ==
    ASSUME PoolInv, NEW t \in Threads, Release(t)
    PROVE  PoolInv'
  <1>1. PoolTypes' /\ OpenAtRest'
    BY DEF Release, Returned, Goto, PoolInv, PoolTypes, OpenAtRest, Places
  <1>2. t \in Permitted /\ Permitted' = Permitted \ {t} /\ Connected' = Connected
    BY DEF Release, Goto, PoolInv, PoolTypes, OpenAtRest, Permitted, Connected
  <1>3. Cardinality(Permitted') = Cardinality(Permitted) - 1
    BY <1>2, FiniteHolders, FS_RemoveElement DEF PoolInv
  <1>4. permits' = permits + 1 /\ UNCHANGED used
    BY DEF Release, Returned
  <1>5. PermitsBalanced'
    BY <1>3, <1>4, FiniteHolders, Sizes DEF PoolInv, PoolTypes, PermitsBalanced
  <1> QED
    BY <1>1, <1>2, <1>4, <1>5 DEF PoolInv

LEMMA FinishPool ==
    ASSUME PoolInv, NEW t \in open, NEW after, NEW kept, Finish(t, after, kept)
    PROVE  PoolInv'
  <1>1. PoolTypes' /\ OpenAtRest'
    BY DEF Finish, Goto, PoolInv, PoolTypes, OpenAtRest, Places
  <1>2. Permitted' = Permitted /\ Connected' = Connected
    BY DEF Finish, Goto, PoolInv, PoolTypes, OpenAtRest, Permitted, Connected
  <1>3. UNCHANGED <<permits, used>>
    BY DEF Finish
  <1> QED
    BY <1>1, <1>2, <1>3, SamePool

LEMMA OpenStatePool ==
    ASSUME PoolInv, NEW t \in Threads, OpenState(t)
    PROVE  PoolInv'
  <1>1. PoolTypes' /\ OpenAtRest'
    BY DEF OpenState, Goto, PoolInv, PoolTypes, OpenAtRest, Places
  <1>2. Permitted' = Permitted /\ Connected' = Connected
    BY DEF OpenState, Goto, PoolInv, PoolTypes, OpenAtRest, Permitted, Connected
  <1> QED
    BY <1>1, <1>2, SamePool DEF OpenState

LEMMA FailurePool ==
    ASSUME PoolInv, NEW t \in Threads, GetFails(t) \/ CursorFails(t)
    PROVE  PoolInv'
  <1>1. PoolTypes' /\ OpenAtRest'
    BY DEF GetFails, CursorFails, Goto, PoolInv, PoolTypes, OpenAtRest, Places
  <1>2. Permitted' = Permitted /\ Connected' = Connected
    BY DEF GetFails, CursorFails, Goto, PoolInv, PoolTypes, OpenAtRest, Permitted, Connected
  <1> QED
    BY <1>1, <1>2, SamePool DEF GetFails, CursorFails

LEMMA ComeAndGoPool ==
    ASSUME PoolInv, NEW t \in Threads, Leave(t) \/ \E f \in Functions : Enter(t, f)
    PROVE  PoolInv'
  <1>1. PoolTypes' /\ OpenAtRest'
    BY DEF Leave, Enter, Goto, PoolInv, PoolTypes, OpenAtRest, Places
  <1>2. Permitted' = Permitted /\ Connected' = Connected
    BY DEF Leave, Enter, Goto, PoolInv, PoolTypes, Permitted, Connected
  <1> QED
    BY <1>1, <1>2, SamePool DEF Leave, Enter

LEMMA QuietPool ==
    ASSUME PoolInv, UNCHANGED <<pc, open, permits, idle, used>>
    PROVE  PoolInv'
  BY DEF PoolInv, PoolTypes, OpenAtRest, PermitsBalanced, Permitted, Connected

LEMMA FetchPool ==
    ASSUME PoolInv, NEW t \in Threads, Fetch(t)
    PROVE  PoolInv'
  <1>1. CASE EndsRead(t) /\ Finish(t, Advanced(t), FALSE)
    <2>1. t \in open /\ Finish(t, Advanced(t), FALSE)
      BY <1>1 DEF Fetch
    <2> QED
      BY <2>1, FinishPool
  <1>2. CASE UNCHANGED <<pc, open, permits, idle, used>>
    BY <1>2, QuietPool
  <1> QED
    BY <1>1, <1>2 DEF Fetch

\* A statement that fails, a commit and a rollback end the transaction, however they end.
LEMMA EndPool ==
    ASSUME PoolInv, NEW t \in Threads, StatementFails(t) \/ Commit(t) \/ Rollback(t)
    PROVE  PoolInv'
  <1>1. t \in open
    BY DEF StatementFails, Commit, Rollback
  <1>2. PICK after, kept : Finish(t, after, kept)
    BY DEF StatementFails, Commit, Rollback
  <1> QED
    BY <1>1, <1>2, FinishPool

LEMMA PoolStep == PoolInv /\ [Next]_vars => PoolInv'
  <1> SUFFICES ASSUME PoolInv, [Next]_vars PROVE PoolInv'
    OBVIOUS
  <1>1. CASE UNCHANGED vars
    BY <1>1, QuietPool DEF vars
  <1>2. ASSUME NEW t \in Threads, Work(t) PROVE PoolInv'
    <2>1. CASE Acquire(t)
      BY <2>1, AcquirePool
    <2>2. CASE GetConnection(t)
      BY <2>2, GetConnectionPool
    <2>3. CASE GetFails(t) \/ CursorFails(t)
      BY <2>3, FailurePool
    <2>4. CASE OpenState(t)
      BY <2>4, OpenStatePool
    <2>5. CASE PutConnection(t)
      BY <2>5, PutConnectionPool
    <2>6. CASE Release(t)
      BY <2>6, ReleasePool
    <2>7. CASE Execute(t) \/ NothingToEnd(t)
      BY <2>7, QuietPool DEF Execute, NothingToEnd
    <2>8. CASE StatementFails(t) \/ Commit(t) \/ Rollback(t)
      BY <2>8, EndPool
    <2>9. CASE Fetch(t)
      BY <2>9, FetchPool
    <2>10. CASE Leave(t)
      BY <2>10, ComeAndGoPool
    <2> QED
      BY <1>2, <2>1, <2>2, <2>3, <2>4, <2>5, <2>6, <2>7, <2>8, <2>9, <2>10 DEF Work
  <1>3. ASSUME NEW t \in Threads, \E f \in Functions : Enter(t, f) PROVE PoolInv'
    BY <1>3, ComeAndGoPool
  <1> QED
    BY <1>1, <1>2, <1>3 DEF Next

\* The pool and the semaphore agree in every state: the permits and connections that are
\* out are those of the threads on their way to one, in a transaction, or on their way back.
THEOREM PoolAgrees == Spec => []PoolInv
  <1> QED
    BY PoolInit, PoolStep, PTL DEF Spec

\* No permit is lost and none is given back twice, whatever fails and wherever.
THEOREM NoPermitLost == Spec => []PermitsBalanced
  <1>1. PoolInv => PermitsBalanced
    BY DEF PoolInv
  <1> QED
    BY <1>1, PoolAgrees, PTL

\* A thread that got past the semaphore finds a connection, idle or new: it is itself one
\* of at most Max threads with a permit, and has none yet.
THEOREM PoolNeverDry == Spec => []PoolSuffices
  <1>1. PoolInv => PoolSuffices
    <2> SUFFICES ASSUME PoolInv, NEW t \in Threads, pc[t] = "getconn", Exhausted
                 PROVE  FALSE
      BY DEF PoolSuffices
    <2>1. t \in Permitted /\ t \notin Connected
      BY DEF Permitted, Connected, PoolInv, OpenAtRest
    <2>2. Cardinality(Connected) <= Cardinality(Permitted)
          /\ Cardinality(Connected) # Cardinality(Permitted)
      BY <2>1, FiniteHolders DEF PoolInv
    <2>3. used >= Max /\ used = Cardinality(Connected) /\ PermitsBalanced
      BY DEF Exhausted, PoolInv
    <2> QED
      BY <2>2, <2>3, FiniteHolders, Sizes DEF PoolInv, PoolTypes, PermitsBalanced
  <1> QED
    BY <1>1, PoolAgrees, PTL

-----------------------------------------------------------------------------
(* The writes of a call: what a thread has done with its function.          *)

CallType == [body : Seq(Statements), next : Nat \ {0}, failed : BOOLEAN,
             pending : Nat, stored : Nat]

\* The writes before statement n.
Before(f, n) == {k \in 1..(n - 1) : f[k] = "write"}

\* In a transaction, which has all writes so far and is dirty if there are any.
Running(t) ==
    /\ ~Ended(t) /\ ~call[t].failed /\ call[t].stored = 0
    /\ call[t].pending = Cardinality(Before(call[t].body, call[t].next))
    /\ t \in dirty <=> Before(call[t].body, call[t].next) # {}

\* Outside of a transaction, with no write behind it, or at the end.
Untouched(t) ==
    /\ ~call[t].failed /\ call[t].stored = 0 /\ call[t].pending = 0
    /\ Before(call[t].body, call[t].next) = {}

Settled(t) ==
    /\ Ended(t) /\ call[t].pending = 0
    /\ call[t].stored = Kept(call[t].body) \/ (call[t].failed /\ call[t].stored = 0)

CallOk(t) ==
    IF pc[t] = "outside" THEN call[t] = NoCall /\ t \notin open
    ELSE /\ call[t].body \in Functions
         /\ call[t].next <= Len(call[t].body) + 1
         /\ t \in open => pc[t] = "inside" /\ Running(t)
         /\ t \notin open => Untouched(t) \/ Settled(t)
         /\ pc[t] \in {"getconn", "cursor"} => ~Ended(t) /\ t \notin open

CallsOk ==
    /\ pc \in [Threads -> Places] /\ call \in [Threads -> CallType]
    /\ open \subseteq Threads /\ dirty \subseteq open
    /\ \A t \in Threads : CallOk(t)

LEMMA Shape ==
    ASSUME NEW f \in Functions
    PROVE  /\ f \in Seq(Statements) /\ Len(f) \in Nat /\ Len(f) > 0
           /\ \A k \in 1..Len(f) : f[k] \in {"read", "lock"} => k < Len(f)
           /\ \A k \in 1..Len(f) : f[k] = "write" => f[Len(f)] \in {"commit", "rollback"}
           /\ \A k \in 1..Len(f) : f[k] \in {"commit", "rollback"} => k = Len(f)
  <1>1. f \in Seq(Statements) /\ WellFormed(f)
    BY RepositoryAssumption DEF RepositoryAssumption
  <1>2. Len(f) \in Nat
    BY <1>1
  <1> QED
    BY <1>1, <1>2 DEF WellFormed

\* A statement adds its write, if it is one, to those before it.
LEMMA NextWrite ==
    ASSUME NEW f \in Functions, NEW n \in 1..Len(f)
    PROVE  /\ IsFiniteSet(Before(f, n)) /\ Cardinality(Before(f, n)) \in Nat
           /\ f[n] # "write" => Before(f, n + 1) = Before(f, n)
           /\ f[n] = "write" =>
                /\ Before(f, n + 1) # {}
                /\ Cardinality(Before(f, n + 1)) = Cardinality(Before(f, n)) + 1
  <1>1. n \in Nat /\ Len(f) \in Nat
    BY Shape
  <1>2. IsFiniteSet(1..(n - 1))
    BY <1>1, FS_Interval
  <1>3. IsFiniteSet(Before(f, n)) /\ Cardinality(Before(f, n)) \in Nat
    <2>1. Before(f, n) \subseteq 1..(n - 1)
      BY DEF Before
    <2> QED
      BY <1>2, <2>1, FS_Subset, FS_CardinalityType
  <1>4. f[n] # "write" => Before(f, n + 1) = Before(f, n)
    BY <1>1 DEF Before
  <1>5. f[n] = "write" => Before(f, n + 1) = Before(f, n) \cup {n}
    BY <1>1 DEF Before
  <1>6. n \notin Before(f, n)
    BY <1>1 DEF Before
  <1>7. Cardinality(Before(f, n) \cup {n}) = Cardinality(Before(f, n)) + 1
    BY <1>3, <1>6, FS_AddElement
  <1> QED
    BY <1>3, <1>4, <1>5, <1>7

\* The writes of a function are those before its end.
LEMMA AllWrites ==
    ASSUME NEW f \in Functions
    PROVE  /\ Writes(f) = Cardinality(Before(f, Len(f) + 1))
           /\ Before(f, Len(f) + 1) = {} => Kept(f) = 0
  <1>1. Len(f) \in Nat
    BY Shape
  <1>2. Before(f, Len(f) + 1) = {k \in 1..Len(f) : f[k] = "write"}
    BY <1>1 DEF Before
  <1> QED
    BY <1>2, FS_EmptySet DEF Writes, Kept

\* A step of one thread leaves the calls of the others alone.
LEMMA OneThread ==
    ASSUME CallsOk, NEW t \in Threads, NEW c \in CallType, NEW p \in Places,
           pc' = [pc EXCEPT ![t] = p], call' = [call EXCEPT ![t] = c],
           open' \in {open, open \cup {t}, open \ {t}},
           dirty' \in {dirty, dirty \cup {t}, dirty \ {t}}, dirty' \subseteq open',
           CallOk(t)'
    PROVE  CallsOk'
  <1>1. pc' \in [Threads -> Places] /\ call' \in [Threads -> CallType] /\ open' \subseteq Threads
    BY DEF CallsOk
  <1>2. ASSUME NEW u \in Threads \ {t} PROVE CallOk(u)'
    <2>1. pc'[u] = pc[u] /\ call'[u] = call[u] /\ (u \in open' <=> u \in open)
          /\ (u \in dirty' <=> u \in dirty)
      BY DEF CallsOk
    <2>2. CallOk(u)
      BY DEF CallsOk
    <2>3. Ended(u)' <=> Ended(u)
      BY <2>1 DEF Ended
    <2>4. (Running(u)' <=> Running(u)) /\ (Untouched(u)' <=> Untouched(u))
          /\ (Settled(u)' <=> Settled(u))
      BY <2>1, <2>3 DEF Running, Untouched, Settled
    <2> QED
      BY <2>1, <2>2, <2>3, <2>4 DEF CallOk
  <1> QED
    BY <1>1, <1>2 DEF CallsOk

LEMMA CallsInit == Init => CallsOk
  <1> SUFFICES ASSUME Init PROVE CallsOk
    OBVIOUS
  <1>1. NoCall \in CallType
    BY DEF NoCall, CallType
  <1> QED
    BY <1>1 DEF Init, CallsOk, CallOk, Places

\* A thread inside a function, and the fields of its call once it goes on or fails.
LEMMA Moves ==
    ASSUME CallsOk, NEW t \in Threads
    PROVE  /\ call[t] \in CallType
           /\ Advanced(t) \in CallType
           /\ Advanced(t).body = call[t].body /\ Advanced(t).next = call[t].next + 1
           /\ Advanced(t).failed = call[t].failed /\ Advanced(t).pending = call[t].pending
           /\ Advanced(t).stored = call[t].stored
           /\ Failed(t) \in CallType
           /\ Failed(t).body = call[t].body /\ Failed(t).next = Len(call[t].body) + 1
           /\ Failed(t).failed = TRUE /\ Failed(t).pending = call[t].pending
           /\ Failed(t).stored = call[t].stored
  <1>1. call[t] \in CallType
    BY DEF CallsOk
  <1>2. Len(call[t].body) \in Nat
    BY <1>1 DEF CallType
  <1>3. /\ call[t].body \in Seq(Statements) /\ call[t].next \in Nat \ {0}
        /\ call[t].failed \in BOOLEAN /\ call[t].pending \in Nat /\ call[t].stored \in Nat
    BY <1>1 DEF CallType
  <1>4. /\ Advanced(t) \in CallType
        /\ Advanced(t).body = call[t].body /\ Advanced(t).next = call[t].next + 1
        /\ Advanced(t).failed = call[t].failed /\ Advanced(t).pending = call[t].pending
        /\ Advanced(t).stored = call[t].stored
    BY <1>1, <1>3 DEF CallType, Advanced
  <1>5. /\ Failed(t) \in CallType
        /\ Failed(t).body = call[t].body /\ Failed(t).next = Len(call[t].body) + 1
        /\ Failed(t).failed = TRUE /\ Failed(t).pending = call[t].pending
        /\ Failed(t).stored = call[t].stored
    <2> DEFINE n == Len(call[t].body) + 1
    <2>1. n \in Nat \ {0}
      BY <1>2
    <2>2. Failed(t) = [call[t] EXCEPT !.failed = TRUE, !.next = n]
      BY DEF Failed
    <2> HIDE DEF n
    <2>3. /\ Failed(t) \in CallType
          /\ Failed(t).body = call[t].body /\ Failed(t).next = n
          /\ Failed(t).failed = TRUE /\ Failed(t).pending = call[t].pending
          /\ Failed(t).stored = call[t].stored
      BY <1>1, <1>3, <2>1, <2>2 DEF CallType
    <2> QED
      BY <2>3 DEF n
  <1> QED
    BY <1>1, <1>4, <1>5

\* A thread that is not open and gets a connection, opens its state, gives back or leaves.
LEMMA PlaceCalls ==
    ASSUME CallsOk, NEW t \in Threads,
           \/ Acquire(t) \/ GetConnection(t) \/ OpenState(t)
           \/ PutConnection(t) \/ Release(t)
    PROVE  CallsOk'
  <1> DEFINE p == pc'[t]
  <1>1. /\ p \in Places /\ p # "outside" /\ pc[t] # "outside"
        /\ pc' = [pc EXCEPT ![t] = p] /\ UNCHANGED <<call, dirty>>
        /\ p \in {"getconn", "cursor"} => ~Ended(t)
        /\ open' = IF OpenState(t) THEN open \cup {t} ELSE open
        /\ t \notin open
    BY DEF CallsOk, CallOk, Acquire, Waiting, GetConnection, OpenState, PutConnection,
           Release, Goto, Places
  <1>2. call' = [call EXCEPT ![t] = call[t]] /\ call[t] \in CallType
    BY <1>1 DEF CallsOk
  <1>3. t \notin dirty /\ dirty' \subseteq open'
    BY <1>1 DEF CallsOk
  <1>4. CallOk(t)'
    <2>1. CallOk(t)
      BY DEF CallsOk
    <2>2. UNCHANGED <<Ended(t), Untouched(t), Settled(t)>>
      BY <1>1 DEF Ended, Untouched, Settled
    <2>3. CASE OpenState(t)
      <3>1. pc[t] = "cursor" /\ p = "inside"
        BY <2>3 DEF OpenState, Goto, CallsOk
      <3>2. ~Ended(t) /\ Untouched(t)
        BY <2>1, <3>1 DEF CallOk, Settled
      <3>3. call[t].body \in Functions /\ call[t].next <= Len(call[t].body) + 1
        BY <2>1, <3>1 DEF CallOk
      <3>4. Running(t)'
        BY <1>1, <1>3, <2>2, <3>2, FS_EmptySet DEF Running, Untouched
      <3> QED
        BY <1>1, <2>3, <3>1, <3>3, <3>4 DEF CallOk
    <2>4. CASE ~OpenState(t)
      BY <1>1, <2>1, <2>2, <2>4 DEF CallOk
    <2> QED
      BY <2>3, <2>4
  <1> QED
    BY <1>1, <1>2, <1>3, <1>4, OneThread

LEMMA FailureCalls ==
    ASSUME CallsOk, NEW t \in Threads, GetFails(t) \/ CursorFails(t)
    PROVE  CallsOk'
  <1> DEFINE p == pc'[t]
  <1>1. /\ p \in Places /\ p \in {"release", "putconn"} /\ pc[t] \in {"getconn", "cursor"}
        /\ pc' = [pc EXCEPT ![t] = p] /\ UNCHANGED <<open, dirty>>
        /\ call' = [call EXCEPT ![t] = Failed(t)]
    BY DEF CallsOk, GetFails, CursorFails, Goto, Places
  <1>2. call[t].body \in Functions /\ ~Ended(t) /\ t \notin open /\ Untouched(t)
    BY <1>1 DEF CallsOk, CallOk, Settled
  <1>3. call'[t] = Failed(t)
    BY <1>1 DEF CallsOk
  <1>4. Settled(t)'
    <2>1. /\ Failed(t).body = call[t].body /\ Failed(t).next = Len(call[t].body) + 1
          /\ Failed(t).failed = TRUE /\ Failed(t).pending = 0 /\ Failed(t).stored = 0
      BY <1>2, Moves DEF Untouched
    <2>2. Len(call[t].body) \in Nat
      BY <1>2, Shape
    <2> QED
      BY <1>3, <2>1, <2>2 DEF Settled, Ended
  <1>5. CallOk(t)'
    <2>1. call'[t].body \in Functions /\ call'[t].next = Len(call'[t].body) + 1
      BY <1>2, <1>3, Moves
    <2>2. Len(call'[t].body) \in Nat
      BY <2>1, Shape
    <2>3. pc'[t] \in {"release", "putconn"} /\ t \notin open'
      BY <1>1, <1>2
    <2> QED
      BY <1>4, <2>1, <2>2, <2>3 DEF CallOk
  <1>6. dirty' \subseteq open'
    BY <1>1 DEF CallsOk
  <1> HIDE DEF p
  <1> QED
    BY <1>1, <1>5, <1>6, Moves, OneThread

\* What the end of a transaction leaves: the call after it, with its writes kept or not.
LEMMA FinishCalls ==
    ASSUME CallsOk, NEW t \in Threads, t \in open,
           NEW after \in {Advanced(t), Failed(t)}, NEW kept \in BOOLEAN,
           Finish(t, after, kept),
           after = Advanced(t) =>
             \/ Statement(t) = "fetch" /\ t \notin dirty /\ ~kept
             \/ Statement(t) = "commit" /\ kept
             \/ Statement(t) = "rollback" /\ ~kept,
           kept => Statement(t) = "commit"
    PROVE  CallsOk'
  <1> DEFINE f == call[t].body
             n == call[t].next
             c == [after EXCEPT !.pending = 0,
                                !.stored = @ + IF kept THEN call[t].pending ELSE 0]
  <1>1. f \in Functions /\ pc[t] = "inside" /\ Running(t)
    BY DEF CallsOk, CallOk
  <1>2. n \in 1..Len(f) /\ Len(f) \in Nat /\ call[t].pending \in Nat
    <2>1. n \in Nat \ {0} /\ call[t].pending \in Nat
      BY DEF CallsOk, CallType
    <2>2. Len(f) \in Nat
      BY <1>1, Shape
    <2> QED
      BY <1>1, <2>1, <2>2 DEF Running, Ended
  <1>3. /\ after \in CallType /\ after.body = f /\ after.stored = 0
        /\ after = Advanced(t) => after.next = n + 1 /\ ~after.failed
        /\ after # Advanced(t) => after.next = Len(f) + 1 /\ after.failed
    BY <1>1, Moves DEF Running
  <1>4. /\ c \in CallType /\ c.body = f /\ c.next = after.next /\ c.failed = after.failed
        /\ c.pending = 0 /\ c.stored = IF kept THEN call[t].pending ELSE 0
    <2> DEFINE stored == after.stored + IF kept THEN call[t].pending ELSE 0
    <2>1. stored \in Nat /\ stored = IF kept THEN call[t].pending ELSE 0
      BY <1>2, <1>3
    <2> HIDE DEF stored
    <2>2. after \in CallType /\ 0 \in Nat
      BY <1>3
    <2>3. c = [after EXCEPT !.pending = 0, !.stored = stored]
      BY DEF stored
    <2> HIDE DEF c
    <2>4. /\ c \in CallType /\ c.body = after.body /\ c.next = after.next
          /\ c.failed = after.failed /\ c.pending = 0 /\ c.stored = stored
      BY <2>1, <2>2, <2>3 DEF CallType
    <2> QED
      BY <1>3, <2>1, <2>4
  <1>5. /\ pc' = [pc EXCEPT ![t] = "putconn"] /\ call' = [call EXCEPT ![t] = c]
        /\ open' = open \ {t} /\ dirty' = dirty \ {t}
    BY DEF Finish, Goto
  <1> HIDE DEF c
  <1>6. call'[t] = c /\ pc'[t] = "putconn"
    BY <1>5 DEF CallsOk
  <1>7. kept => f[n] = "commit" /\ n = Len(f) /\ call[t].pending = Kept(f)
    <2> SUFFICES ASSUME kept PROVE f[n] = "commit" /\ n = Len(f) /\ call[t].pending = Kept(f)
      OBVIOUS
    <2>1. f[n] = "commit" /\ n = Len(f)
      BY <1>1, <1>2, Shape DEF Statement
    <2>2. Before(f, n + 1) = Before(f, n)
      BY <1>1, <1>2, <2>1, NextWrite
    <2>3. Writes(f) = Cardinality(Before(f, n))
      BY <1>1, <2>1, <2>2, AllWrites
    <2> QED
      BY <1>1, <2>1, <2>3 DEF Running, Kept
  <1>8. Untouched(t)' \/ Settled(t)'
    <2>1. CASE after # Advanced(t)
      BY <1>3, <1>4, <1>6, <1>7, <2>1 DEF Settled, Ended
    <2>2. CASE after = Advanced(t) /\ kept
      BY <1>2, <1>3, <1>4, <1>6, <1>7, <2>2 DEF Settled, Ended
    <2>3. CASE after = Advanced(t) /\ Statement(t) = "rollback" /\ ~kept
      <3>1. f[n] = "rollback" /\ n = Len(f)
        BY <1>1, <1>2, <2>3, Shape DEF Statement
      <3>2. Kept(f) = 0
        BY <3>1 DEF Kept
      <3> QED
        BY <1>2, <1>3, <1>4, <1>6, <2>3, <3>1, <3>2 DEF Settled, Ended
    <2>4. CASE after = Advanced(t) /\ Statement(t) = "fetch" /\ t \notin dirty /\ ~kept
      <3>1. Before(f, n + 1) = {}
        BY <1>1, <1>2, <2>4, NextWrite DEF Statement, Running
      <3> QED
        BY <1>3, <1>4, <1>6, <2>4, <3>1 DEF Untouched
    <2> QED
      BY <2>1, <2>2, <2>3, <2>4
  <1>9. CallOk(t)'
    BY <1>1, <1>2, <1>3, <1>4, <1>5, <1>6, <1>8 DEF CallOk
  <1>10. dirty' \subseteq open' /\ "putconn" \in Places
    BY <1>5 DEF CallsOk, Places
  <1> QED
    BY <1>4, <1>5, <1>9, <1>10, OneThread

LEMMA EndCalls ==
    ASSUME CallsOk, NEW t \in Threads,
           \/ StatementFails(t) \/ Commit(t) \/ Rollback(t)
           \/ Fetch(t) /\ EndsRead(t)
    PROVE  CallsOk'
  <1>1. t \in open /\ Advanced(t) # Failed(t)
    <2>1. t \in open
      BY DEF StatementFails, Commit, Rollback, Fetch
    <2>2. ~Advanced(t).failed /\ Failed(t).failed
      BY <2>1, Moves DEF CallsOk, CallOk, Running
    <2> QED
      BY <2>1, <2>2
  <1>2. CASE StatementFails(t)
    BY <1>1, <1>2, FinishCalls DEF StatementFails
  <1>3. CASE Commit(t)
    BY <1>1, <1>3, FinishCalls DEF Commit
  <1>4. CASE Rollback(t)
    <2>1. PICK failed \in BOOLEAN :
            Finish(t, IF failed THEN Failed(t) ELSE Advanced(t), FALSE)
      BY <1>4 DEF Rollback
    <2>2. CASE failed
      BY <1>1, <2>1, <2>2, FinishCalls
    <2>3. CASE ~failed
      BY <1>1, <1>4, <2>1, <2>3, FinishCalls DEF Rollback
    <2> QED
      BY <2>2, <2>3
  <1>5. CASE Fetch(t) /\ EndsRead(t)
    BY <1>1, <1>5, FinishCalls DEF Fetch, EndsRead
  <1> QED
    BY <1>2, <1>3, <1>4, <1>5

LEMMA ExecuteCalls ==
    ASSUME CallsOk, NEW t \in Threads, Execute(t)
    PROVE  CallsOk'
  <1> DEFINE f == call[t].body
             n == call[t].next
             c == [Advanced(t) EXCEPT
                     !.pending = @ + IF Statement(t) = "write" THEN 1 ELSE 0]
  <1>1. f \in Functions /\ pc[t] = "inside" /\ Running(t) /\ t \in open
    BY DEF CallsOk, CallOk, Execute
  <1>2. n \in 1..Len(f) /\ Len(f) \in Nat
    <2>1. n \in Nat \ {0}
      BY DEF CallsOk, CallType
    <2>2. Len(f) \in Nat
      BY <1>1, Shape
    <2> QED
      BY <1>1, <2>1, <2>2 DEF Running, Ended
  <1>3. /\ c \in CallType /\ c.body = f /\ c.next = n + 1 /\ ~c.failed /\ c.stored = 0
        /\ c.pending = call[t].pending + IF f[n] = "write" THEN 1 ELSE 0
    <2> DEFINE pending == Advanced(t).pending + IF Statement(t) = "write" THEN 1 ELSE 0
    <2>1. call[t].pending \in Nat /\ ~call[t].failed /\ call[t].stored = 0
      BY <1>1 DEF CallsOk, CallType, Running
    <2>2. /\ pending \in Nat
          /\ pending = call[t].pending + IF f[n] = "write" THEN 1 ELSE 0
      <3>1. Advanced(t).pending = call[t].pending
        BY Moves
      <3>2. Statement(t) = f[n]
        BY DEF Statement
      <3> QED
        BY <2>1, <3>1, <3>2
    <2>3. c = [Advanced(t) EXCEPT !.pending = pending]
      OBVIOUS
    <2> HIDE DEF pending, c
    <2>4. Advanced(t) \in CallType
      BY Moves
    <2>5. /\ c \in CallType /\ c.body = Advanced(t).body /\ c.next = Advanced(t).next
          /\ c.failed = Advanced(t).failed /\ c.stored = Advanced(t).stored
          /\ c.pending = pending
      BY <2>2, <2>3, <2>4 DEF CallType
    <2> QED
      BY <2>1, <2>2, <2>5, Moves
  <1>4. call' = [call EXCEPT ![t] = c] /\ UNCHANGED <<pc, open>>
    BY DEF Execute
  <1> HIDE DEF c
  <1>5. call'[t] = c
    BY <1>4 DEF CallsOk
  <1>6. /\ f[n] \in {"read", "lock", "write"}
        /\ dirty' = IF f[n] = "write" THEN dirty \cup {t} ELSE dirty
    BY DEF Execute, Queries, ReadOnly, Statement
  <1>7. n # Len(f)
    BY <1>1, <1>2, <1>6, Shape
  <1>8. Running(t)'
    <2>1. ~Ended(t)'
      BY <1>2, <1>3, <1>5, <1>7 DEF Ended
    <2>2. Running(t) /\ Cardinality(Before(f, n)) \in Nat
      BY <1>1, <1>2, NextWrite
    <2>3. CASE f[n] = "write"
      <3>1. /\ Before(f, n + 1) # {}
            /\ Cardinality(Before(f, n + 1)) = Cardinality(Before(f, n)) + 1
        BY <1>1, <1>2, <2>3, NextWrite
      <3> QED
        BY <1>3, <1>5, <1>6, <2>1, <2>2, <2>3, <3>1 DEF Running
    <2>4. CASE f[n] # "write"
      <3>1. Before(f, n + 1) = Before(f, n)
        BY <1>1, <1>2, <2>4, NextWrite
      <3>2. c.pending = call[t].pending
        BY <1>3, <2>2, <2>4 DEF Running
      <3> QED
        BY <1>3, <1>5, <1>6, <2>1, <2>2, <2>4, <3>1, <3>2 DEF Running
    <2> QED
      BY <2>3, <2>4
  <1>9. CallOk(t)'
    BY <1>1, <1>2, <1>3, <1>4, <1>5, <1>8 DEF CallOk
  <1>10. /\ pc' = [pc EXCEPT ![t] = "inside"] /\ "inside" \in Places
         /\ dirty' \subseteq open'
    BY <1>1, <1>4, <1>6 DEF CallsOk, Places
  <1> QED
    BY <1>3, <1>4, <1>6, <1>9, <1>10, OneThread

\* A fetch in a transaction that wrote, and a commit or rollback outside of one.
LEMMA AdvanceCalls ==
    ASSUME CallsOk, NEW t \in Threads, (Fetch(t) /\ ~EndsRead(t)) \/ NothingToEnd(t)
    PROVE  CallsOk'
  <1> DEFINE f == call[t].body
             n == call[t].next
  <1>1. /\ f \in Functions /\ pc[t] = "inside" /\ ~Ended(t)
        /\ t \in open => Running(t)
        /\ t \notin open => Untouched(t)
    BY DEF CallsOk, CallOk, Fetch, NothingToEnd, Settled
  <1>2. n \in 1..Len(f) /\ Len(f) \in Nat
    <2>1. n \in Nat \ {0}
      BY DEF CallsOk, CallType
    <2>2. Len(f) \in Nat
      BY <1>1, Shape
    <2> QED
      BY <1>1, <2>1, <2>2 DEF Ended
  <1>3. call' = [call EXCEPT ![t] = Advanced(t)] /\ UNCHANGED <<pc, open, dirty>>
    BY DEF Fetch, EndsRead, NothingToEnd, Finish
  <1>4. /\ call'[t].body = f /\ call'[t].next = n + 1
        /\ call'[t].failed = call[t].failed /\ call'[t].pending = call[t].pending
        /\ call'[t].stored = call[t].stored
    BY <1>3, Moves DEF CallsOk
  <1>5. f[n] # "write" /\ Before(f, n + 1) = Before(f, n)
    <2>1. f[n] # "write"
      BY DEF Fetch, NothingToEnd, Statement
    <2> QED
      BY <1>1, <1>2, <2>1, NextWrite
  <1>6. ASSUME t \in open PROVE CallOk(t)'
    <2>1. Running(t) /\ t \in dirty /\ f[n] = "fetch"
      BY <1>1, <1>6 DEF Fetch, EndsRead, NothingToEnd, Statement
    <2>2. PICK k \in Before(f, n) : TRUE
      BY <2>1 DEF Running
    <2>3. k \in 1..Len(f) /\ f[k] = "write"
      BY <1>2, <2>2 DEF Before
    <2>4. n # Len(f)
      BY <1>1, <2>1, <2>3, Shape
    <2>5. Running(t)'
      BY <1>2, <1>3, <1>4, <1>5, <2>1, <2>4 DEF Running, Ended
    <2> QED
      BY <1>1, <1>2, <1>3, <1>4, <1>6, <2>5 DEF CallOk
  <1>7. ASSUME t \notin open PROVE CallOk(t)'
    <2>1. Untouched(t)'
      BY <1>1, <1>3, <1>4, <1>5, <1>7 DEF Untouched
    <2> QED
      BY <1>1, <1>2, <1>3, <1>4, <1>7, <2>1 DEF CallOk
  <1>8. CallOk(t)'
    BY <1>6, <1>7
  <1>9. /\ pc' = [pc EXCEPT ![t] = "inside"] /\ "inside" \in Places
        /\ dirty' \subseteq open'
    BY <1>1, <1>3 DEF CallsOk, Places
  <1> QED
    BY <1>3, <1>8, <1>9, Moves, OneThread

LEMMA ComeAndGoCalls ==
    ASSUME CallsOk, NEW t \in Threads, Leave(t) \/ \E f \in Functions : Enter(t, f)
    PROVE  CallsOk'
  <1>1. NoCall \in CallType /\ {"outside", "inside"} \subseteq Places
    BY DEF NoCall, CallType, Places
  <1>2. CASE Leave(t)
    <2>1. /\ pc' = [pc EXCEPT ![t] = "outside"] /\ call' = [call EXCEPT ![t] = NoCall]
          /\ UNCHANGED <<open, dirty>> /\ t \notin open
      BY <1>2 DEF Leave, Goto, CallsOk, CallOk, Running
    <2>2. CallOk(t)' /\ dirty' \subseteq open'
      BY <2>1 DEF CallsOk, CallOk
    <2> QED
      BY <1>1, <2>1, <2>2, OneThread
  <1>3. ASSUME NEW f \in Functions, Enter(t, f) PROVE CallsOk'
    <2> DEFINE c == [NoCall EXCEPT !.body = f]
    <2>1. f \in Seq(Statements) /\ Len(f) \in Nat /\ Len(f) > 0
      BY Shape
    <2>2. /\ c \in CallType /\ c.body = f /\ c.next = 1 /\ ~c.failed
          /\ c.pending = 0 /\ c.stored = 0
      BY <1>1, <2>1 DEF NoCall, CallType
    <2>3. /\ pc' = [pc EXCEPT ![t] = "inside"] /\ call' = [call EXCEPT ![t] = c]
          /\ UNCHANGED <<open, dirty>> /\ t \notin open
      BY <1>3 DEF Enter, Goto, CallsOk, CallOk
    <2> HIDE DEF c
    <2>4. Before(f, 1) = {}
      BY DEF Before
    <2>5. call'[t] = c /\ pc'[t] = "inside"
      BY <2>3 DEF CallsOk
    <2>6. Untouched(t)'
      BY <2>2, <2>4, <2>5 DEF Untouched
    <2>7. CallOk(t)' /\ dirty' \subseteq open'
      BY <2>1, <2>2, <2>3, <2>5, <2>6 DEF CallsOk, CallOk
    <2> QED
      BY <1>1, <2>2, <2>3, <2>7, OneThread
  <1> QED
    BY <1>2, <1>3

LEMMA CallsStep == CallsOk /\ [Next]_vars => CallsOk'
  <1> SUFFICES ASSUME CallsOk, [Next]_vars PROVE CallsOk'
    OBVIOUS
  <1>1. CASE UNCHANGED vars
    BY <1>1 DEF vars, CallsOk, CallOk, Running, Untouched, Settled, Ended
  <1>2. ASSUME NEW t \in Threads, Work(t) PROVE CallsOk'
    <2>1. CASE Acquire(t) \/ GetConnection(t) \/ OpenState(t) \/ PutConnection(t) \/ Release(t)
      BY <2>1, PlaceCalls
    <2>2. CASE GetFails(t) \/ CursorFails(t)
      BY <2>2, FailureCalls
    <2>3. CASE StatementFails(t) \/ Commit(t) \/ Rollback(t)
      BY <2>3, EndCalls
    <2>4. CASE Fetch(t)
      BY <2>4, EndCalls, AdvanceCalls
    <2>5. CASE Execute(t)
      BY <2>5, ExecuteCalls
    <2>6. CASE NothingToEnd(t)
      BY <2>6, AdvanceCalls
    <2>7. CASE Leave(t)
      BY <2>7, ComeAndGoCalls
    <2> QED
      BY <1>2, <2>1, <2>2, <2>3, <2>4, <2>5, <2>6, <2>7 DEF Work
  <1>3. ASSUME NEW t \in Threads, \E f \in Functions : Enter(t, f) PROVE CallsOk'
    BY <1>3, ComeAndGoCalls
  <1> QED
    BY <1>1, <1>2, <1>3 DEF Next

\* In every state a thread in a transaction has all writes of its function so far, and
\* one outside of it has made none or is at the end.
THEOREM CallsInOrder == Spec => []CallsOk
  <1> QED
    BY CallsInit, CallsStep, PTL DEF Spec

\* All the writes of a function are stored or none is, and all if it returns: a fetch
\* ends the transaction of a function only before its first write.
THEOREM AllOrNothing == Spec => []WritesTogether
  <1>1. CallsOk => WritesTogether
    <2> SUFFICES ASSUME CallsOk, NEW t \in Threads, pc[t] = "inside", Ended(t)
                 PROVE  \/ call[t].stored = Kept(call[t].body)
                        \/ call[t].failed /\ call[t].stored = 0
      BY DEF WritesTogether
    <2> DEFINE f == call[t].body
    <2>1. f \in Functions /\ (Untouched(t) \/ Settled(t))
      BY DEF CallsOk, CallOk, Running
    <2>2. CASE Untouched(t)
      <3>1. Len(f) \in Nat /\ call[t].next \in Nat /\ call[t].next <= Len(f) + 1
        BY <2>1, Shape DEF CallsOk, CallOk, CallType
      <3>2. call[t].next = Len(f) + 1
        BY <3>1 DEF Ended
      <3>3. Kept(f) = 0
        BY <2>1, <2>2, <3>2, AllWrites DEF Untouched
      <3> QED
        BY <2>2, <3>3 DEF Untouched
    <2>3. CASE Settled(t)
      BY <2>3 DEF Settled
    <2> QED
      BY <2>1, <2>2, <2>3
  <1> QED
    BY <1>1, CallsInOrder, PTL

\* A thread that leaves a function leaves no transaction open, which the next function
\* of the thread would join.
THEOREM NoneLeftOpen == Spec => []NothingLeftOpen
  <1>1. CallsOk => NothingLeftOpen
    BY DEF CallsOk, CallOk, NothingLeftOpen
  <1> QED
    BY <1>1, CallsInOrder, PTL
=============================================================================
