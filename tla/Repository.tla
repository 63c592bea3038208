----------------------------- MODULE Repository -----------------------------
(***************************************************************************)
(* DatabaseRepository and its facades: the threads of the program run the   *)
(* functions of db.py, each a few statements through one shared cursor, over*)
(* a pool of connections that a semaphore guards.                           *)
(*                                                                         *)
(* A thread gets a connection at its first statement and keeps it in a      *)
(* thread-local state until commit(), rollback(), an error, or the fetch    *)
(* that ends a transaction which only read.  What a statement does is left  *)
(* out, except the writes it makes and the row all of them may lock.        *)
(*                                                                         *)
(* The event loop is one of the threads, the others are the workers of      *)
(* asyncio.to_thread().                                                     *)
(***************************************************************************)
EXTENDS Integers, Sequences, FiniteSets

CONSTANTS
    Threads,
    Max, Min,       \* DB_POOL_MAX_SIZE, DB_POOL_MIN_SIZE
    Functions,      \* the functions of db.py, as sequences of statements
    None

\* read: SELECT.  lock: SELECT ... FOR UPDATE of the row.  write: an INSERT, UPDATE or
\* DELETE of the row.  fetch: fetchone() or fetchall().
Queries == {"read", "lock", "write"}
Statements == Queries \cup {"fetch", "commit", "rollback"}

\* A function of db.py fetches what it selects, and ends what it wrote.
WellFormed(f) ==
    /\ Len(f) > 0
    /\ \A k \in 1..Len(f) : f[k] = "fetch" => k > 1 /\ f[k - 1] \in Queries
    /\ \A k \in 1..Len(f) : f[k] \in {"read", "lock"} => k < Len(f) /\ f[k + 1] = "fetch"
    /\ (\E k \in 1..Len(f) : f[k] = "write") => f[Len(f)] \in {"commit", "rollback"}
    /\ \A k \in 1..(Len(f) - 1) : f[k] \notin {"commit", "rollback"}

RepositoryAssumption ==
    /\ IsFiniteSet(Threads) /\ None \notin Threads
    /\ Min \in Nat \ {0} /\ Max \in Nat /\ Min <= Max
    /\ \A f \in Functions : f \in Seq(Statements) /\ WellFormed(f)

ASSUME RepositoryAssumption

VARIABLES
    pc,         \* where each thread is
    call,       \* the function it is in, the next statement, and what became of it
    open,       \* threads that have an _OperationState
    dirty,      \* threads whose state is dirty
    permits,    \* value of _available
    idle,       \* connections in _pool._pool
    used,       \* connections in _pool._used
    row         \* the thread whose transaction has locked the row

vars == <<pc, call, open, dirty, permits, idle, used, row>>

NoCall == [body |-> <<>>, next |-> 1, failed |-> FALSE, pending |-> 0, stored |-> 0]

Init ==
    /\ pc = [t \in Threads |-> "outside"]
    /\ call = [t \in Threads |-> NoCall]
    /\ open = {} /\ dirty = {}
    /\ permits = Max /\ idle = Min /\ used = 0
    /\ row = None

Statement(t) == call[t].body[call[t].next]
Ended(t) == call[t].next > Len(call[t].body)
Goto(t, place) == pc' = [pc EXCEPT ![t] = place]
Advanced(t) == [call[t] EXCEPT !.next = @ + 1]

\* An exception leaves the function: its handlers find no state to roll back.
Failed(t) == [call[t] EXCEPT !.failed = TRUE, !.next = Len(call[t].body) + 1]

-----------------------------------------------------------------------------
(* Getting a connection: _acquire() and _ensure_state().                   *)

Enter(t, f) ==
    /\ pc[t] = "outside"
    /\ Goto(t, "inside")
    /\ call' = [call EXCEPT ![t] = [NoCall EXCEPT !.body = f]]
    /\ UNCHANGED <<open, dirty, permits, idle, used, row>>

\* The first statement of an operation finds no state, and waits for a permit.
Waiting(t) == pc[t] = "inside" /\ ~Ended(t) /\ t \notin open /\ Statement(t) \in Queries

Acquire(t) ==
    /\ Waiting(t) /\ permits > 0
    /\ permits' = permits - 1
    /\ Goto(t, "getconn")
    /\ UNCHANGED <<call, open, dirty, idle, used, row>>

\* getconn() finds an idle connection, or connects while fewer than Max are in use.
Exhausted == idle = 0 /\ used >= Max

GetConnection(t) ==
    /\ pc[t] = "getconn" /\ ~Exhausted
    /\ idle' = IF idle > 0 THEN idle - 1 ELSE 0
    /\ used' = used + 1
    /\ Goto(t, "cursor")
    /\ UNCHANGED <<call, open, dirty, permits, row>>

\* The server refuses the connection, or the pool is exhausted.
GetFails(t) ==
    /\ pc[t] = "getconn" /\ idle = 0
    /\ Goto(t, "release")
    /\ call' = [call EXCEPT ![t] = Failed(t)]
    /\ UNCHANGED <<open, dirty, permits, idle, used, row>>

OpenState(t) ==
    /\ pc[t] = "cursor"
    /\ open' = open \cup {t}
    /\ Goto(t, "inside")
    /\ UNCHANGED <<call, dirty, permits, idle, used, row>>

CursorFails(t) ==
    /\ pc[t] = "cursor"
    /\ Goto(t, "putconn")
    /\ call' = [call EXCEPT ![t] = Failed(t)]
    /\ UNCHANGED <<open, dirty, permits, idle, used, row>>

-----------------------------------------------------------------------------
(* Giving it back: _finish() and _release().                               *)

\* _finish(): the transaction ends, with its writes kept or not, and the state goes.
Finish(t, after, kept) ==
    /\ Goto(t, "putconn")
    /\ call' = [call EXCEPT
         ![t] = [after EXCEPT !.pending = 0,
                              !.stored = @ + IF kept THEN call[t].pending ELSE 0]]
    /\ open' = open \ {t} /\ dirty' = dirty \ {t}
    /\ row' = IF row = t THEN None ELSE row
    /\ UNCHANGED <<permits, idle, used>>

\* A connection that is broken, or more than the pool keeps, is closed.
Keep == idle' = idle + 1 /\ idle < Min
Drop == UNCHANGED idle

\* Mutated form of PutConnection: a connection that is closed is not put back.
PutConnectionUnlessClosed(t) ==
    /\ pc[t] = "putconn"
    /\ \/ Keep /\ used' = used - 1
       \/ Drop /\ UNCHANGED used
    /\ Goto(t, "release")
    /\ UNCHANGED <<call, open, dirty, permits, row>>

PutConnection(t) ==
    /\ pc[t] = "putconn"
    /\ Keep \/ Drop
    /\ used' = used - 1
    /\ Goto(t, "release")
    /\ UNCHANGED <<call, open, dirty, permits, row>>

\* Mutated form of Returned: a failure does not give the permit back.
ReturnedUnlessFailed(t) == IF call[t].failed THEN permits ELSE permits + 1

\* The semaphore once the thread has released it.
Returned(t) == permits + 1

\* The finally of _release(), and the except of _acquire().
Release(t) ==
    /\ pc[t] = "release"
    /\ permits' = Returned(t)
    /\ Goto(t, "inside")
    /\ UNCHANGED <<call, open, dirty, idle, used, row>>

-----------------------------------------------------------------------------
(* The statements.                                                         *)

ReadOnly(statement) == statement \in {"read", "lock"}

\* execute(): a statement that locks or writes the row waits for it.
Execute(t) ==
    /\ pc[t] = "inside" /\ ~Ended(t) /\ t \in open
    /\ Statement(t) \in Queries
    /\ Statement(t) # "read" => row \in {None, t}
    /\ row' = IF Statement(t) = "read" THEN row ELSE t
    /\ dirty' = IF ReadOnly(Statement(t)) THEN dirty ELSE dirty \cup {t}
    /\ call' = [call EXCEPT
         ![t] = [Advanced(t) EXCEPT !.pending = @ + IF Statement(t) = "write" THEN 1 ELSE 0]]
    /\ UNCHANGED <<pc, open, permits, idle, used>>

\* A statement or a fetch raises: the transaction is rolled back.
StatementFails(t) ==
    /\ pc[t] = "inside" /\ ~Ended(t) /\ t \in open
    /\ Statement(t) \in Queries \cup {"fetch"}
    /\ Finish(t, Failed(t), FALSE)

\* Mutated form of EndsRead: every fetch ends the transaction.
EndsReadAlways(t) == t \in open

\* Mutated form of EndsRead: no fetch ends it.
EndsReadNever(t) == t \notin open

\* A fetch ends a transaction that only read.
EndsRead(t) == t \notin dirty

Fetch(t) ==
    /\ pc[t] = "inside" /\ ~Ended(t) /\ t \in open
    /\ Statement(t) = "fetch"
    /\ \/ EndsRead(t) /\ Finish(t, Advanced(t), FALSE)
       \/ /\ ~EndsRead(t)
          /\ call' = [call EXCEPT ![t] = Advanced(t)]
          /\ UNCHANGED <<pc, open, dirty, permits, idle, used, row>>

\* commit(), which may raise although the server has committed.
Commit(t) ==
    /\ pc[t] = "inside" /\ ~Ended(t) /\ t \in open
    /\ Statement(t) = "commit"
    /\ \/ Finish(t, Advanced(t), TRUE)
       \/ \E kept \in BOOLEAN : Finish(t, Failed(t), kept)

Rollback(t) ==
    /\ pc[t] = "inside" /\ ~Ended(t) /\ t \in open
    /\ Statement(t) = "rollback"
    /\ \E failed \in BOOLEAN : Finish(t, IF failed THEN Failed(t) ELSE Advanced(t), FALSE)

\* commit() or rollback() without a state does nothing.
NothingToEnd(t) ==
    /\ pc[t] = "inside" /\ ~Ended(t) /\ t \notin open
    /\ Statement(t) \in {"commit", "rollback"}
    /\ call' = [call EXCEPT ![t] = Advanced(t)]
    /\ UNCHANGED <<pc, open, dirty, permits, idle, used, row>>

\* The function returns or raises; what it leaves open stays with the thread.
Leave(t) ==
    /\ pc[t] = "inside" /\ Ended(t)
    /\ Goto(t, "outside")
    /\ call' = [call EXCEPT ![t] = NoCall]
    /\ UNCHANGED <<open, dirty, permits, idle, used, row>>

-----------------------------------------------------------------------------
\* What the thread does once it is in a function.
Work(t) ==
    \/ Acquire(t) \/ GetConnection(t) \/ GetFails(t)
    \/ OpenState(t) \/ CursorFails(t)
    \/ PutConnection(t) \/ Release(t)
    \/ Execute(t) \/ StatementFails(t) \/ Fetch(t) \/ Commit(t) \/ Rollback(t)
    \/ NothingToEnd(t) \/ Leave(t)

Next == \E t \in Threads : Work(t) \/ \E f \in Functions : Enter(t, f)

Spec == Init /\ [][Next]_vars

\* Every thread goes on as long as it can.
FairSpec == Spec /\ \A t \in Threads : WF_vars(Work(t))

-----------------------------------------------------------------------------
(* Properties.                                                             *)

Places == {"outside", "inside", "getconn", "cursor", "putconn", "release"}

TypeOK ==
    /\ pc \in [Threads -> Places]
    /\ \A t \in Threads :
         /\ call[t].body \in Functions \cup {<<>>}
         /\ call[t].next \in 1..(Len(call[t].body) + 1)
         /\ call[t].failed \in BOOLEAN
         /\ call[t].pending \in Nat /\ call[t].stored \in Nat
    /\ dirty \subseteq open /\ open \subseteq Threads
    /\ permits \in 0..Max /\ idle \in 0..Min /\ used \in 0..Max
    /\ row \in open \cup {None}

\* Threads that have taken a permit, and those that have a connection.
Permitted == {t \in Threads : pc[t] \in {"getconn", "cursor", "putconn", "release"}} \cup open
Connected == {t \in Threads : pc[t] \in {"cursor", "putconn"}} \cup open

\* No permit is lost and none is given back twice, whatever fails and wherever
\* (_acquire(), _ensure_state(), _finish(), _release()).
PermitsBalanced == permits + Cardinality(Permitted) = Max

\* A thread that got past the semaphore never finds the pool exhausted, although permits
\* and connections are counted apart and are not given back in one step.
PoolSuffices == \A t \in Threads : pc[t] = "getconn" => ~Exhausted

\* A thread leaves a function with no transaction of its own behind it, which its next
\* function would join, commit or roll back.
NothingLeftOpen == \A t \in open : pc[t] = "inside"

Writes(f) == Cardinality({k \in 1..Len(f) : f[k] = "write"})
Kept(f) == IF f[Len(f)] = "commit" THEN Writes(f) ELSE 0

\* All the writes of a function are stored or none is, and all if it returns, although
\* a fetch may end its transaction (execute(), fetchone(), commit()).
WritesTogether ==
    \A t \in Threads : pc[t] = "inside" /\ Ended(t) =>
        LET f == call[t].body IN
        call[t].stored = Kept(f) \/ (call[t].failed /\ call[t].stored = 0)

\* While threads wait for a permit one of them gets it, sooner or later.
Served == (\E t \in Threads : Waiting(t)) ~> (\E t \in Threads : pc[t] = "getconn")

=============================================================================
