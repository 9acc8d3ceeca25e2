--------------------------- MODULE ConnectionPool ---------------------------
(***************************************************************************)
(* The connection pool every BuzzBlog server keeps per remote service and  *)
(* per database.  Three copies of one algorithm exist in the code:         *)
(*   app/common/include/microservice_connection_pool.h     (C++, Thrift)   *)
(*   app/common/include/postgres_connection_pool.h         (C++, Postgres) *)
(*   app/common/site-packages/microservice_connection_pool.py  (gateway)   *)
(*                                                                         *)
(* A mutex protects the queue of idle connections and the two counters, so *)
(* one critical section is one action here.  The connect() of get_client   *)
(* runs outside the mutex and is an action of its own, and so is every     *)
(* step by which a thread leaves a condition-variable wait.                *)
(***************************************************************************)
EXTENDS Integers, Sequences, FiniteSets

CONSTANTS
  Threads,         \* server threads (and fan-out threads) that make calls
  Conns,           \* identities a connection object can have
  NoConn,          \* "this thread holds no connection"
  Configs,         \* the configurations a pool may be constructed with
  MaxFailures      \* bound: how many connect() calls may fail

\* The asserts of the constructor, and the types of its parameters.
ASSUME SizesAssumption == \A c \in Configs :
  /\ c.min \in Nat /\ c.max \in Nat /\ c.min <= c.max
  /\ c.ephemeral \in BOOLEAN
ASSUME ConfigAssumption == MaxFailures \in Nat
ASSUME IdentityAssumption ==
  IsFiniteSet(Threads) /\ IsFiniteSet(Conns) /\ NoConn \notin Conns

VARIABLES
  config,    \* what the pool was constructed with; never changes
  pc,        \* where each thread is: see States
  conn,      \* the connection each thread holds, or NoConn
  idle,      \* _conn_pool, the FIFO queue of idle connections
  poolSize,  \* _pool_current_size
  backlog,   \* _backlog_len
  failures   \* history: the connect() calls that have failed so far

vars == <<config, pc, conn, idle, poolSize, backlog, failures>>

\* "out"         not inside the pool
\* "connecting"  left the critical section without a connection: opening one
\* "sleeping"    blocked in _conn_pool_condition.wait
\* "woken"       its wait has returned; it has yet to take the mutex again
\* "using"       get_client has returned; release_client is still to be called
States == {"out", "connecting", "sleeping", "woken", "using"}

MinSize        == config.min        \* _pool_min_size
MaxSize        == config.max        \* _pool_max_size; 0 switches pooling off
AllowEphemeral == config.ephemeral  \* _allow_ephemeral

At(s)     == {t \in Threads : pc[t] = s}
Waiting   == At("sleeping") \cup At("woken")
IdleConns == {idle[i] : i \in 1..Len(idle)}
HeldConns == {conn[t] : t \in At("using")}
Pooled    == MaxSize > 0

Init ==
  /\ config \in Configs
  /\ pc = [t \in Threads |-> "out"]
  /\ conn = [t \in Threads |-> NoConn]
  /\ idle = <<>>
  /\ poolSize = 0
  /\ backlog = 0
  /\ failures = 0

-----------------------------------------------------------------------------
(* get_client *)

\* mutant: front() without pop()
PeekFront(t) ==
  /\ conn' = [conn EXCEPT ![t] = Head(idle)]
  /\ pc' = [pc EXCEPT ![t] = "using"]
  /\ UNCHANGED idle

\* The thread leaves the mutex with the connection at the front of the queue.
TakeFront(t) ==
  /\ conn' = [conn EXCEPT ![t] = Head(idle)]
  /\ idle' = Tail(idle)
  /\ pc' = [pc EXCEPT ![t] = "using"]

\* mutant: <= for < against the maximum
MayOpenOneMore ==
  \/ poolSize < MinSize
  \/ idle = <<>> /\ (poolSize <= MaxSize \/ AllowEphemeral)

\* The first and the third branch: the counter is incremented here, before
\* connect() is even called.
MayOpen ==
  \/ poolSize < MinSize
  \/ idle = <<>> /\ (poolSize < MaxSize \/ AllowEphemeral)

GetNew(t) ==
  /\ Pooled
  /\ pc[t] = "out"
  /\ MayOpen
  /\ poolSize' = poolSize + 1
  /\ pc' = [pc EXCEPT ![t] = "connecting"]
  /\ UNCHANGED <<config, conn, idle, backlog, failures>>

GetIdle(t) ==
  /\ Pooled
  /\ pc[t] = "out"
  /\ poolSize >= MinSize
  /\ idle # <<>>
  /\ TakeFront(t)
  /\ UNCHANGED <<config, poolSize, backlog, failures>>

\* The last branch: join the backlog and wait.
GetBlock(t) ==
  /\ Pooled
  /\ pc[t] = "out"
  /\ ~MayOpen
  /\ idle = <<>>
  /\ backlog' = backlog + 1
  /\ pc' = [pc EXCEPT ![t] = "sleeping"]
  /\ UNCHANGED <<config, conn, idle, poolSize, failures>>

\* _pool_max_size = 0: no mutex, no counter, a connection per call.
GetUnpooled(t) ==
  /\ ~Pooled
  /\ pc[t] = "out"
  /\ pc' = [pc EXCEPT ![t] = "connecting"]
  /\ UNCHANGED <<config, conn, idle, poolSize, backlog, failures>>

\* std::condition_variable::wait may return without a notification.
SpuriousWake(t) ==
  /\ pc[t] = "sleeping"
  /\ pc' = [pc EXCEPT ![t] = "woken"]
  /\ UNCHANGED <<config, conn, idle, poolSize, backlog, failures>>

\* A woken thread has the mutex again: the while loop tests the queue.
WokenFindsNone(t) ==
  /\ pc[t] = "woken"
  /\ idle = <<>>
  /\ pc' = [pc EXCEPT ![t] = "sleeping"]
  /\ UNCHANGED <<config, conn, idle, poolSize, backlog, failures>>

\* mutant: the waiter does not leave the backlog
WokenTakesInBacklog(t) ==
  /\ pc[t] = "woken"
  /\ idle # <<>>
  /\ TakeFront(t)
  /\ UNCHANGED <<config, poolSize, backlog, failures>>

WokenTakes(t) ==
  /\ pc[t] = "woken"
  /\ idle # <<>>
  /\ backlog' = backlog - 1
  /\ TakeFront(t)
  /\ UNCHANGED <<config, poolSize, failures>>

\* The connection is made outside the mutex.
Connect(t) ==
  /\ pc[t] = "connecting"
  /\ \E c \in Conns \ (IdleConns \cup HeldConns) :
       conn' = [conn EXCEPT ![t] = c]
  /\ pc' = [pc EXCEPT ![t] = "using"]
  /\ UNCHANGED <<config, idle, poolSize, backlog, failures>>

\* The constructor of the connection throws: get_client exits by the
\* exception and nothing gives poolSize its unit back.
ConnectFails(t) ==
  /\ pc[t] = "connecting"
  /\ failures < MaxFailures
  /\ failures' = failures + 1
  /\ pc' = [pc EXCEPT ![t] = "out"]
  /\ UNCHANGED <<config, conn, idle, poolSize, backlog>>

-----------------------------------------------------------------------------
(* release_client: called once per get_client that returned, whether the   *)
(* call made on the connection succeeded or threw                          *)

\* mutants: each with one part of the test changed
ClosesAboveMin     == poolSize > MaxSize \/ poolSize > MinSize
ClosesAnyIdle      == poolSize > MaxSize \/ (poolSize > MinSize /\ idle # <<>>)
ClosesOnlyExcess   == poolSize > MaxSize

Closes ==
  \/ poolSize > MaxSize
  \/ poolSize > MinSize /\ Len(idle) > 1

LetGo(t) ==
  /\ pc[t] = "using"
  /\ conn' = [conn EXCEPT ![t] = NoConn]

ReleaseCloses(t) ==
  /\ Pooled
  /\ LetGo(t)
  /\ Closes
  /\ poolSize' = poolSize - 1
  /\ pc' = [pc EXCEPT ![t] = "out"]
  /\ UNCHANGED <<config, idle, backlog, failures>>

\* mutant: no notification
NotifyNone(t) == pc' = [pc EXCEPT ![t] = "out"]

\* notify_one wakes one of the threads blocked in wait, if there is one.
NotifyOne(t) ==
  IF At("sleeping") = {}
  THEN pc' = [pc EXCEPT ![t] = "out"]
  ELSE \E w \in At("sleeping") :
         pc' = [pc EXCEPT ![t] = "out", ![w] = "woken"]

\* mutant: the pointer is pushed after it was moved from
ReleasePushesMoved(t) ==
  /\ Pooled
  /\ LetGo(t)
  /\ ~Closes
  /\ idle' = Append(idle, conn'[t])
  /\ NotifyOne(t)
  /\ UNCHANGED <<config, poolSize, backlog, failures>>

ReleasePushes(t) ==
  /\ Pooled
  /\ LetGo(t)
  /\ ~Closes
  /\ idle' = Append(idle, conn[t])
  /\ NotifyOne(t)
  /\ UNCHANGED <<config, poolSize, backlog, failures>>

ReleaseUnpooled(t) ==
  /\ ~Pooled
  /\ LetGo(t)
  /\ pc' = [pc EXCEPT ![t] = "out"]
  /\ UNCHANGED <<config, idle, poolSize, backlog, failures>>

-----------------------------------------------------------------------------
Arrive(t)    == GetNew(t) \/ GetIdle(t) \/ GetBlock(t) \/ GetUnpooled(t)
LeaveWait(t) == WokenFindsNone(t) \/ WokenTakes(t)
Open(t)      == Connect(t) \/ ConnectFails(t)
Release(t)   == ReleaseCloses(t) \/ ReleasePushes(t) \/ ReleaseUnpooled(t)

Next == \E t \in Threads :
          Arrive(t) \/ SpuriousWake(t) \/ LeaveWait(t) \/ Open(t) \/ Release(t)

Spec == Init /\ [][Next]_vars

\* Every thread that is inside the pool is scheduled, connect() returns and so
\* does the call made on a connection (its handler releases it on all paths).
\* Nothing makes a client call, and no wait has to return spuriously.
Fairness == \A t \in Threads : WF_vars(LeaveWait(t) \/ Open(t) \/ Release(t))

FairSpec == Spec /\ Fairness

-----------------------------------------------------------------------------
(* Properties *)

TypeOK ==
  /\ config \in Configs
  /\ pc \in [Threads -> States]
  /\ conn \in [Threads -> Conns \cup {NoConn}]
  /\ idle \in Seq(Conns)
  /\ poolSize \in Int
  /\ backlog \in Int
  /\ failures \in 0..MaxFailures

\* The counter is exactly the connections in use, idle or being opened, plus
\* one unit for every connect() that ever failed; the backlog counter is
\* exactly the threads that wait.
Accounting ==
  /\ Pooled => poolSize = Cardinality(At("using")) + Len(idle)
                          + Cardinality(At("connecting")) + failures
  /\ ~Pooled => poolSize = 0
  /\ backlog = Cardinality(Waiting)

\* A connection is in one place: at most one thread holds it, it is at most
\* once in the queue, and it is never both.  Thrift clients and Postgres
\* connections are not safe for concurrent use.
HoldsWhileUsing == \A t \in Threads : pc[t] = "using" <=> conn[t] # NoConn

ExclusiveUse ==
  /\ HoldsWhileUsing
  /\ \A t, u \in At("using") : conn[t] = conn[u] => t = u
  /\ \A i, j \in 1..Len(idle) : idle[i] = idle[j] => i = j
  /\ IdleConns \cap HeldConns = {}

\* Trimming on release keeps the queue of idle connections short.
IdleBound == Len(idle) <= 2 \/ Len(idle) <= MinSize

\* Without ephemeral connections the counter never passes the maximum; with
\* them, whatever exceeds the maximum is never idle, so the excess goes away as
\* connections are released; and the queue of idle connections stays short.
SizeBound ==
  /\ ~AllowEphemeral => poolSize <= MaxSize
  /\ poolSize > MaxSize => idle = <<>>
  /\ IdleBound

\* No lost wake-up: while a thread sleeps, every connection in the queue has a
\* woken thread of its own coming for it.
NoLostWakeup ==
  At("sleeping") # {} => Cardinality(At("woken")) >= Len(idle)

\* A thread waits only if some connection exists, or is being opened, that can
\* come back to the queue, unless failed connects have used up the whole pool:
\* every one of the MaxSize units is then counted for no connection.
WaiterHasSupplier ==
  Waiting # {} => \/ IdleConns \cup HeldConns # {}
                  \/ At("connecting") # {}
                  \/ failures >= MaxSize

\* Closing a connection on release while a thread sleeps leaves at least two
\* idle ones behind, each with a woken taker.
TrimSparesWaiters ==
  [][ (poolSize' < poolSize /\ At("sleeping") # {}) =>
        Len(idle') >= 2 /\ Cardinality(At("woken")') >= Len(idle') ]_vars

\* The pool implements exclusive leases.  A pool that makes threads wait can
\* lease MaxSize connections, less one for every failed connect; any other
\* pool always has one more.
Bounded == Pooled /\ ~AllowEphemeral

LeaseCapacity ==
  IF Bounded THEN MaxSize - failures ELSE Cardinality(Threads)

Lease == INSTANCE ConnectionLease WITH
  lease <- conn, capacity <- LeaseCapacity

ImplementsLease == Lease!Spec

\* Once no further call arrives, in the end no thread waits: each has got a
\* connection, unless failed connects have used up the pool. (A thread that
\* arrives may take the connection a woken one was called for, so with calls
\* arriving for ever a waiter can starve.)
EveryWaiterServed ==
  <>[][\A t \in Threads : ~Arrive(t)]_vars =>
    []<>(Waiting = {} \/ failures >= MaxSize)
=============================================================================
