-------------------------------- MODULE Mesh --------------------------------
(***************************************************************************)
(* The services calling one another on pooled connections, under a limit   *)
(* on the clients a server serves at a time.                               *)
(*                                                                         *)
(* A handler keeps the connection it was called on busy while it calls     *)
(* others, so calls hold connections of several pools at once, each        *)
(* waiting for the next.  A server thread serves one connection for as     *)
(* long as it is open, idle in its client's pool or not, and               *)
(* setConcurrentClientLimit(threads) stops it from accepting more: until   *)
(* accepted, a connection is open and writable, and not answered.          *)
(*   */service/server/src/*_server.cpp (handlers, main)                    *)
(*   app/common/include/microservice_connected_server.h                    *)
(*   app/common/include/microservice_connection_pool.h                     *)
(*                                                                         *)
(* Pools are of fixed size (MinSize = MaxSize) and do not exceed it, which *)
(* ConnectionPool shows to lease each connection to one call at a time;    *)
(* how waiting threads are woken is found there too. Pools of connections  *)
(* to databases are left out: none of those is held across a call.         *)
(***************************************************************************)
EXTENDS CallGraph, FiniteSets

CONSTANTS
  Nodes,   \* the calls made: the gateway's, and those made to serve them
  Roots,   \* the gateway's
  Parent,  \* Parent[n]: the call whose handler makes call n
  Method,  \* Method[n]: what n calls
  Phase,   \* Phase[n]: in which phase of its parent's handler
  Conns,   \* the connections of all pools
  NoConn,
  PoolOf,  \* PoolOf[c] = <<caller, callee>>: the pool connection c belongs to
  Limits   \* the limits the servers may be started with

Caller(n) == IF n \in Roots THEN "apigateway" ELSE ServiceOf(Method[Parent[n]])
Pool(n)   == <<Caller(n), ServiceOf(Method[n])>>
Slots(p)  == {c \in Conns : PoolOf[c] = p}
Server(c) == PoolOf[c][2]
To(s)     == {c \in Conns : Server(c) = s}

Children(n) == {m \in Nodes \ Roots : Parent[m] = n}

\* Calls are made as the handlers make them.
ASSUME CallsAssumption ==
  /\ Roots \subseteq Nodes
  /\ Method \in [Nodes -> Methods]
  /\ Parent \in [Nodes -> Nodes]
  /\ Phase \in [Nodes -> Nat]
  /\ \A n \in Nodes \ Roots :
       /\ Phase[n] \in DOMAIN Calls[Method[Parent[n]]]
       /\ Method[n] \in Calls[Method[Parent[n]]][Phase[n]]

\* No pool is empty.
ASSUME PoolsAssumption ==
  /\ IsFiniteSet(Conns) /\ NoConn \notin Conns
  /\ PoolOf \in [Conns -> (Services \cup {"apigateway"}) \X Services]
  /\ \A n \in Nodes : Slots(Pool(n)) # {}

ASSUME LimitsAssumption == Limits \subseteq [Services -> Nat \ {0}]

VARIABLES
  limit,  \* limit[s]: --threads of server s
  lease,  \* lease[n]: the connection call n is made on, or NoConn
  done,   \* the calls that have been answered
  failed, \* those answered with an exception
  wire    \* wire[c] \in {"closed", "pending", "accepted"}

vars == <<limit, lease, done, failed, wire>>

Init ==
  /\ limit \in Limits
  /\ lease = [n \in Nodes |-> NoConn]
  /\ done = {} /\ failed = {}
  /\ wire = [c \in Conns |-> "closed"]

Made(n)    == lease[n] # NoConn
Running(n) == Made(n) /\ wire[lease[n]] = "accepted"

\* The thread that makes the call has been started: no call of an earlier phase
\* is still to be answered, and none has failed.
Ready(n) ==
  /\ ~Made(n) /\ n \notin done
  /\ \/ n \in Roots
     \/ /\ Running(Parent[n])
        /\ \A m \in Children(Parent[n]) :
             Phase[m] < Phase[n] => m \in done \ failed

Free(p)   == Slots(p) \ {lease[n] : n \in Nodes}
Unmade(p) == {c \in Free(p) : wire[c] = "closed"}

\* get_client of a pool of fixed size: below it, a new connection, idle ones or
\* not; at it, an idle one; and if there is none, the call waits.
Lease(n) ==
  /\ Ready(n)
  /\ \E c \in Free(Pool(n)) :
       /\ c \in Unmade(Pool(n)) \/ Unmade(Pool(n)) = {}
       /\ lease' = [lease EXCEPT ![n] = c]
       /\ wire' = [wire EXCEPT ![c] = IF @ = "closed" THEN "pending" ELSE @]
  /\ UNCHANGED <<limit, done, failed>>

\* mutant: the server keeps one thread back
CanAcceptFewer(s) ==
  Cardinality({c \in To(s) : wire[c] = "accepted"}) + 1 < limit[s]

\* The server accepts while it has fewer clients than its limit.
CanAccept(s) == Cardinality({c \in To(s) : wire[c] = "accepted"}) < limit[s]

Accept(c) ==
  /\ wire[c] = "pending"
  /\ CanAccept(Server(c))
  /\ wire' = [wire EXCEPT ![c] = "accepted"]
  /\ UNCHANGED <<limit, lease, done, failed>>

\* All threads the handler has started have ended, and it starts no more.
Ended(n) == \A m \in Children(n) : ~Made(m) /\ ~Ready(m)

\* The answer to n: an exception if one of its calls threw, or of its own.
Answer(n) ==
  /\ done' = done \cup {n}
  /\ failed' \in IF Children(n) \cap failed # {} THEN {failed \cup {n}}
                 ELSE {failed, failed \cup {n}}

\* mutants: the handler leaves its threads behind; the connection is not put back
ReturnAtOnce(n) ==
  /\ Running(n)
  /\ lease' = [lease EXCEPT ![n] = NoConn]
  /\ Answer(n)
  /\ UNCHANGED <<limit, wire>>
ReturnKeeping(n) ==
  /\ Running(n) /\ n \notin done
  /\ Ended(n)
  /\ Answer(n)
  /\ UNCHANGED <<limit, lease, wire>>

\* The handler returns, or throws. The caller puts the connection back, and the
\* server's thread stays with it.
Return(n) ==
  /\ Running(n)
  /\ Ended(n)
  /\ lease' = [lease EXCEPT ![n] = NoConn]
  /\ Answer(n)
  /\ UNCHANGED <<limit, wire>>

\* The handler throws with calls still to make: its query fails or finds nothing,
\* or a thread cannot be started. It waits for those that were.
Throw(n) ==
  /\ Running(n)
  /\ ~Ended(n) /\ \A m \in Children(n) : ~Made(m)
  /\ lease' = [lease EXCEPT ![n] = NoConn]
  /\ done' = done \cup {n} /\ failed' = failed \cup {n}
  /\ UNCHANGED <<limit, wire>>

Step ==
  \/ \E n \in Nodes : Lease(n) \/ Return(n)
  \/ \E c \in Conns : Accept(c)

Next == Step \/ \E n \in Nodes : Throw(n)

Spec == Init /\ [][Next]_vars

\* Some thread that can run does, throwing or not. No order among them is
\* assumed: a call takes finitely many steps. (Reads have no time-out between the
\* services, so nothing else ends a call.)
FairSpec == Spec /\ WF_vars(Step)

-----------------------------------------------------------------------------
(* Properties *)

\* The types; a connection serves one call, of its own pool; a call is under way
\* only while the one it is made for is; and what is pending is in use.
TypeOK ==
  /\ limit \in Limits
  /\ lease \in [Nodes -> Conns \cup {NoConn}]
  /\ done \subseteq Nodes /\ failed \subseteq done
  /\ wire \in [Conns -> {"closed", "pending", "accepted"}]
  /\ \A n \in Nodes : Made(n) =>
       /\ n \notin done
       /\ lease[n] \in Slots(Pool(n)) /\ wire[lease[n]] # "closed"
       /\ \A m \in Nodes : lease[m] = lease[n] => m = n
       /\ n \notin Roots => Running(Parent[n])
  /\ \A c \in Conns : wire[c] = "pending" => \E n \in Nodes : lease[n] = c

\* No server's limit is less than the sizes of all pools that connect to it.
Roomy == \A s \in Services : Cardinality(To(s)) <= limit[s]

CanLease(n)  == Ready(n) /\ Free(Pool(n)) # {}
CanReturn(n) == Running(n) /\ n \notin done /\ Ended(n)

\* A step can be taken.
Progress ==
  \/ \E n \in Nodes : CanLease(n) \/ CanReturn(n)
  \/ \E c \in Conns : wire[c] = "pending" /\ CanAccept(Server(c))

\* A call waits for a server that has as many clients as it may have, of which
\* some may be idle in their pools.
Refused == \E c \in Conns : wire[c] = "pending" /\ ~CanAccept(Server(c))

\* Whatever connections calls hold while they wait for others, some call can go
\* on: pools do not wait for one another in a circle. All calls can only come to
\* a stop where a limit is too small for the pools, and then at that limit.
SomeCallGoesOn ==
  (\E n \in Nodes : Made(n) \/ Ready(n)) => Progress \/ (~Roomy /\ Refused)

\* What each pool of the mesh does for the calls made on it is what a connection
\* pool of fixed size promises its callers.
Users(p) == {n \in Nodes : Pool(n) = p}

PoolLease(p) == INSTANCE ConnectionLease WITH
  Threads <- Users(p), Conns <- Slots(p),
  lease <- [n \in Users(p) |-> lease[n]], capacity <- Cardinality(Slots(p))

\* Every call of the gateway is answered, if the limits leave room for the pools.
EveryCallAnswered == Roomy => \A r \in Roots : <>(r \in done)
=============================================================================
