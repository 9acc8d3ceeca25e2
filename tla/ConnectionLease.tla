-------------------------- MODULE ConnectionLease ---------------------------
(***************************************************************************)
(* What a connection pool promises its callers, without queue, counters or *)
(* waiting: a lease on a connection is exclusive, and no more leases than  *)
(* the capacity are out at any time.  The capacity never grows.            *)
(***************************************************************************)
EXTENDS Integers, FiniteSets

CONSTANTS Threads, Conns, NoConn

VARIABLES
  lease,    \* the connection each thread has on lease, or NoConn
  capacity  \* how many leases may be out

vars == <<lease, capacity>>

Lessees == {t \in Threads : lease[t] # NoConn}

Init ==
  /\ lease = [t \in Threads |-> NoConn]
  /\ capacity \in Nat

\* t is given a connection that no other thread has.
Grant(t, c) ==
  /\ lease[t] = NoConn
  /\ Cardinality(Lessees) < capacity
  /\ \A u \in Threads : lease[u] # c
  /\ lease' = [lease EXCEPT ![t] = c]
  /\ UNCHANGED capacity

Return(t) ==
  /\ lease[t] # NoConn
  /\ lease' = [lease EXCEPT ![t] = NoConn]
  /\ UNCHANGED capacity

\* A failed connect takes a unit out of the pool for good.
Shrink ==
  /\ capacity' = capacity - 1
  /\ Cardinality(Lessees) <= capacity'
  /\ UNCHANGED lease

Next == \/ \E t \in Threads : (\E c \in Conns : Grant(t, c)) \/ Return(t)
        \/ Shrink

Spec == Init /\ [][Next]_vars
=============================================================================
