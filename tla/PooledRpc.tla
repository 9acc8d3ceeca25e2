----------------------------- MODULE PooledRpc ------------------------------
(***************************************************************************)
(* Calls on pooled connections: the pool of ConnectionPool, and under it   *)
(* the Thrift connections its clients write to and read from.              *)
(*   app/common/site-packages/microservice_connected_server.py  (gateway)  *)
(*   app/common/site-packages/base_client.py                               *)
(*   app/common/include/microservice_connected_server.h         (services) *)
(*   app/common/include/base_client.h                                      *)
(*                                                                         *)
(* A connection is a stream: a server thread answers its requests in       *)
(* order, and a client reads one reply per call, the next one on the       *)
(* stream.  It is put back into the pool on every path, whatever happened  *)
(* to the call.  Which call a reply belongs to is a matter of counting:    *)
(* only how many requests were sent and not yet read for is kept.          *)
(***************************************************************************)
EXTENDS ConnectionPool

CONSTANTS
  ReceiveTimeout,  \* TRUE: a read gives up (Python); FALSE: it does not (C++)
  MaxUnread        \* bound: how many replies a connection may be behind

ASSUME RpcAssumption == ReceiveTimeout \in BOOLEAN /\ MaxUnread \in Nat \ {0}

VARIABLES
  rpc,     \* rpc[t] \in {"none", "waiting", "own", "stale", "error"}
  unread,  \* unread[c]: requests sent on c whose reply no call has read
  ready,   \* ready[c]: how many of these the server has answered
  whole,   \* whole[c]: the server's end is still there
  late     \* history, late[c]: reads on c that gave up

wire    == <<unread, ready, whole, late>>
rpcVars == <<rpc, wire>>
allVars == <<vars, rpcVars>>

RpcInit ==
  /\ Init
  /\ rpc = [t \in Threads |-> "none"]
  /\ unread = [c \in Conns |-> 0]
  /\ ready = [c \in Conns |-> 0]
  /\ whole = [c \in Conns |-> TRUE]
  /\ late = [c \in Conns |-> 0]

OpenConns == IdleConns \cup HeldConns

Ended == {"own", "stale", "error"}

-----------------------------------------------------------------------------
(* The pool's steps *)

\* The client's constructor: a fresh socket, nothing sent and nothing to read.
OpenSocket(t) ==
  /\ Connect(t)
  /\ LET c == conn'[t] IN
     /\ unread' = [unread EXCEPT ![c] = 0]
     /\ ready' = [ready EXCEPT ![c] = 0]
     /\ whole' = [whole EXCEPT ![c] = TRUE]
     /\ late' = [late EXCEPT ![c] = 0]
  /\ UNCHANGED rpc

\* release_client in the catch (...) and after it; __exit__ of the client.
EndCall(t) ==
  /\ rpc[t] \in Ended
  /\ Release(t)
  /\ rpc' = [rpc EXCEPT ![t] = "none"]
  /\ UNCHANGED wire

-----------------------------------------------------------------------------
(* The call on the connection t holds *)

Holding(t, r) == pc[t] = "using" /\ rpc[t] = r

Send(t) ==
  LET c == conn[t] IN
  /\ Holding(t, "none")
  /\ whole[c]
  /\ unread[c] < MaxUnread
  /\ unread' = [unread EXCEPT ![c] = @ + 1]
  /\ rpc' = [rpc EXCEPT ![t] = "waiting"]
  /\ UNCHANGED <<vars, ready, whole, late>>

\* The server's thread of c takes the next request and answers it.
Serve(c) ==
  /\ whole[c]
  /\ ready[c] < unread[c]
  /\ ready' = [ready EXCEPT ![c] = @ + 1]
  /\ UNCHANGED <<vars, rpc, unread, whole, late>>

\* mutant: the reply is found by the number of its request
ReceiveMatching(t) ==
  LET c == conn[t] IN
  /\ Holding(t, "waiting")
  /\ ready[c] = unread[c]
  /\ unread' = [unread EXCEPT ![c] = 0]
  /\ ready' = [ready EXCEPT ![c] = 0]
  /\ rpc' = [rpc EXCEPT ![t] = "own"]
  /\ UNCHANGED <<vars, whole, late>>

\* mutant: what was read stays in the buffer
ReceivePeek(t) ==
  LET c == conn[t] IN
  /\ Holding(t, "waiting")
  /\ ready[c] > 0
  /\ unread' = [unread EXCEPT ![c] = @ - 1]
  /\ rpc' = [rpc EXCEPT ![t] = IF unread[c] = 1 THEN "own" ELSE "stale"]
  /\ UNCHANGED <<vars, ready, whole, late>>

\* The next reply on the stream, whichever request it answers: the generated
\* clients do not compare sequence numbers. Of the wrong type, it is an
\* exception; of the same type, it is taken for the answer.
Receive(t) ==
  LET c == conn[t] IN
  /\ Holding(t, "waiting")
  /\ ready[c] > 0
  /\ unread' = [unread EXCEPT ![c] = @ - 1]
  /\ ready' = [ready EXCEPT ![c] = @ - 1]
  /\ rpc' = [rpc EXCEPT ![t] = IF unread[c] = 1 THEN "own" ELSE "stale"]
  /\ UNCHANGED <<vars, whole, late>>

\* The read gives up; the socket stays open and the request stays sent.
TimeOut(t) ==
  LET c == conn[t] IN
  /\ ReceiveTimeout
  /\ Holding(t, "waiting")
  /\ whole[c]
  /\ ready[c] = 0
  /\ late' = [late EXCEPT ![c] = @ + 1]
  /\ rpc' = [rpc EXCEPT ![t] = "error"]
  /\ UNCHANGED <<vars, unread, ready, whole>>

\* Writing to, or reading from, a connection whose server has gone.
CallFails(t) ==
  /\ Holding(t, "none") \/ Holding(t, "waiting")
  /\ ~whole[conn[t]]
  /\ rpc' = [rpc EXCEPT ![t] = "error"]
  /\ UNCHANGED <<vars, wire>>

\* The server restarts, or the network drops the connection.
Break(c) ==
  /\ c \in OpenConns
  /\ whole[c]
  /\ whole' = [whole EXCEPT ![c] = FALSE]
  /\ UNCHANGED <<vars, rpc, unread, ready, late>>

RpcNext ==
  \/ \E t \in Threads :
       \/ Arrive(t) /\ UNCHANGED rpcVars
       \/ SpuriousWake(t) /\ UNCHANGED rpcVars
       \/ LeaveWait(t) /\ UNCHANGED rpcVars
       \/ ConnectFails(t) /\ UNCHANGED rpcVars
       \/ OpenSocket(t) \/ EndCall(t)
       \/ Send(t) \/ Receive(t) \/ TimeOut(t) \/ CallFails(t)
  \/ \E c \in Conns : Serve(c) \/ Break(c)

RpcSpec == RpcInit /\ [][RpcNext]_allVars

-----------------------------------------------------------------------------
(* Properties *)

\* A call is under way only on a connection in hand, a connection is never
\* ahead of its requests, and reads give up only where they can.
RpcTypeOK ==
  /\ rpc \in [Threads -> {"none", "waiting"} \cup Ended]
  /\ \A t \in Threads : rpc[t] # "none" => pc[t] = "using"
  /\ whole \in [Conns -> BOOLEAN]
  /\ late \in [Conns -> Nat]
  /\ unread \in [Conns -> 0..MaxUnread]
  /\ ready \in [Conns -> Nat]
  /\ \A c \in Conns : ready[c] <= unread[c]
  /\ ~ReceiveTimeout => \A c \in Conns : late[c] = 0

WaitingOn(c) == {t \in Threads : rpc[t] = "waiting" /\ conn[t] = c}

\* A read that gives up puts its connection out of step for good: from then on
\* it is behind by the replies of the calls that gave up, no more and no fewer,
\* however many calls succeed on it after.
OutOfStep ==
  \A c \in OpenConns : whole[c] =>
    unread[c] = late[c] + Cardinality(WaitingOn(c))

\* A call gets the reply to its own request exactly when no read on its
\* connection ever gave up. (Between the services, whose reads never give up,
\* every reply is the call's own; in the gateway it is not.)
OwnReplyUnlessLate ==
  \A t \in Threads :
    /\ rpc[t] = "own" => late[conn[t]] = 0
    /\ rpc[t] = "stale" => late[conn[t]] > 0

\* A connection on which no later call gets its own reply.
Spoiled(c) == ~whole[c] \/ late[c] > 0

AllSpoiled ==
  /\ poolSize = MaxSize
  /\ At("connecting") = {}
  /\ \A c \in OpenConns : Spoiled(c)

FixedSize == Pooled /\ MinSize = MaxSize /\ ~AllowEphemeral

\* A pool of fixed size does not heal: when every connection of it is broken or
\* out of step, it stays so, because connections are put back unexamined and a
\* new one is opened only below the maximum.
PoolStaysSpoiled == [][FixedSize /\ AllSpoiled => AllSpoiled']_allVars
=============================================================================
