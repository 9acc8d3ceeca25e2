-------------------------- MODULE PooledRpc_proofs --------------------------
(***************************************************************************)
(* Proofs about PooledRpc, for any number of threads, any sizes, with and  *)
(* without receive time-outs.                                              *)
(*                                                                         *)
(* Every step is a step of the pool or leaves it alone, so what was proved *)
(* of ConnectionPool holds here.  Exclusive use is what makes the rest     *)
(* local: between the sending of a request and the end of its call nobody  *)
(* else moves the connection's counters.                                   *)
(***************************************************************************)
EXTENDS PooledRpc, ConnectionPool_proofs

-----------------------------------------------------------------------------
(* The pool underneath *)

\* A step of a call is a step of the pool, or none.
LEMMA RpcNextIsNext == [RpcNext]_allVars => [Next]_vars
BY DEF RpcNext, allVars, Next, OpenSocket, Open, EndCall, Send, Receive,
       TimeOut, CallFails, Serve, Break

\* Calls use the pool as ConnectionPool says a caller does: whatever the server
\* and the connections do, get_client and release_client alternate.
THEOREM CallsUseThePool == RpcSpec => Spec
<1>1. RpcInit => Init
  BY DEF RpcInit
<1> QED
  BY <1>1, RpcNextIsNext, PTL DEF RpcSpec, Spec

\* What a step needs to know of the pool.
PoolInv == TypeOK /\ ExclusiveUse

\* The pool's invariants hold under calls.
LEMMA PoolInvariance == RpcSpec => []PoolInv
BY CallsUseThePool, TypeCorrect, ExclusiveUseHolds, PTL DEF PoolInv

\* The threads other than t that use a connection go on using it.
OthersKeep(t) ==
  \A u \in Threads : u # t /\ pc[u] = "using" =>
    pc'[u] = "using" /\ conn'[u] = conn[u]

\* The first of the queue becomes t's; no connection is new.
LEMMA TakeKeeps ==
  ASSUME PoolInv, NEW t \in Threads, pc[t] # "using", idle # <<>>, TakeFront(t)
  PROVE  OthersKeep(t) /\ OpenConns' \subseteq OpenConns
<1> USE DEF PoolInv, TypeOK
<1>1. /\ Len(idle) \in Nat /\ Len(idle) > 0
      /\ conn' = [conn EXCEPT ![t] = idle[1]] /\ Len(idle') = Len(idle) - 1
      /\ \A i \in 1..Len(idle') : idle'[i] = idle[i+1]
  BY QueueTake DEF TakeFront
<1>2. idle[1] \in IdleConns /\ IdleConns' \subseteq IdleConns
  <2>1. \A i \in 1..Len(idle) : idle[i] \in IdleConns
    BY DEF IdleConns
  <2>2. \A i \in 1..Len(idle') : i + 1 \in 1..Len(idle)
    BY <1>1
  <2>3. \A i \in 1..Len(idle') : idle'[i] \in IdleConns
    BY <1>1, <2>1, <2>2
  <2>4. idle[1] \in IdleConns
    BY <1>1, <2>1
  <2> QED
    BY <2>3, <2>4 DEF IdleConns
<1>3. At("using")' = At("using") \cup {t}
  BY DEF TakeFront, At
<1>4. \A u \in At("using") : conn'[u] = conn[u]
  BY <1>1 DEF At
<1>5. HeldConns' \subseteq HeldConns \cup {idle[1]}
  BY <1>1, <1>3, <1>4 DEF HeldConns
<1> QED
  BY <1>2, <1>5 DEF OthersKeep, OpenConns, TakeFront

\* Getting in, waiting and failing to connect: no connection is new, and no
\* thread loses its own.
LEMMA GetKeeps ==
  ASSUME PoolInv, NEW t \in Threads,
         Arrive(t) \/ SpuriousWake(t) \/ LeaveWait(t) \/ ConnectFails(t)
  PROVE  /\ pc[t] # "using"
         /\ OthersKeep(t)
         /\ OpenConns' \subseteq OpenConns
<1> USE DEF PoolInv, TypeOK
<1>1. CASE GetIdle(t) \/ WokenTakes(t)
  BY <1>1, TakeKeeps DEF GetIdle, WokenTakes
<1>2. ASSUME NEW s, s # "using", pc[t] # "using", pc' = [pc EXCEPT ![t] = s],
             UNCHANGED <<conn, idle>>
      PROVE  OthersKeep(t) /\ OpenConns' \subseteq OpenConns
  <2>1. At("using")' = At("using")
    BY <1>2 DEF At
  <2> QED
    BY <1>2, <2>1 DEF OthersKeep, OpenConns, IdleConns, HeldConns
<1>3. CASE GetNew(t) \/ GetBlock(t) \/ GetUnpooled(t) \/ SpuriousWake(t)
           \/ WokenFindsNone(t) \/ ConnectFails(t)
  BY <1>2, <1>3
  DEF GetNew, GetBlock, GetUnpooled, SpuriousWake, WokenFindsNone, ConnectFails
<1> QED
  BY <1>1, <1>3 DEF Arrive, LeaveWait, GetIdle, WokenTakes

\* A new connection was nobody's and not in the queue.
LEMMA ConnectKeeps ==
  ASSUME PoolInv, NEW t \in Threads, Connect(t)
  PROVE  /\ pc[t] = "connecting"
         /\ OthersKeep(t)
         /\ conn'[t] \in Conns \ OpenConns
         /\ OpenConns' \subseteq OpenConns \cup {conn'[t]}
<1> USE DEF PoolInv, TypeOK
<1>1. PICK c \in Conns \ (IdleConns \cup HeldConns) :
        conn' = [conn EXCEPT ![t] = c]
  BY DEF Connect
<1>2. pc[t] = "connecting" /\ idle' = idle /\ pc' = [pc EXCEPT ![t] = "using"]
  BY DEF Connect
<1>3. At("using")' = At("using") \cup {t} /\ t \notin At("using")
  BY <1>2 DEF At
<1>4. conn'[t] = c /\ \A u \in At("using") : conn'[u] = conn[u]
  BY <1>1, <1>3
<1>5. HeldConns' \subseteq HeldConns \cup {c}
  BY <1>3, <1>4 DEF HeldConns
<1>6. OthersKeep(t)
  BY <1>1, <1>2 DEF OthersKeep
<1> QED
  BY <1>1, <1>2, <1>4, <1>5, <1>6 DEF OpenConns, IdleConns

\* A release takes t's connection away, and no other's.
LEMMA ReleaseKeeps ==
  ASSUME PoolInv, NEW t \in Threads, Release(t)
  PROVE  /\ pc[t] = "using"
         /\ OthersKeep(t)
         /\ OpenConns' \subseteq OpenConns
<1> USE DEF PoolInv, TypeOK
<1>1. pc[t] = "using" /\ conn' = [conn EXCEPT ![t] = NoConn]
  BY DEF Release, ReleaseCloses, ReleasePushes, ReleaseUnpooled, LetGo
<1>2. /\ \A u \in Threads : u # t /\ pc[u] = "using" => pc'[u] = "using"
      /\ \A u \in Threads : pc'[u] = "using" => u # t /\ pc[u] = "using"
  <2>1. CASE pc' = [pc EXCEPT ![t] = "out"]
    BY <2>1
  <2>2. CASE ReleasePushes(t) /\ At("sleeping") # {}
    <3>1. PICK w \in At("sleeping") :
            pc' = [pc EXCEPT ![t] = "out", ![w] = "woken"]
      BY <2>2 DEF ReleasePushes, NotifyOne
    <3> QED
      BY <1>1, <3>1 DEF At
  <2> QED
    BY <2>1, <2>2
    DEF Release, ReleaseCloses, ReleasePushes, ReleaseUnpooled, NotifyOne
<1>3. OthersKeep(t)
  BY <1>1, <1>2 DEF OthersKeep
<1>4. HeldConns' \subseteq HeldConns /\ conn[t] \in HeldConns
  BY <1>1, <1>2, <1>3 DEF HeldConns, At, OthersKeep
<1>5. IdleConns' \subseteq IdleConns \cup {conn[t]}
  <2>1. CASE idle' = idle
    BY <2>1 DEF IdleConns
  <2>2. CASE idle' = Append(idle, conn[t])
    <3>1. conn[t] \in Conns
      BY <1>1 DEF ExclusiveUse, HoldsWhileUsing
    <3>2. /\ Len(idle) \in Nat /\ Len(idle') = Len(idle) + 1
          /\ \A i \in 1..Len(idle) : idle'[i] = idle[i]
          /\ idle'[Len(idle) + 1] = conn[t]
      BY <2>2, <3>1, QueueAppend
    <3> QED
      BY <3>2 DEF IdleConns
  <2> QED
    BY <2>1, <2>2 DEF Release, ReleaseCloses, ReleasePushes, ReleaseUnpooled
<1> QED
  BY <1>1, <1>3, <1>4, <1>5 DEF OpenConns

-----------------------------------------------------------------------------
(* The calls *)

\* A waiting call's connection is behind by the calls that gave up on it, and
\* by this one.
Behind ==
  \A t \in Threads : rpc[t] = "waiting" => unread[conn[t]] = late[conn[t]] + 1

\* A whole connection nobody waits on is behind by the calls that gave up.
Level ==
  \A c \in OpenConns :
    whole[c] /\ (\A t \in Threads : rpc[t] = "waiting" => conn[t] # c)
      => unread[c] = late[c]

RpcInv == RpcTypeOK /\ Behind /\ Level /\ OwnReplyUnlessLate

\* A thread in a call holds a connection that is open and nobody else's.
LEMMA InCall ==
  ASSUME PoolInv, RpcInv
  PROVE  /\ \A t \in Threads : pc[t] = "using" =>
              /\ conn[t] \in Conns /\ conn[t] \in OpenConns
              /\ \A u \in Threads : u # t /\ pc[u] = "using" => conn[u] # conn[t]
         /\ OpenConns \subseteq Conns
<1> USE DEF PoolInv, TypeOK
<1>1. \A t \in Threads : pc[t] = "using" => conn[t] \in Conns
  BY DEF ExclusiveUse, HoldsWhileUsing
<1>2. HeldConns \subseteq Conns
  BY <1>1 DEF HeldConns, At
<1>3. IdleConns \subseteq Conns
  BY LenProperties DEF IdleConns
<1>4. \A t \in Threads : pc[t] = "using" => conn[t] \in HeldConns
  BY DEF HeldConns, At
<1>5. \A t, u \in Threads : u # t /\ pc[t] = "using" /\ pc[u] = "using"
                            => conn[u] # conn[t]
  BY DEF ExclusiveUse, At
<1> QED
  BY <1>1, <1>2, <1>3, <1>4, <1>5 DEF OpenConns

\* The empty pool.
LEMMA RpcInitInv == RpcInit => RpcInv
BY RpcAssumption
DEF RpcInit, RpcInv, RpcTypeOK, Behind, Level, OwnReplyUnlessLate, Ended

\* A step of the pool that leaves calls and wire alone.
LEMMA GetStep ==
  ASSUME PoolInv, RpcInv, UNCHANGED rpcVars, NEW t \in Threads,
         OthersKeep(t), OpenConns' \subseteq OpenConns, pc[t] # "using"
  PROVE  RpcInv'
<1> USE DEF PoolInv, TypeOK, RpcInv, rpcVars, wire
<1>1. \A u \in Threads : rpc[u] # "none" => pc'[u] = "using" /\ conn'[u] = conn[u]
  BY DEF RpcTypeOK, OthersKeep
<1>2. RpcTypeOK'
  BY <1>1 DEF RpcTypeOK
<1>3. Behind'
  BY <1>1 DEF Behind
<1>4. Level'
  BY <1>1 DEF Level
<1>5. OwnReplyUnlessLate'
  BY <1>1 DEF OwnReplyUnlessLate
<1> QED
  BY <1>2, <1>3, <1>4, <1>5

\* A fresh connection is in step.
LEMMA OpenStep ==
  ASSUME PoolInv, RpcInv, NEW t \in Threads, OpenSocket(t)
  PROVE  RpcInv'
<1> USE DEF PoolInv, TypeOK, RpcInv
<1> DEFINE c == conn'[t]
<1>1. /\ pc[t] = "connecting" /\ OthersKeep(t) /\ c \in Conns \ OpenConns
      /\ OpenConns' \subseteq OpenConns \cup {c}
  BY ConnectKeeps DEF OpenSocket
<1>2. /\ rpc' = rpc
      /\ unread' = [unread EXCEPT ![c] = 0] /\ ready' = [ready EXCEPT ![c] = 0]
      /\ whole' = [whole EXCEPT ![c] = TRUE] /\ late' = [late EXCEPT ![c] = 0]
  BY DEF OpenSocket
<1>3. \A u \in Threads : rpc[u] # "none" =>
        /\ pc'[u] = "using" /\ conn'[u] = conn[u] /\ conn[u] # c
        /\ conn[u] \in Conns
  BY <1>1, InCall DEF RpcTypeOK, OthersKeep
<1> HIDE DEF c
<1>4. RpcTypeOK'
  BY <1>1, <1>2, <1>3, RpcAssumption DEF RpcTypeOK
<1>5. \A d \in Conns : d # c => /\ unread'[d] = unread[d] /\ late'[d] = late[d]
                               /\ whole'[d] = whole[d]
  BY <1>2 DEF RpcTypeOK
<1>6. Behind'
  BY <1>2, <1>3, <1>5 DEF Behind
<1>7. OwnReplyUnlessLate'
  BY <1>2, <1>3, <1>5 DEF OwnReplyUnlessLate
<1>8. Level'
  <2> SUFFICES ASSUME NEW d \in OpenConns', whole'[d],
                      \A u \in Threads : rpc'[u] = "waiting" => conn'[u] # d
               PROVE  unread'[d] = late'[d]
    BY DEF Level
  <2>1. CASE d = c
    BY <1>1, <1>2, <2>1 DEF RpcTypeOK
  <2>2. CASE d # c
    <3>1. d \in OpenConns /\ d \in Conns
      BY <1>1, <2>2, InCall
    <3>2. \A u \in Threads : rpc[u] = "waiting" => conn[u] # d
      BY <1>2, <1>3
    <3> QED
      BY <1>5, <2>2, <3>1, <3>2 DEF Level
  <2> QED
    BY <2>1, <2>2
<1> QED
  BY <1>4, <1>6, <1>7, <1>8

\* What is put back is as far behind as it was.
LEMMA EndCallStep ==
  ASSUME PoolInv, RpcInv, NEW t \in Threads, EndCall(t)
  PROVE  RpcInv'
<1> USE DEF PoolInv, TypeOK, RpcInv
<1>1. pc[t] = "using" /\ OthersKeep(t) /\ OpenConns' \subseteq OpenConns
  BY ReleaseKeeps DEF EndCall
<1>2. rpc[t] \in Ended /\ rpc' = [rpc EXCEPT ![t] = "none"] /\ UNCHANGED wire
  BY DEF EndCall
<1>3. \A u \in Threads : rpc'[u] # "none" =>
        /\ u # t /\ rpc'[u] = rpc[u] /\ pc'[u] = "using" /\ conn'[u] = conn[u]
  BY <1>1, <1>2 DEF RpcTypeOK, OthersKeep
<1>4. \A u \in Threads : rpc[u] = "waiting" => rpc'[u] = "waiting"
  BY <1>2 DEF RpcTypeOK, Ended
<1>5. RpcTypeOK'
  BY <1>2, <1>3 DEF RpcTypeOK, wire
<1>6. Behind'
  BY <1>2, <1>3 DEF Behind, wire
<1>7. Level'
  BY <1>1, <1>2, <1>3, <1>4 DEF Level, wire
<1>8. OwnReplyUnlessLate'
  BY <1>2, <1>3 DEF OwnReplyUnlessLate, wire
<1> QED
  BY <1>5, <1>6, <1>7, <1>8

\* A request is sent: nobody else waits on this connection.
LEMMA SendStep ==
  ASSUME PoolInv, RpcInv, NEW t \in Threads, Send(t)
  PROVE  RpcInv'
<1> USE DEF PoolInv, RpcInv
<1> DEFINE c == conn[t]
<1>1. /\ pc[t] = "using" /\ rpc[t] = "none" /\ whole[c] /\ unread[c] < MaxUnread
      /\ unread' = [unread EXCEPT ![c] = @ + 1]
      /\ rpc' = [rpc EXCEPT ![t] = "waiting"]
      /\ UNCHANGED <<vars, ready, whole, late>>
  BY DEF Send, Holding
<1>2. /\ c \in Conns /\ c \in OpenConns
      /\ \A u \in Threads : u # t /\ rpc[u] # "none" => conn[u] # c /\ conn[u] \in Conns
  BY <1>1, InCall DEF RpcTypeOK
<1>3. unread[c] = late[c]
  BY <1>1, <1>2 DEF Level
<1>4. /\ pc' = pc /\ conn' = conn /\ idle' = idle
      /\ OpenConns' = OpenConns
  BY <1>1 DEF vars, OpenConns, IdleConns, HeldConns, At
<1> HIDE DEF c
<1>5. RpcTypeOK'
  BY <1>1, <1>2, <1>4, RpcAssumption DEF RpcTypeOK, Ended
<1>6. Behind'
  BY <1>1, <1>2, <1>3, <1>4 DEF Behind, RpcTypeOK, c
<1>7. Level'
  BY <1>1, <1>2, <1>4, InCall DEF Level, RpcTypeOK, c
<1>8. OwnReplyUnlessLate'
  BY <1>1, <1>2, <1>4 DEF OwnReplyUnlessLate, RpcTypeOK
<1> QED
  BY <1>5, <1>6, <1>7, <1>8

\* A call that ends, with a reply or with a read that gives up, leaves its
\* connection behind by the calls that gave up.
LEMMA AnswerStep ==
  ASSUME PoolInv, RpcInv, NEW t \in Threads, Receive(t) \/ TimeOut(t)
  PROVE  RpcInv'
<1> USE DEF PoolInv, RpcInv
<1> DEFINE c == conn[t]
<1>1. pc[t] = "using" /\ rpc[t] = "waiting" /\ whole' = whole
  BY DEF Receive, TimeOut, Holding
<1>2. /\ c \in Conns /\ c \in OpenConns
      /\ \A u \in Threads : u # t /\ rpc[u] # "none" => conn[u] # c /\ conn[u] \in Conns
  BY <1>1, InCall DEF RpcTypeOK
<1>3. unread[c] = late[c] + 1 /\ unread[c] \in Nat /\ late[c] \in Nat
  BY <1>1, <1>2, RpcAssumption DEF Behind, RpcTypeOK
<1>4. pc' = pc /\ conn' = conn /\ idle' = idle /\ OpenConns' = OpenConns
  BY DEF Receive, TimeOut, vars, OpenConns, IdleConns, HeldConns, At
<1>5. /\ rpc'[t] # "waiting" /\ rpc'[t] \in Ended
      /\ rpc' = [rpc EXCEPT ![t] = rpc'[t]]
      /\ rpc'[t] = "own" => late'[c] = 0
      /\ rpc'[t] = "stale" => late'[c] > 0
  <2>1. CASE Receive(t)
    <3>1. /\ rpc' = [rpc EXCEPT ![t] = IF unread[c] = 1 THEN "own" ELSE "stale"]
          /\ late' = late
      BY <2>1 DEF Receive
    <3>2. rpc'[t] = IF unread[c] = 1 THEN "own" ELSE "stale"
      BY <3>1 DEF RpcTypeOK
    <3>3. rpc' = [rpc EXCEPT ![t] = rpc'[t]]
      BY <3>1, <3>2
    <3>4. unread[c] = 1 <=> late[c] = 0
      BY <1>3
    <3> QED
      BY <1>3, <3>1, <3>2, <3>3, <3>4 DEF Ended
  <2>2. CASE TimeOut(t)
    <3>1. rpc' = [rpc EXCEPT ![t] = "error"]
      BY <2>2 DEF TimeOut
    <3>2. rpc'[t] = "error"
      BY <3>1 DEF RpcTypeOK
    <3> QED
      BY <3>1, <3>2 DEF Ended
  <2> QED
    BY <2>1, <2>2
<1>6. /\ unread'[c] = late'[c]
      /\ \A d \in Conns : d # c => unread'[d] = unread[d] /\ late'[d] = late[d]
  BY <1>1, <1>2, <1>3 DEF Receive, TimeOut, RpcTypeOK
<1>7. /\ unread' \in [Conns -> 0..MaxUnread] /\ late' \in [Conns -> Nat]
      /\ ready' \in [Conns -> Nat]
      /\ \A d \in Conns : ready'[d] <= unread'[d]
      /\ ~ReceiveTimeout => \A d \in Conns : late'[d] = 0
  <2>1. CASE Receive(t)
    <3>1. /\ unread' = [unread EXCEPT ![c] = @ - 1] /\ ready[c] > 0
          /\ ready' = [ready EXCEPT ![c] = @ - 1] /\ late' = late
      BY <2>1 DEF Receive
    <3>2. unread[c] - 1 \in 0..MaxUnread /\ ready[c] - 1 \in Nat
      BY <1>2, <1>3, <3>1, RpcAssumption DEF RpcTypeOK
    <3> QED
      BY <1>2, <3>1, <3>2, RpcAssumption DEF RpcTypeOK
  <2>2. CASE TimeOut(t)
    BY <1>2, <2>2 DEF TimeOut, RpcTypeOK
  <2> QED
    BY <2>1, <2>2
<1> HIDE DEF c
<1>8. RpcTypeOK'
  BY <1>1, <1>4, <1>5, <1>7 DEF RpcTypeOK
<1>9. Behind'
  BY <1>2, <1>4, <1>5, <1>6 DEF Behind, RpcTypeOK
<1>10. Level'
  <2> SUFFICES ASSUME NEW d \in OpenConns, whole[d],
                      \A u \in Threads : rpc'[u] = "waiting" => conn[u] # d
               PROVE  unread'[d] = late'[d]
    BY <1>1, <1>4 DEF Level
  <2>1. CASE d # c
    <3>1. \A u \in Threads : rpc[u] = "waiting" => conn[u] # d
      BY <1>5, <2>1 DEF c, RpcTypeOK
    <3> QED
      BY <1>6, <2>1, <3>1, InCall DEF Level
  <2> QED
    BY <1>6, <2>1
<1>11. OwnReplyUnlessLate'
  <2>1. \A u \in Threads : u # t /\ rpc'[u] # "none" =>
          rpc'[u] = rpc[u] /\ late'[conn[u]] = late[conn[u]]
    BY <1>2, <1>5, <1>6 DEF RpcTypeOK
  <2> QED
    BY <1>4, <1>5, <2>1 DEF OwnReplyUnlessLate, c
<1> QED
  BY <1>8, <1>9, <1>10, <1>11

\* A call on a broken connection fails; the connection stays broken.
LEMMA FailStep ==
  ASSUME PoolInv, RpcInv, NEW t \in Threads, CallFails(t)
  PROVE  RpcInv'
<1> USE DEF PoolInv, RpcInv
<1>1. /\ pc[t] = "using" /\ ~whole[conn[t]]
      /\ rpc' = [rpc EXCEPT ![t] = "error"] /\ UNCHANGED <<vars, wire>>
  BY DEF CallFails, Holding
<1>2. pc' = pc /\ conn' = conn /\ OpenConns' = OpenConns
  BY <1>1 DEF vars, OpenConns, IdleConns, HeldConns, At
<1>3. RpcTypeOK'
  BY <1>1, <1>2 DEF RpcTypeOK, Ended, wire
<1>4. Behind'
  BY <1>1, <1>2 DEF Behind, RpcTypeOK, wire
<1>5. Level'
  BY <1>1, <1>2 DEF Level, RpcTypeOK, wire
<1>6. OwnReplyUnlessLate'
  BY <1>1, <1>2 DEF OwnReplyUnlessLate, RpcTypeOK, wire
<1> QED
  BY <1>3, <1>4, <1>5, <1>6

\* What happens at the other end does not change how far behind a connection is.
LEMMA RemoteStep ==
  ASSUME PoolInv, RpcInv, NEW c \in Conns, Serve(c) \/ Break(c)
  PROVE  RpcInv'
<1> USE DEF PoolInv, RpcInv
<1>1. UNCHANGED <<vars, rpc, unread, late>>
  BY DEF Serve, Break
<1>2. pc' = pc /\ conn' = conn /\ OpenConns' = OpenConns
  BY <1>1 DEF vars, OpenConns, IdleConns, HeldConns, At
<1>3. /\ ready' \in [Conns -> Nat] /\ \A d \in Conns : ready'[d] <= unread[d]
      /\ whole' \in [Conns -> BOOLEAN]
      /\ \A d \in Conns : whole'[d] => whole[d]
  <2>1. CASE Serve(c)
    <3>1. /\ ready' = [ready EXCEPT ![c] = @ + 1] /\ ready[c] < unread[c]
          /\ whole' = whole
      BY <2>1 DEF Serve
    <3>2. ready[c] + 1 \in Nat /\ ready[c] + 1 <= unread[c]
      BY <3>1, RpcAssumption DEF RpcTypeOK
    <3> QED
      BY <3>1, <3>2 DEF RpcTypeOK
  <2>2. CASE Break(c)
    BY <2>2 DEF Break, RpcTypeOK
  <2> QED
    BY <2>1, <2>2
<1>4. RpcTypeOK'
  BY <1>1, <1>2, <1>3 DEF RpcTypeOK
<1>5. Behind'
  BY <1>1, <1>2 DEF Behind
<1>6. Level'
  BY <1>1, <1>2, <1>3, InCall DEF Level
<1>7. OwnReplyUnlessLate'
  BY <1>1, <1>2 DEF OwnReplyUnlessLate
<1> QED
  BY <1>4, <1>5, <1>6, <1>7

\* Every step keeps the invariant.
LEMMA RpcNextInv == PoolInv /\ RpcInv /\ [RpcNext]_allVars => RpcInv'
<1> SUFFICES ASSUME PoolInv, RpcInv, [RpcNext]_allVars PROVE RpcInv'
  OBVIOUS
<1>1. CASE UNCHANGED allVars
  BY <1>1 DEF allVars, vars, rpcVars, wire, RpcInv, RpcTypeOK, Behind, Level,
              OwnReplyUnlessLate, OpenConns, IdleConns, HeldConns, At
<1>2. ASSUME NEW t \in Threads, UNCHANGED rpcVars,
             Arrive(t) \/ SpuriousWake(t) \/ LeaveWait(t) \/ ConnectFails(t)
      PROVE  RpcInv'
  BY <1>2, GetKeeps, GetStep
<1>3. ASSUME NEW t \in Threads,
             \/ OpenSocket(t) \/ EndCall(t)
             \/ Send(t) \/ Receive(t) \/ TimeOut(t) \/ CallFails(t)
      PROVE  RpcInv'
  BY <1>3, OpenStep, EndCallStep, SendStep, AnswerStep, FailStep
<1>4. ASSUME NEW c \in Conns, Serve(c) \/ Break(c)
      PROVE  RpcInv'
  BY <1>4, RemoteStep
<1> QED
  BY <1>1, <1>2, <1>3, <1>4 DEF RpcNext

\* The invariant holds for ever.
LEMMA RpcInvariance == RpcSpec => [](PoolInv /\ RpcInv)
BY PoolInvariance, RpcInitInv, RpcNextInv, PTL DEF RpcSpec

-----------------------------------------------------------------------------
(* The properties *)

\* Type correctness of calls, for any number of threads and connections; where
\* reads never give up, no connection is ever late.
THEOREM RpcTypeCorrect == RpcSpec => []RpcTypeOK
<1>1. RpcInv => RpcTypeOK
  BY DEF RpcInv
<1> QED
  BY RpcInvariance, <1>1, PTL

\* A call gets its own reply exactly when no read on its connection gave up.
THEOREM OwnReplyUnlessLateHolds == RpcSpec => []OwnReplyUnlessLate
<1>1. RpcInv => OwnReplyUnlessLate
  BY DEF RpcInv
<1> QED
  BY RpcInvariance, <1>1, PTL

\* Between the services, whose reads never give up, every reply a call reads is
\* the reply to its own request.
THEOREM RepliesAreOwn == ~ReceiveTimeout => (RpcSpec => [](\A t \in Threads : rpc[t] # "stale"))
<1> SUFFICES ASSUME ~ReceiveTimeout
             PROVE  RpcSpec => [](\A t \in Threads : rpc[t] # "stale")
  OBVIOUS
<1>1. PoolInv /\ RpcInv => \A t \in Threads : rpc[t] # "stale"
  <2> SUFFICES ASSUME PoolInv, RpcInv, NEW t \in Threads, rpc[t] = "stale"
               PROVE  FALSE
    OBVIOUS
  <2>1. conn[t] \in Conns
    BY InCall DEF RpcInv, RpcTypeOK
  <2>2. late[conn[t]] = 0 /\ late[conn[t]] > 0
    BY <2>1 DEF RpcInv, RpcTypeOK, OwnReplyUnlessLate
  <2> QED
    BY <2>2
<1> QED
  BY RpcInvariance, <1>1, PTL

\* A connection stays behind by as many replies as reads on it gave up.
THEOREM OutOfStepHolds == RpcSpec => []OutOfStep
<1>1. PoolInv /\ RpcInv => OutOfStep
  <2> SUFFICES ASSUME PoolInv, RpcInv, NEW c \in OpenConns, whole[c]
               PROVE  unread[c] = late[c] + Cardinality(WaitingOn(c))
    BY DEF OutOfStep
  <2>0. late[c] \in Nat
    BY InCall DEF RpcInv, RpcTypeOK
  <2>1. CASE \E t \in Threads : rpc[t] = "waiting" /\ conn[t] = c
    <3>1. PICK t \in Threads : rpc[t] = "waiting" /\ conn[t] = c
      BY <2>1
    <3>2. \A u \in Threads : u # t /\ rpc[u] = "waiting" => conn[u] # c
      BY <3>1, InCall DEF RpcInv, RpcTypeOK
    <3>3. WaitingOn(c) = {t}
      BY <3>1, <3>2 DEF WaitingOn
    <3>4. Cardinality(WaitingOn(c)) = 1
      BY <3>3, FS_Singleton
    <3> QED
      BY <3>1, <3>4 DEF RpcInv, Behind
  <2>2. CASE \A t \in Threads : rpc[t] = "waiting" => conn[t] # c
    <3>1. WaitingOn(c) = {}
      BY <2>2 DEF WaitingOn
    <3>2. Cardinality(WaitingOn(c)) = 0
      BY <3>1, FS_EmptySet
    <3> QED
      BY <2>0, <2>2, <3>2 DEF RpcInv, Level
  <2> QED
    BY <2>1, <2>2
<1> QED
  BY RpcInvariance, <1>1, PTL

-----------------------------------------------------------------------------
(* A pool of fixed size *)

\* A pool of fixed size that is full opens and closes nothing.
LEMMA FullPoolStep ==
  ASSUME PoolInv, FixedSize, AllSpoiled, NEW t \in Threads,
         \/ Arrive(t) \/ SpuriousWake(t) \/ LeaveWait(t) \/ ConnectFails(t)
         \/ Release(t)
  PROVE  /\ poolSize' = MaxSize /\ At("connecting")' = {}
         /\ OpenConns' \subseteq OpenConns
<1> USE DEF PoolInv, TypeOK
<1>1. /\ poolSize = MaxSize /\ MinSize = MaxSize /\ ~AllowEphemeral /\ Pooled
      /\ \A u \in Threads : pc[u] # "connecting"
  BY DEF FixedSize, AllSpoiled, At
<1>2. MaxSize \in Nat /\ ~MayOpen /\ ~Closes
  BY <1>1, SizeTypes DEF MayOpen, Closes
<1>3. OpenConns' \subseteq OpenConns
  BY GetKeeps, ReleaseKeeps
<1>4. /\ poolSize' = poolSize
      /\ \/ \E s \in {"using", "sleeping", "woken", "out"} : pc' = [pc EXCEPT ![t] = s]
         \/ \E w \in Threads : pc' = [pc EXCEPT ![t] = "out", ![w] = "woken"]
  <2>1. CASE Arrive(t)
    BY <1>1, <1>2, <2>1
    DEF Arrive, GetNew, GetIdle, GetBlock, GetUnpooled, TakeFront
  <2>2. CASE SpuriousWake(t) \/ LeaveWait(t)
    BY <2>2 DEF SpuriousWake, LeaveWait, WokenFindsNone, WokenTakes, TakeFront
  <2>3. CASE ConnectFails(t)
    BY <1>1, <2>3 DEF ConnectFails
  <2>4. CASE Release(t)
    BY <1>1, <1>2, <2>4
    DEF Release, ReleaseCloses, ReleasePushes, ReleaseUnpooled, NotifyOne, At
  <2> QED
    BY <2>1, <2>2, <2>3, <2>4
<1>5. \A u \in Threads : pc'[u] # "connecting"
  BY <1>1, <1>4
<1> QED
  BY <1>1, <1>3, <1>4, <1>5 DEF At

\* A step keeps a spoiled pool of fixed size spoiled.
LEMMA SpoiledStep ==
  ASSUME PoolInv, RpcInv, FixedSize, AllSpoiled, [RpcNext]_allVars
  PROVE  AllSpoiled'
<1>0. OpenConns \subseteq Conns /\ RpcInv' /\ MaxSize' = MaxSize
  BY InCall, RpcNextInv, RpcNextIsNext, SizesStay
\* Nothing is opened, and nothing on the wire gets better.
<1>a. ASSUME poolSize' = MaxSize, At("connecting")' = {},
             OpenConns' \subseteq OpenConns,
             \A c \in Conns : (whole'[c] => whole[c]) /\ late'[c] >= late[c],
             RpcInv'
      PROVE  AllSpoiled'
  <2>1. \A c \in OpenConns' : c \in Conns /\ (~whole[c] \/ late[c] > 0)
    BY <1>0, <1>a DEF AllSpoiled, Spoiled
  <2>2. \A c \in Conns : late[c] > 0 => late'[c] > 0
    <3> SUFFICES ASSUME NEW c \in Conns, late[c] > 0 PROVE late'[c] > 0
      OBVIOUS
    <3>1. late[c] \in Nat /\ late'[c] \in Nat /\ late'[c] >= late[c]
      BY <1>a DEF RpcInv, RpcTypeOK
    <3> QED
      BY <3>1
  <2> QED
    BY <1>0, <1>a, <2>1, <2>2 DEF AllSpoiled, Spoiled
<1>b. ASSUME UNCHANGED vars
      PROVE  /\ poolSize' = MaxSize /\ At("connecting")' = {}
             /\ OpenConns' \subseteq OpenConns
  BY <1>b DEF vars, AllSpoiled, OpenConns, IdleConns, HeldConns, At
<1>c. ASSUME UNCHANGED wire
      PROVE  \A c \in Conns : (whole'[c] => whole[c]) /\ late'[c] >= late[c]
  BY <1>c DEF wire, RpcInv, RpcTypeOK
<1>1. CASE UNCHANGED allVars
  BY <1>0, <1>1, <1>a, <1>b, <1>c DEF allVars, rpcVars
<1>2. ASSUME NEW t \in Threads, UNCHANGED wire,
             \/ Arrive(t) \/ SpuriousWake(t) \/ LeaveWait(t) \/ ConnectFails(t)
             \/ Release(t)
      PROVE  AllSpoiled'
  BY <1>0, <1>2, <1>a, <1>c, FullPoolStep
<1>3. ASSUME NEW t \in Threads, OpenSocket(t)
      PROVE  FALSE
  BY <1>3 DEF OpenSocket, Connect, AllSpoiled, At
<1>4. ASSUME NEW t \in Threads,
             Send(t) \/ Receive(t) \/ TimeOut(t) \/ CallFails(t)
      PROVE  AllSpoiled'
  <2>1. UNCHANGED vars /\ whole' = whole
    BY <1>4 DEF Send, Receive, TimeOut, CallFails, wire
  <2>2. \A c \in Conns : late'[c] >= late[c]
    BY <1>4 DEF Send, Receive, TimeOut, CallFails, wire, RpcInv, RpcTypeOK
  <2> QED
    BY <1>0, <1>a, <1>b, <2>1, <2>2
<1>5. ASSUME NEW c \in Conns, Serve(c) \/ Break(c)
      PROVE  AllSpoiled'
  <2>1. /\ UNCHANGED vars /\ late' = late
        /\ \A d \in Conns : whole'[d] => whole[d]
    BY <1>5 DEF Serve, Break, RpcInv, RpcTypeOK
  <2>2. \A d \in Conns : late'[d] >= late[d]
    BY <2>1 DEF RpcInv, RpcTypeOK
  <2> QED
    BY <1>0, <1>a, <1>b, <2>1, <2>2
<1> QED
  BY <1>1, <1>2, <1>3, <1>4, <1>5 DEF RpcNext, rpcVars, EndCall

\* A pool of fixed size never heals once all of it is broken or out of step.
THEOREM PoolStaysSpoiledHolds == RpcSpec => PoolStaysSpoiled
<1>1. PoolInv /\ RpcInv /\ [RpcNext]_allVars
        => [FixedSize /\ AllSpoiled => AllSpoiled']_allVars
  BY SpoiledStep
<1> QED
  BY RpcInvariance, <1>1, PTL DEF RpcSpec, PoolStaysSpoiled

-----------------------------------------------------------------------------
(* What becomes of a late reply, and of the pool's promises *)

\* A read that gave up marks its connection for good: as long as the connection
\* stays open, in whatever hands and whatever is called on it, no step of any
\* thread, server or network lets it catch up.
THEOREM LateForGood ==
  RpcSpec => [][\A c \in OpenConns \cap OpenConns' : late'[c] >= late[c]]_allVars
<1>1. ASSUME PoolInv, RpcInv, RpcNext, NEW c \in OpenConns
      PROVE  late'[c] >= late[c]
  <2>1. c \in Conns /\ late \in [Conns -> Nat]
    BY <1>1, InCall DEF RpcInv, RpcTypeOK
  <2>2. CASE late' = late
    BY <2>1, <2>2
  <2>3. ASSUME NEW t \in Threads, OpenSocket(t) PROVE late'[c] >= late[c]
    <3>1. conn'[t] # c
      BY <1>1, <2>3, ConnectKeeps DEF OpenSocket
    <3>2. late' = [late EXCEPT ![conn'[t]] = 0]
      BY <2>3 DEF OpenSocket
    <3> QED
      BY <2>1, <3>1, <3>2
  <2>4. ASSUME NEW t \in Threads, TimeOut(t) PROVE late'[c] >= late[c]
    BY <2>1, <2>4 DEF TimeOut
  <2> QED
    BY <1>1, <2>2, <2>3, <2>4
    DEF RpcNext, rpcVars, wire, EndCall, Send, Receive, CallFails, Serve, Break
<1>2. PoolInv /\ RpcInv /\ [RpcNext]_allVars
        => [\A c \in OpenConns \cap OpenConns' : late'[c] >= late[c]]_allVars
  BY <1>1
<1> QED
  BY RpcInvariance, <1>2, PTL DEF RpcSpec

\* All that is proved of the pool alone holds of it under its clients' calls,
\* with broken connections, time-outs and failed calls: the calls take the
\* pool's steps and no others, so the lease of one connection to one thread, the
\* books, the bound, the wake-ups and the trimming survive whatever they do.
THEOREM CallsKeepThePool ==
  RpcSpec => /\ [](ExclusiveUse /\ Accounting /\ SizeBound)
             /\ [](NoLostWakeup /\ WaiterHasSupplier)
             /\ TrimSparesWaiters
             /\ ImplementsLease
  BY CallsUseThePool, ExclusiveUseHolds, AccountingHolds, SizeBoundHolds,
     NoLostWakeupHolds, WaiterHasSupplierHolds, TrimSparesWaitersHolds,
     PoolImplementsLease, PTL
=============================================================================
