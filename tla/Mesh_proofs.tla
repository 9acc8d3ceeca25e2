----------------------------- MODULE Mesh_proofs ----------------------------
(***************************************************************************)
(* Theorems about Mesh: whatever calls are under way, on pools of whatever *)
(* sizes, no circle of calls waits for connections. What can stop all      *)
(* calls is a server's limit below the sizes of the pools that connect to  *)
(* it, and nothing else.                                                   *)
(*                                                                         *)
(* The pools are ranked so that a call made on a connection of one pool    *)
(* makes calls on pools of lower rank only (RanksFall). A call that waits  *)
(* for a connection of a pool waits for one whose calls wait, if at all,   *)
(* for a pool of lower rank; five steps down there is none.                *)
(***************************************************************************)
EXTENDS Mesh, FiniteSetTheorems, TLAPS

Rank(caller, callee) ==
  IF caller = "apigateway" THEN 5
  ELSE IF callee \in {"uniquepair", "wordfilter"} THEN 1
  ELSE IF <<caller, callee>> \in {"account"} \X {"follow", "like", "post"}
                              \cup {"post"} \X {"like", "trending"} THEN 2
  ELSE IF callee = "account" THEN 3
  ELSE 4

\* At least the rank of every pool a handler of m calls on.
Reach(m) ==
  IF m \in {"follow_account", "retrieve_standard_follow", "delete_follow",
            "check_follow", "count_followers", "count_followees", "like_post",
            "retrieve_standard_like", "delete_like", "count_likes_by_account",
            "count_likes_of_post", "process_post"} THEN 1
  ELSE IF m \in {"retrieve_standard_account", "retrieve_expanded_account",
                 "list_accounts", "create_post"} THEN 2
  ELSE IF m \in {"retrieve_expanded_follow", "list_follows",
                 "retrieve_expanded_post", "list_posts"} THEN 3
  ELSE IF m \in {"retrieve_expanded_like", "list_likes"} THEN 4
  ELSE 0

RankOf(n) == Rank(Caller(n), ServiceOf(Method[n]))

-----------------------------------------------------------------------------
\* A method that calls nobody has an empty entry in the table.
LEMMA LeafCalls ==
  ASSUME NEW m \in Methods, Reach(m) = 0
  PROVE  Calls[m] = <<>>
BY DEF Methods, Calls, Reach, Leaf

\* A method calls on pools within its reach, whose rank exceeds the reach of
\* what it calls there.
Falls(m, c) ==
  /\ Rank(ServiceOf(m), ServiceOf(c)) <= Reach(m)
  /\ Reach(c) < Rank(ServiceOf(m), ServiceOf(c))

\* The ranks fall along every call a handler makes.
LEMMA CallsFall ==
  ASSUME NEW m \in Methods, NEW k \in DOMAIN Calls[m], NEW c \in Calls[m][k]
  PROVE  Falls(m, c)
<1> USE DEF ServiceOf, AccountMethods, FollowMethods, LikeMethods, PostMethods,
            UniquepairMethods, TrendingMethods
<1>1. CASE Reach(m) = 0
  BY <1>1, LeafCalls
<1>2. CASE Reach(m) = 1
  <2>1. CASE m \in FollowMethods
    BY <1>2, <2>1 DEF Reach, Rank, Falls, Calls, follow_account, check_follow,
       retrieve_standard_follow, delete_follow, count_followers, count_followees
  <2>2. CASE m \in LikeMethods
    BY <1>2, <2>2 DEF Reach, Rank, Falls, Calls, like_post, delete_like,
       retrieve_standard_like, count_likes_by_account, count_likes_of_post
  <2>3. CASE m = "process_post"
    BY <2>3 DEF Reach, Rank, Falls, Calls, process_post, MaxHashtags
  <2> QED
    BY <1>2, <2>1, <2>2, <2>3 DEF Reach
<1>3. CASE Reach(m) = 2
  BY <1>3 DEF Reach, Rank, Falls, Calls, retrieve_standard_account,
     retrieve_expanded_account, list_accounts, create_post
<1>4. CASE Reach(m) = 3
  BY <1>4 DEF Reach, Rank, Falls, Calls, retrieve_standard_follow,
     retrieve_expanded_follow, list_follows, retrieve_expanded_post, list_posts
<1>5. CASE Reach(m) = 4
  BY <1>5 DEF Reach, Rank, Falls, Calls, retrieve_standard_like,
     retrieve_expanded_like, list_likes
<1> QED
  BY <1>1, <1>2, <1>3, <1>4, <1>5 DEF Reach

-----------------------------------------------------------------------------
(* The types *)

\* What a step does to one call's lease leaves the others' alone.
LEMMA LeaseType ==
  ASSUME TypeOK, NEW n \in Nodes, Lease(n)
  PROVE  TypeOK'
<1> USE CallsAssumption, PoolsAssumption
<1>1. PICK c \in Free(Pool(n)) :
        /\ lease' = [lease EXCEPT ![n] = c]
        /\ wire' = [wire EXCEPT ![c] = IF @ = "closed" THEN "pending" ELSE @]
  BY DEF Lease
<1>2. /\ c \in Conns /\ c \in Slots(Pool(n)) /\ c # NoConn
      /\ \A m \in Nodes : lease[m] # c
  BY <1>1 DEF Free, Slots
<1>3. lease' \in [Nodes -> Conns \cup {NoConn}] /\ lease'[n] = c
  BY <1>1, <1>2 DEF TypeOK
<1>4. \A m \in Nodes \ {n} : lease'[m] = lease[m]
  BY <1>1, <1>2 DEF TypeOK
<1>5. wire' \in [Conns -> {"closed", "pending", "accepted"}] /\ wire'[c] # "closed"
  BY <1>1, <1>2 DEF TypeOK
<1>6. \A d \in Conns \ {c} : wire'[d] = wire[d]
  BY <1>1, <1>2 DEF TypeOK
<1>7. done' = done /\ failed' = failed /\ n \notin done /\ ~Made(n) /\ limit' = limit
  BY DEF Lease, Ready
<1>8. \A m \in Nodes : Running(m) => m # n /\ Running(m)'
  BY <1>2, <1>4, <1>6, <1>7 DEF Running, Made, TypeOK
<1>9. n \notin Roots => Parent[n] \in Nodes /\ Running(Parent[n])
  BY DEF Lease, Ready
<1>10. ASSUME NEW m \in Nodes, Made(m)'
       PROVE  /\ m \notin done'
              /\ lease'[m] \in Slots(Pool(m)) /\ wire'[lease'[m]] # "closed"
              /\ \A l \in Nodes : lease'[l] = lease'[m] => l = m
              /\ m \notin Roots => Running(Parent[m])'
  <2>1. CASE m = n
    BY <2>1, <1>2, <1>3, <1>4, <1>5, <1>7, <1>8, <1>9
  <2>2. CASE m # n
    <3>1. Made(m) /\ lease'[m] = lease[m] /\ lease[m] # c
      BY <2>2, <1>2, <1>4, <1>10 DEF Made
    <3>2. lease[m] \in Conns /\ m \notin done
      BY <3>1 DEF TypeOK, Slots
    <3>3. m \notin Roots => Running(Parent[m])'
      BY <3>1, <1>8 DEF TypeOK
    <3> QED
      BY <2>2, <3>1, <3>2, <3>3, <1>3, <1>4, <1>6, <1>7 DEF TypeOK
  <2> QED
    BY <2>1, <2>2
<1>11. ASSUME NEW d \in Conns, wire'[d] = "pending"
       PROVE  \E m \in Nodes : lease'[m] = d
  <2>1. CASE d = c
    BY <2>1, <1>3
  <2>2. CASE d # c
    <3>1. PICK m \in Nodes : lease[m] = d
      BY <2>2, <1>6, <1>11 DEF TypeOK
    <3> QED
      BY <3>1, <2>2, <1>4, <1>7 DEF Made, TypeOK
  <2> QED
    BY <2>1, <2>2
<1> QED
  BY <1>3, <1>5, <1>7, <1>10, <1>11 DEF TypeOK, Slots, Pool, Caller, Made, Running

\* Being accepted, a connection only becomes usable.
LEMMA AcceptType ==
  ASSUME TypeOK, NEW c \in Conns, Accept(c)
  PROVE  TypeOK'
<1> USE CallsAssumption, PoolsAssumption
<1>1. /\ wire' \in [Conns -> {"closed", "pending", "accepted"}]
      /\ wire'[c] = "accepted"
      /\ \A d \in Conns \ {c} : wire'[d] = wire[d]
  BY DEF Accept, TypeOK
<1>2. lease' = lease /\ done' = done /\ failed' = failed /\ limit' = limit
  BY DEF Accept
<1>3. \A n \in Nodes : Made(n)' <=> Made(n)
  BY <1>2 DEF Made
<1>4. \A n \in Nodes : Running(n) => Running(n)'
  BY <1>1, <1>2, <1>3 DEF Running, TypeOK, Slots
<1>5. \A d \in Conns : wire'[d] = "closed" => wire[d] = "closed"
  BY <1>1
<1>6. \A d \in Conns : wire'[d] = "pending" => wire[d] = "pending"
  BY <1>1
<1> QED
  BY <1>1, <1>2, <1>3, <1>4, <1>5, <1>6
     DEF TypeOK, Slots, Pool, Caller

\* A call returns after all calls made for it have.
LEMMA ReturnType ==
  ASSUME TypeOK, NEW n \in Nodes, Return(n)
  PROVE  TypeOK'
<1> USE CallsAssumption, PoolsAssumption
<1>1. /\ lease' \in [Nodes -> Conns \cup {NoConn}] /\ lease'[n] = NoConn
      /\ \A m \in Nodes \ {n} : lease'[m] = lease[m]
  BY DEF Return, TypeOK
<1>2. /\ wire' = wire /\ limit' = limit
      /\ done' = done \cup {n} /\ failed' \subseteq failed \cup {n}
  BY DEF Return, Answer
<1>3. \A m \in Nodes : Made(m)' => m # n /\ Made(m)
  BY <1>1 DEF Made
<1>4. ASSUME NEW m \in Nodes, Made(m)', m \notin Roots
      PROVE  Running(Parent[m])'
  <2>1. Running(Parent[m]) /\ Parent[m] \in Nodes
    BY <1>3, <1>4 DEF TypeOK
  <2>2. Parent[m] # n
    BY <1>3, <1>4 DEF Return, Ended, Children
  <2> QED
    BY <2>1, <2>2, <1>1, <1>2 DEF Running, Made
<1>5. ASSUME NEW d \in Conns, wire[d] = "pending"
      PROVE  \E m \in Nodes : lease'[m] = d
  <2>1. PICK m \in Nodes : lease[m] = d
    BY <1>5 DEF TypeOK
  <2>2. m # n
    BY <2>1, <1>5 DEF Return, Running
  <2> QED
    BY <2>1, <2>2, <1>1
<1>6. failed' \subseteq done' /\ done' \subseteq Nodes
  BY <1>2 DEF TypeOK
<1>7. ASSUME NEW m \in Nodes, Made(m)'
      PROVE  /\ m \notin done'
             /\ lease'[m] \in Slots(Pool(m)) /\ wire'[lease'[m]] # "closed"
             /\ \A l \in Nodes : lease'[l] = lease'[m] => l = m
  BY <1>7, <1>1, <1>2, <1>3 DEF TypeOK, Made
<1> QED
  BY <1>1, <1>2, <1>4, <1>5, <1>6, <1>7 DEF TypeOK, Slots, Pool, Caller

\* A call that throws before it makes its calls has none under way.
LEMMA ThrowType ==
  ASSUME TypeOK, NEW n \in Nodes, Throw(n)
  PROVE  TypeOK'
<1> USE CallsAssumption, PoolsAssumption
<1>1. /\ lease' \in [Nodes -> Conns \cup {NoConn}] /\ lease'[n] = NoConn
      /\ \A m \in Nodes \ {n} : lease'[m] = lease[m]
  BY DEF Throw, TypeOK
<1>2. wire' = wire /\ done' = done \cup {n} /\ failed' = failed \cup {n} /\ limit' = limit
  BY DEF Throw
<1>3. \A m \in Nodes : Made(m)' => m # n /\ Made(m)
  BY <1>1 DEF Made
<1>4. ASSUME NEW m \in Nodes, Made(m)', m \notin Roots
      PROVE  Running(Parent[m])'
  <2>1. Running(Parent[m]) /\ Parent[m] \in Nodes
    BY <1>3, <1>4 DEF TypeOK
  <2>2. Parent[m] # n
    BY <1>3, <1>4 DEF Throw, Children
  <2> QED
    BY <2>1, <2>2, <1>1, <1>2 DEF Running, Made
<1>5. ASSUME NEW d \in Conns, wire[d] = "pending"
      PROVE  \E m \in Nodes : lease'[m] = d
  <2>1. PICK m \in Nodes : lease[m] = d
    BY <1>5 DEF TypeOK
  <2>2. m # n
    BY <2>1, <1>5 DEF Throw, Running
  <2> QED
    BY <2>1, <2>2, <1>1
<1>6. failed' \subseteq done' /\ done' \subseteq Nodes
  BY <1>2 DEF TypeOK
<1>7. ASSUME NEW m \in Nodes, Made(m)'
      PROVE  /\ m \notin done'
             /\ lease'[m] \in Slots(Pool(m)) /\ wire'[lease'[m]] # "closed"
             /\ \A l \in Nodes : lease'[l] = lease'[m] => l = m
  BY <1>7, <1>1, <1>2, <1>3 DEF TypeOK, Made
<1> QED
  BY <1>1, <1>2, <1>4, <1>5, <1>6, <1>7 DEF TypeOK, Slots, Pool, Caller

\* Type correctness, exclusive connections, and that a call is under way only
\* while the one it is made for is: for any calls, pools and limits.
THEOREM TypeCorrect == Spec => []TypeOK
<1>1. Init => TypeOK
  BY PoolsAssumption DEF Init, TypeOK, Made
<1>2. ASSUME TypeOK, [Next]_vars
      PROVE  TypeOK'
  <2>1. CASE Next
    BY <2>1, <1>2, LeaseType, ReturnType, ThrowType, AcceptType DEF Next, Step
  <2>2. CASE UNCHANGED vars
    BY <2>2, <1>2 DEF TypeOK, vars, Made, Running, Slots, Pool, Caller
  <2> QED
    BY <2>1, <2>2, <1>2
<1> QED
  BY <1>1, <1>2, PTL DEF Spec

-----------------------------------------------------------------------------
(* No circle of waiting calls *)

\* Where the limits leave room, a pending connection is one of those its server
\* has room for.
LEMMA RoomForPending ==
  ASSUME TypeOK, Roomy, NEW c \in Conns, wire[c] = "pending"
  PROVE  CanAccept(Server(c))
<1> DEFINE s == Server(c)
           A == {d \in To(s) : wire[d] = "accepted"}
<1>1. s \in Services /\ c \in To(s) /\ IsFiniteSet(To(s))
  BY PoolsAssumption, FS_Subset DEF Server, To
<1>2. A \subseteq To(s) \ {c} /\ IsFiniteSet(To(s) \ {c})
  BY <1>1, FS_Subset
<1>3. IsFiniteSet(A) /\ Cardinality(A) <= Cardinality(To(s) \ {c})
  BY <1>2, FS_Subset
<1>4. Cardinality(To(s) \ {c}) = Cardinality(To(s)) - 1
  BY <1>1, FS_RemoveElement
<1>5. Cardinality(A) \in Nat /\ Cardinality(To(s)) \in Nat
  BY <1>1, <1>3, FS_CardinalityType
<1>6. limit[s] \in Nat /\ Cardinality(To(s)) <= limit[s]
  BY <1>1, LimitsAssumption DEF Roomy, TypeOK
<1> QED
  BY <1>3, <1>4, <1>5, <1>6 DEF CanAccept

\* A call is made on a pool of lower rank than the call it is made for.
LEMMA RanksFall ==
  ASSUME NEW n \in Nodes, NEW m \in Children(n)
  PROVE  RankOf(m) < RankOf(n)
<1> USE CallsAssumption
<1>1. /\ m \in Nodes \ Roots /\ Parent[m] = n
      /\ Method[m] \in Calls[Method[n]][Phase[m]] /\ Method[n] \in Methods
      /\ Phase[m] \in DOMAIN Calls[Method[n]]
  BY DEF Children
<1>2. Falls(Method[n], Method[m])
  BY <1>1, CallsFall
<1>3. RankOf(m) <= Reach(Method[n])
  BY <1>1, <1>2 DEF Falls, RankOf, Caller
<1>4. RankOf(m) \in Nat /\ RankOf(n) \in Nat /\ Reach(Method[n]) \in 0..4
  BY DEF RankOf, Rank, Reach
<1>5. CASE n \in Roots
  BY <1>3, <1>4, <1>5 DEF RankOf, Rank, Caller
<1>6. CASE n \notin Roots
  <2>1. /\ Method[Parent[n]] \in Methods /\ Phase[n] \in DOMAIN Calls[Method[Parent[n]]]
        /\ Method[n] \in Calls[Method[Parent[n]]][Phase[n]]
    BY <1>6
  <2>2. Falls(Method[Parent[n]], Method[n])
    BY <2>1, CallsFall
  <2>3. Reach(Method[n]) < RankOf(n)
    BY <2>2, <1>6 DEF Falls, RankOf, Caller
  <2> QED
    BY <2>3, <1>3, <1>4
<1> QED
  BY <1>5, <1>6

Active(n) == Made(n) \/ Ready(n)

\* A step can be taken, or a limit is too small and stops a call.
GoesOn == Progress \/ (~Roomy /\ Refused)

\* Some call can go on if any is active on a pool of rank k or less.
ProgressTo(k) == \A n \in Nodes : Active(n) /\ RankOf(n) <= k => GoesOn

\* A call that is under way can go on, or one made for it can.
LEMMA MadeGoesOn ==
  ASSUME TypeOK, NEW k \in Nat, ProgressTo(k),
         NEW n \in Nodes, Made(n), RankOf(n) <= k + 1
  PROVE  GoesOn
<1>1. lease[n] \in Conns /\ wire[lease[n]] \in {"pending", "accepted"} /\ n \notin done
  BY DEF TypeOK, Slots
<1>2. CASE wire[lease[n]] = "pending"
  <2>1. CASE CanAccept(Server(lease[n]))
    BY <1>1, <1>2, <2>1 DEF Progress, GoesOn
  <2>2. CASE ~CanAccept(Server(lease[n]))
    BY <1>1, <1>2, <2>2, RoomForPending DEF Refused, GoesOn
  <2> QED
    BY <2>1, <2>2
<1>3. CASE wire[lease[n]] = "accepted" /\ Ended(n)
  BY <1>1, <1>3 DEF Progress, CanReturn, Running, GoesOn
<1>4. CASE ~Ended(n)
  <2>1. PICK m \in Children(n) : Active(m)
    BY <1>4 DEF Ended, Active
  <2>2. m \in Nodes /\ RankOf(m) < RankOf(n)
    BY RanksFall DEF Children
  <2>3. RankOf(m) \in Nat /\ RankOf(n) \in Nat
    BY DEF RankOf, Rank
  <2>4. RankOf(m) <= k
    BY <2>2, <2>3
  <2> QED
    BY <2>1, <2>2, <2>4 DEF ProgressTo
<1> QED
  BY <1>1, <1>2, <1>3, <1>4

\* A call that waits for a pool waits for calls that hold its connections.
LEMMA OneRankUp ==
  ASSUME TypeOK, NEW k \in Nat, ProgressTo(k)
  PROVE  ProgressTo(k + 1)
<1> SUFFICES ASSUME NEW n \in Nodes, Active(n), RankOf(n) <= k + 1
             PROVE  GoesOn
  BY DEF ProgressTo
<1>1. CASE Made(n)
  BY <1>1, MadeGoesOn
<1>2. CASE Ready(n) /\ Free(Pool(n)) # {}
  BY <1>2 DEF Progress, CanLease, GoesOn
<1>3. CASE Free(Pool(n)) = {}
  <2>1. PICK c \in Slots(Pool(n)) : TRUE
    BY PoolsAssumption
  <2>2. PICK m \in Nodes : lease[m] = c
    BY <2>1, <1>3 DEF Free
  <2>3. Made(m) /\ Pool(m) = Pool(n)
    BY <2>1, <2>2, PoolsAssumption DEF Made, Slots, TypeOK
  <2>4. RankOf(m) = RankOf(n)
    BY <2>3 DEF RankOf, Pool
  <2> QED
    BY <2>3, <2>4, MadeGoesOn
<1> QED
  BY <1>1, <1>2, <1>3 DEF Active

\* Whatever connections calls hold while they wait for others, some call can go
\* on, unless a limit is too small and stops one: for any calls the handlers
\* make, pools of any size, and any limits.
THEOREM SomeCallGoesOnHolds == Spec => []SomeCallGoesOn
<1>1. TypeOK => SomeCallGoesOn
  <2> SUFFICES ASSUME TypeOK, NEW n \in Nodes, Active(n)
               PROVE  GoesOn
    BY DEF SomeCallGoesOn, GoesOn, Active
  <2>1. \A l \in Nodes : RankOf(l) \in 1..5
    BY DEF RankOf, Rank
  <2>2. ProgressTo(0)
    BY <2>1 DEF ProgressTo
  <2>3. ProgressTo(1)
    BY <2>2, OneRankUp
  <2>4. ProgressTo(2)
    BY <2>3, OneRankUp
  <2>5. ProgressTo(3)
    BY <2>4, OneRankUp
  <2>6. ProgressTo(4)
    BY <2>5, OneRankUp
  <2>7. ProgressTo(5)
    BY <2>6, OneRankUp
  <2> QED
    BY <2>1, <2>7 DEF ProgressTo
<1> QED
  BY TypeCorrect, <1>1, PTL

-----------------------------------------------------------------------------
(* What the liveness rests on: steps run out, and until the end there is one *)

\* Where the limits leave room for the pools, and as long as a call of the gateway
\* is to be answered, some step can be taken: a call can get a connection or
\* return, or a server can accept.
THEOREM NeverStuck ==
  Spec => [](Roomy /\ (\E r \in Roots : r \notin done) => Progress)
<1>1. SomeCallGoesOn => (Roomy /\ (\E r \in Roots : r \notin done) => Progress)
  <2> SUFFICES ASSUME SomeCallGoesOn, Roomy, NEW r \in Roots, r \notin done
               PROVE  Progress
    OBVIOUS
  <2>1. Made(r) \/ Ready(r)
    BY DEF Ready
  <2> QED
    BY <2>1, CallsAssumption DEF SomeCallGoesOn
<1> QED
  BY SomeCallGoesOnHolds, <1>1, PTL

\* The steps a call has left, and those a connection has.
Waiting     == {n \in Nodes : n \notin done /\ ~Made(n)}
UnderWay    == {n \in Nodes : Made(n)}
Closed      == {c \in Conns : wire[c] = "closed"}
Pending     == {c \in Conns : wire[c] = "pending"}

StepsLeft ==
  2 * Cardinality(Waiting) + Cardinality(UnderWay)
    + 2 * Cardinality(Closed) + Cardinality(Pending)

\* They are finitely many.
LEMMA StepsFinite ==
  ASSUME IsFiniteSet(Nodes)
  PROVE  /\ IsFiniteSet(Waiting) /\ Cardinality(Waiting) \in Nat
         /\ IsFiniteSet(UnderWay) /\ Cardinality(UnderWay) \in Nat
         /\ IsFiniteSet(Closed) /\ Cardinality(Closed) \in Nat
         /\ IsFiniteSet(Pending) /\ Cardinality(Pending) \in Nat
<1>1. /\ Waiting \in SUBSET Nodes /\ UnderWay \in SUBSET Nodes
      /\ Closed \in SUBSET Conns /\ Pending \in SUBSET Conns
  BY DEF Waiting, UnderWay, Closed, Pending
<1>2. IsFiniteSet(Waiting) /\ IsFiniteSet(UnderWay)
  BY <1>1, FS_Subset
<1>3. IsFiniteSet(Closed) /\ IsFiniteSet(Pending)
  BY <1>1, PoolsAssumption, FS_Subset
<1> QED
  BY <1>2, <1>3, FS_CardinalityType

\* A call that is given a connection has one step less to go, and the connection
\* no more than before.
LEMMA LeaseSteps ==
  ASSUME TypeOK, IsFiniteSet(Nodes), NEW n \in Nodes, Lease(n)
  PROVE  StepsLeft' < StepsLeft
<1>1. PICK c \in Free(Pool(n)) :
        /\ lease' = [lease EXCEPT ![n] = c]
        /\ wire' = [wire EXCEPT ![c] = IF @ = "closed" THEN "pending" ELSE @]
  BY DEF Lease
<1>2. /\ done' = done /\ n \notin done /\ ~Made(n)
      /\ lease \in [Nodes -> Conns \cup {NoConn}]
      /\ wire \in [Conns -> {"closed", "pending", "accepted"}]
      /\ c \in Conns /\ c # NoConn
  BY PoolsAssumption DEF Lease, Ready, TypeOK, Free, Slots
<1>3. /\ Waiting' = Waiting \ {n} /\ n \in Waiting
      /\ UnderWay' = UnderWay \cup {n} /\ n \notin UnderWay
  BY <1>1, <1>2 DEF Waiting, UnderWay, Made
<1>4. /\ Cardinality(Waiting \ {n}) = Cardinality(Waiting) - 1
      /\ Cardinality(UnderWay \cup {n}) = Cardinality(UnderWay) + 1
  BY <1>3, StepsFinite, FS_RemoveElement, FS_AddElement
<1>5. \/ Closed' = Closed /\ Pending' = Pending
      \/ /\ Closed' = Closed \ {c} /\ c \in Closed
         /\ Pending' = Pending \cup {c} /\ c \notin Pending
  BY <1>1, <1>2 DEF Closed, Pending
<1>6. /\ c \in Closed => Cardinality(Closed \ {c}) = Cardinality(Closed) - 1
      /\ c \notin Pending =>
           Cardinality(Pending \cup {c}) = Cardinality(Pending) + 1
  BY StepsFinite, FS_RemoveElement, FS_AddElement
<1>7. /\ Cardinality(Waiting') = Cardinality(Waiting) - 1
      /\ Cardinality(UnderWay') = Cardinality(UnderWay) + 1
      /\ \/ /\ Cardinality(Closed') = Cardinality(Closed)
            /\ Cardinality(Pending') = Cardinality(Pending)
         \/ /\ Cardinality(Closed') = Cardinality(Closed) - 1
            /\ Cardinality(Pending') = Cardinality(Pending) + 1
  BY <1>3, <1>4, <1>5, <1>6
<1> QED
  BY <1>7, StepsFinite DEF StepsLeft

\* A call that returns or throws has none left.
LEMMA ReturnSteps ==
  ASSUME TypeOK, IsFiniteSet(Nodes), NEW n \in Nodes, Return(n) \/ Throw(n)
  PROVE  StepsLeft' < StepsLeft
<1>1. /\ lease' = [lease EXCEPT ![n] = NoConn] /\ done' = done \cup {n}
      /\ wire' = wire /\ Made(n)
      /\ lease \in [Nodes -> Conns \cup {NoConn}]
  BY DEF Return, Throw, Answer, Running, TypeOK
<1>2. /\ Waiting' = Waiting /\ UnderWay' = UnderWay \ {n} /\ n \in UnderWay
      /\ Closed' = Closed /\ Pending' = Pending
  BY <1>1 DEF Waiting, UnderWay, Made, Closed, Pending
<1>3. Cardinality(UnderWay \ {n}) = Cardinality(UnderWay) - 1
  BY <1>2, StepsFinite, FS_RemoveElement
<1>4. /\ Cardinality(Waiting') = Cardinality(Waiting)
      /\ Cardinality(UnderWay') = Cardinality(UnderWay) - 1
      /\ Cardinality(Closed') = Cardinality(Closed)
      /\ Cardinality(Pending') = Cardinality(Pending)
  BY <1>2, <1>3
<1> QED
  BY <1>4, StepsFinite DEF StepsLeft

\* A connection is accepted once.
LEMMA AcceptSteps ==
  ASSUME TypeOK, IsFiniteSet(Nodes), NEW c \in Conns, Accept(c)
  PROVE  StepsLeft' < StepsLeft
<1>1. /\ wire' = [wire EXCEPT ![c] = "accepted"] /\ wire[c] = "pending"
      /\ UNCHANGED <<lease, done>>
      /\ wire \in [Conns -> {"closed", "pending", "accepted"}]
  BY DEF Accept, TypeOK
<1>2. /\ Waiting' = Waiting /\ UnderWay' = UnderWay
      /\ Closed' = Closed /\ Pending' = Pending \ {c} /\ c \in Pending
  BY <1>1 DEF Waiting, UnderWay, Made, Closed, Pending
<1>3. Cardinality(Pending \ {c}) = Cardinality(Pending) - 1
  BY <1>2, StepsFinite, FS_RemoveElement
<1>4. /\ Cardinality(Waiting') = Cardinality(Waiting)
      /\ Cardinality(UnderWay') = Cardinality(UnderWay)
      /\ Cardinality(Closed') = Cardinality(Closed)
      /\ Cardinality(Pending') = Cardinality(Pending) - 1
  BY <1>2, <1>3
<1> QED
  BY <1>4, StepsFinite DEF StepsLeft

\* Finitely many calls take finitely many steps: each one brings the end nearer.
THEOREM StepsRunOut ==
  ASSUME IsFiniteSet(Nodes)
  PROVE  Spec => [](StepsLeft \in Nat) /\ [][StepsLeft' < StepsLeft]_vars
<1>1. StepsLeft \in Nat
  BY StepsFinite DEF StepsLeft
<1>2. TypeOK /\ [Next]_vars => [StepsLeft' < StepsLeft]_vars
  BY LeaseSteps, ReturnSteps, AcceptSteps DEF Next, Step
<1> QED
  BY TypeCorrect, <1>1, <1>2, PTL DEF Spec

-----------------------------------------------------------------------------
(* The pools of the mesh are pools *)

\* A pool that has a connection to give has given fewer than it has.
LEMMA WithinThePool ==
  ASSUME TypeOK, NEW p, NEW c \in Free(p)
  PROVE  Cardinality({n \in Users(p) : Made(n)}) < Cardinality(Slots(p))
<1> DEFINE L == {n \in Users(p) : Made(n)}
           S == Slots(p) \ {c}
           f == [n \in L |-> lease[n]]
<1>1. c \in Slots(p) /\ \A n \in Nodes : lease[n] # c
  BY DEF Free
<1>2. Slots(p) \in SUBSET Conns /\ IsFiniteSet(Conns)
  BY PoolsAssumption DEF Slots
<1>3. IsFiniteSet(Slots(p))
  BY <1>2, FS_Subset
<1>4. f \in Injection(L, S)
  <2>1. f \in [L -> S]
    BY <1>1 DEF TypeOK, Users
  <2>2. \A m, n \in L : f[m] = f[n] => m = n
    BY DEF TypeOK, Users
  <2> QED
    BY <2>1, <2>2 DEF Injection, IsInjective
<1>5. IsFiniteSet(S) /\ Cardinality(S) = Cardinality(Slots(p)) - 1
  BY <1>1, <1>3, FS_RemoveElement
<1>6. Cardinality(Slots(p)) \in Nat
  BY <1>3, FS_CardinalityType
<1> HIDE DEF f, L, S
<1>7. IsFiniteSet(L) /\ Cardinality(L) <= Cardinality(S)
  BY <1>4, <1>5, FS_Injection
<1>8. Cardinality(L) \in Nat
  BY <1>7, FS_CardinalityType
<1>9. Cardinality(L) < Cardinality(Slots(p))
  BY <1>5, <1>6, <1>7, <1>8
<1> QED
  BY <1>9 DEF L

\* A step of the mesh is, for each pool, a lease granted or returned, or none.
LEMMA StepOfAPool ==
  ASSUME TypeOK, [Next]_vars, NEW CONSTANT p
  PROVE  [PoolLease(p)!Next]_(PoolLease(p)!vars)
<1>1. Users(p)' = Users(p) /\ Slots(p)' = Slots(p)
  BY DEF Users, Slots, Pool, Caller
<1>2. Cardinality(Slots(p))' = Cardinality(Slots(p))
  BY <1>1
<1>3. PoolLease(p)!Cardinality(PoolLease(p)!Lessees)
        = Cardinality({n \in Users(p) : Made(n)})
  <2>1. PoolLease(p)!Lessees = {n \in Users(p) : Made(n)}
    BY DEF PoolLease!Lessees, Made
  <2> QED
    BY <2>1 DEF PoolLease!Cardinality, Cardinality
<1>4. ASSUME \A n \in Users(p) : lease'[n] = lease[n]
      PROVE  UNCHANGED PoolLease(p)!vars
  <2>1. [n \in Users(p) |-> lease[n]]' = [n \in Users(p) |-> lease[n]]
    BY <1>1, <1>4
  <2> QED
    BY <1>2, <2>1 DEF PoolLease!vars
<1>5. ASSUME NEW n \in Users(p), NEW x, lease' = [lease EXCEPT ![n] = x]
      PROVE  [m \in Users(p) |-> lease[m]]'
               = [[m \in Users(p) |-> lease[m]] EXCEPT ![n] = x]
  BY <1>1, <1>5 DEF TypeOK, Users
<1>6. CASE \E n \in Nodes : Lease(n)
  <2>1. PICK n \in Nodes : Lease(n)
    BY <1>6
  <2>2. PICK c \in Free(Pool(n)) : lease' = [lease EXCEPT ![n] = c]
    BY <2>1 DEF Lease
  <2>3. CASE n \notin Users(p)
    BY <2>2, <2>3, <1>4 DEF Users, TypeOK
  <2>4. CASE n \in Users(p)
    <3>1. Pool(n) = p /\ lease[n] = NoConn /\ c \in Slots(p)
          /\ \A u \in Users(p) : lease[u] # c
      BY <2>1, <2>2, <2>4 DEF Users, Lease, Ready, Made, Free
    <3>2. Cardinality({m \in Users(p) : Made(m)}) < Cardinality(Slots(p))
      BY <2>2, <3>1, WithinThePool
    <3>3. PoolLease(p)!Grant(n, c)
      BY <2>2, <2>4, <3>1, <3>2, <1>2, <1>3, <1>5 DEF PoolLease!Grant
    <3> QED
      BY <2>4, <3>1, <3>3 DEF PoolLease!Next
  <2> QED
    BY <2>3, <2>4
<1>7. CASE \E n \in Nodes : Return(n) \/ Throw(n)
  <2>1. PICK n \in Nodes : Return(n) \/ Throw(n)
    BY <1>7
  <2>2. lease' = [lease EXCEPT ![n] = NoConn] /\ lease[n] # NoConn
    BY <2>1 DEF Return, Throw, Running, Made
  <2>3. CASE n \notin Users(p)
    BY <2>2, <2>3, <1>4 DEF Users, TypeOK
  <2>4. CASE n \in Users(p)
    <3>1. PoolLease(p)!Return(n)
      BY <2>2, <2>4, <1>2, <1>5 DEF PoolLease!Return
    <3> QED
      BY <2>4, <3>1 DEF PoolLease!Next
  <2> QED
    BY <2>3, <2>4
<1>8. CASE UNCHANGED lease
  BY <1>4, <1>8
<1> QED
  BY <1>6, <1>7, <1>8 DEF Next, Step, vars, Accept

\* Each pool of the mesh implements the leases a connection pool promises (which
\* ConnectionPool implements, queue and all): what the calls are given
\* here is no more than what a pool of that size gives.
THEOREM PoolsLeaseConnections ==
  ASSUME NEW CONSTANT p
  PROVE  Spec => PoolLease(p)!Spec
<1>1. Init => PoolLease(p)!Init
  <2>1. Slots(p) \in SUBSET Conns
    BY DEF Slots
  <2>2. IsFiniteSet(Slots(p))
    BY <2>1, PoolsAssumption, FS_Subset
  <2>3. Cardinality(Slots(p)) \in Nat
    BY <2>2, FS_CardinalityType
  <2> QED
    BY <2>3 DEF Init, PoolLease!Init, Users
<1>2. TypeOK /\ [Next]_vars => [PoolLease(p)!Next]_(PoolLease(p)!vars)
  BY StepOfAPool
<1> QED
  BY <1>1, <1>2, TypeCorrect, PTL DEF Spec, PoolLease!Spec
=============================================================================
