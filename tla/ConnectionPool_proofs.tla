----------------------- MODULE ConnectionPool_proofs ------------------------
(***************************************************************************)
(* Proofs about ConnectionPool, for any finite set of threads, any sizes   *)
(* and any number of failed connects.                                      *)
(*                                                                         *)
(* The argument has two halves.  Counting: how many threads are in each    *)
(* place, and the lengths and counters, obey an arithmetic invariant       *)
(* (Numbers) that every action preserves by arithmetic alone once its      *)
(* effect on the counts is known.  Identity: which connection is where     *)
(* (ExclusiveUse) is preserved by the moves between queue and thread.      *)
(***************************************************************************)
EXTENDS ConnectionPool, FiniteSetTheorems, SequenceTheorems, TLAPS

\* The threads a program-counter function f places at s, and their number.
Where(f, s) == {t \in Threads : f[t] = s}
Count(f, s) == Cardinality(Where(f, s))

-----------------------------------------------------------------------------
(* Counting lemmas *)

\* A count is a natural number, zero exactly when no thread is there.
LEMMA CountNat ==
  ASSUME NEW f, NEW s
  PROVE  /\ IsFiniteSet(Where(f, s))
         /\ Count(f, s) \in Nat
         /\ Count(f, s) = 0 <=> Where(f, s) = {}
<1>1. IsFiniteSet(Where(f, s))
  BY IdentityAssumption, FS_Subset DEF Where
<1> QED
  BY <1>1, FS_CardinalityType, FS_EmptySet DEF Count

\* From f to g, thread t and no other goes from place o to place d.
Moves(f, g, t, o, d) ==
  /\ f \in [Threads -> States] /\ g \in [Threads -> States]
  /\ t \in Threads /\ o # d
  /\ f[t] = o /\ g[t] = d
  /\ \A u \in Threads : u # t => g[u] = f[u]

\* A thread that moves from one place to another changes two counts by one
\* and no other.
LEMMA CountMove ==
  ASSUME NEW f, NEW g, NEW t, NEW o, NEW d, Moves(f, g, t, o, d)
  PROVE  /\ Count(g, d) = Count(f, d) + 1
         /\ Count(g, o) = Count(f, o) - 1
         /\ \A s : s # d /\ s # o => Count(g, s) = Count(f, s)
<1> USE DEF Moves
<1>1. Where(g, d) = Where(f, d) \cup {t} /\ t \notin Where(f, d)
  BY DEF Where
<1>2. Where(g, o) = Where(f, o) \ {t} /\ t \in Where(f, o)
  BY DEF Where
<1>3. \A s : s # d /\ s # o => Where(g, s) = Where(f, s)
  BY DEF Where
<1>4. Count(g, d) = Count(f, d) + 1
  BY <1>1, CountNat, FS_AddElement DEF Count
<1>5. Count(g, o) = Count(f, o) - 1
  <2>1. IsFiniteSet(Where(f, o))
    BY CountNat
  <2>2. Cardinality(Where(f, o) \ {t}) = Cardinality(Where(f, o)) - 1
    BY <1>2, <2>1, FS_RemoveElement
  <2> QED
    BY <1>2, <2>2 DEF Count
<1>6. \A s : s # d /\ s # o => Count(g, s) = Count(f, s)
  BY <1>3 DEF Count
<1> QED
  BY <1>4, <1>5, <1>6

\* The threads that wait are those asleep and those woken.
LEMMA CountWaiting ==
  ASSUME NEW f
  PROVE  Cardinality(Where(f, "sleeping") \cup Where(f, "woken"))
           = Count(f, "sleeping") + Count(f, "woken")
<1>1. Where(f, "sleeping") \cap Where(f, "woken") = {}
  BY DEF Where
<1>2. Cardinality(Where(f, "sleeping") \cap Where(f, "woken")) = 0
  BY <1>1, FS_EmptySet
<1> QED
  BY <1>2, CountNat, FS_Union DEF Count

-----------------------------------------------------------------------------
(* Type correctness *)

TypeInv == TypeOK /\ HoldsWhileUsing

\* The sizes are natural numbers, the minimum no more than the maximum.
LEMMA SizeTypes ==
  ASSUME TypeOK
  PROVE  /\ MinSize \in Nat /\ MaxSize \in Nat /\ MinSize <= MaxSize
         /\ AllowEphemeral \in BOOLEAN
BY SizesAssumption DEF TypeOK, MinSize, MaxSize, AllowEphemeral

\* A pool keeps the sizes it was constructed with.
LEMMA SizesStay ==
  ASSUME [Next]_vars
  PROVE  /\ config' = config
         /\ MinSize' = MinSize /\ MaxSize' = MaxSize
         /\ AllowEphemeral' = AllowEphemeral
<1>1. config' = config
  <2>1. ASSUME NEW t \in Threads, Arrive(t) \/ SpuriousWake(t) PROVE config' = config
    BY <2>1 DEF Arrive, GetNew, GetIdle, GetBlock, GetUnpooled, SpuriousWake
  <2>2. ASSUME NEW t \in Threads, LeaveWait(t) \/ Open(t) PROVE config' = config
    BY <2>2 DEF LeaveWait, WokenFindsNone, WokenTakes, Open, Connect, ConnectFails
  <2>3. ASSUME NEW t \in Threads, Release(t) PROVE config' = config
    BY <2>3 DEF Release, ReleaseCloses, ReleasePushes, ReleaseUnpooled
  <2> QED
    BY <2>1, <2>2, <2>3 DEF Next, vars
<1> QED
  BY <1>1 DEF MinSize, MaxSize, AllowEphemeral

\* The initial state is well typed.
LEMMA InitType == Init => TypeInv
BY IdentityAssumption, ConfigAssumption
DEF Init, TypeInv, TypeOK, HoldsWhileUsing, States

\* Every step keeps the types, and keeps a connection with exactly the
\* threads that use one.
LEMMA NextType == TypeInv /\ [Next]_vars => TypeInv'
<1> SUFFICES ASSUME TypeInv, [Next]_vars PROVE TypeInv'
  OBVIOUS
<1> USE DEF TypeInv, TypeOK, HoldsWhileUsing, States
<1>1. CASE UNCHANGED vars
  BY <1>1 DEF vars
<1>2. CASE Next
  <2> PICK t \in Threads : \/ Arrive(t) \/ SpuriousWake(t) \/ LeaveWait(t)
                           \/ Open(t) \/ Release(t)
    BY <1>2 DEF Next
  <2>1. CASE GetNew(t)
    BY <2>1 DEF GetNew
  <2>2. CASE GetIdle(t)
    BY <2>2, IdentityAssumption DEF GetIdle, TakeFront
  <2>3. CASE GetBlock(t)
    BY <2>3 DEF GetBlock
  <2>4. CASE GetUnpooled(t)
    BY <2>4 DEF GetUnpooled
  <2>5. CASE SpuriousWake(t)
    BY <2>5 DEF SpuriousWake
  <2>6. CASE WokenFindsNone(t)
    BY <2>6 DEF WokenFindsNone
  <2>7. CASE WokenTakes(t)
    BY <2>7, IdentityAssumption DEF WokenTakes, TakeFront
  <2>8. CASE Connect(t)
    BY <2>8, IdentityAssumption DEF Connect
  <2>9. CASE ConnectFails(t)
    BY <2>9, ConfigAssumption DEF ConnectFails
  <2>10. CASE ReleaseCloses(t)
    BY <2>10 DEF ReleaseCloses, LetGo
  <2>11. CASE ReleasePushes(t)
    <3>1. conn[t] \in Conns /\ t \notin At("sleeping")
      BY <2>11 DEF ReleasePushes, LetGo, At
    <3>2. CASE At("sleeping") = {}
      BY <2>11, <3>1, <3>2 DEF ReleasePushes, LetGo, NotifyOne
    <3>3. CASE At("sleeping") # {}
      <4>1. PICK w \in At("sleeping") :
              pc' = [pc EXCEPT ![t] = "out", ![w] = "woken"]
        BY <2>11, <3>3 DEF ReleasePushes, NotifyOne
      <4> QED
        BY <2>11, <3>1, <4>1 DEF ReleasePushes, LetGo, At
    <3> QED
      BY <3>2, <3>3
  <2>12. CASE ReleaseUnpooled(t)
    BY <2>12 DEF ReleaseUnpooled, LetGo
  <2> QED
    BY <2>1, <2>2, <2>3, <2>4, <2>5, <2>6, <2>7, <2>8, <2>9, <2>10, <2>11,
       <2>12 DEF Arrive, LeaveWait, Open, Release
<1> QED
  BY <1>1, <1>2

\* Every reachable state is well typed.
THEOREM TypeCorrect == Spec => []TypeOK
<1>1. TypeInv => TypeOK
  BY DEF TypeInv
<1> QED
  BY InitType, NextType, <1>1, PTL DEF Spec
-----------------------------------------------------------------------------
(* Counting: the arithmetic invariant *)

Users    == Count(pc, "using")
Openers  == Count(pc, "connecting")
Sleepers == Count(pc, "sleeping")
Woken    == Count(pc, "woken")

\* Everything the code decides depends on these numbers only.  The last
\* conjunct is what WaiterHasSupplier needs to be inductive: a waiter came when
\* the counter had reached its maximum, and from then on either the counter
\* stays there or a connection was trimmed, which leaves two idle behind.
Numbers ==
  /\ Pooled => poolSize = Users + Len(idle) + Openers + failures
  /\ ~Pooled => poolSize = 0 /\ Len(idle) = 0 /\ Sleepers + Woken = 0
  /\ backlog = Sleepers + Woken
  /\ AllowEphemeral => Sleepers + Woken = 0
  /\ ~AllowEphemeral => poolSize <= MaxSize
  /\ poolSize > MaxSize => Len(idle) = 0
  /\ Len(idle) <= 2 \/ Len(idle) <= MinSize
  /\ Sleepers > 0 => Woken >= Len(idle)
  /\ Sleepers + Woken > 0 => Len(idle) + Users > 0 \/ poolSize >= MaxSize

\* What the numbers are, in any state and after any step.
LEMMA NumberTypes ==
  /\ Users \in Nat /\ Openers \in Nat /\ Sleepers \in Nat /\ Woken \in Nat
  /\ Users' \in Nat /\ Openers' \in Nat /\ Sleepers' \in Nat /\ Woken' \in Nat
BY CountNat DEF Users, Openers, Sleepers, Woken

\* The queue is empty exactly when its length is zero.
LEMMA IdleLen ==
  ASSUME TypeOK
  PROVE  Len(idle) \in Nat /\ (idle = <<>> <=> Len(idle) = 0)
BY EmptySeq, LenProperties DEF TypeOK

\* The numbers hold initially.
LEMMA InitNumbers == Init => Numbers
<1> SUFFICES ASSUME Init PROVE Numbers
  OBVIOUS
<1>1. \A s \in States : s # "out" => Where(pc, s) = {}
  BY DEF Init, Where
<1>2. \A s \in States : s # "out" => Count(pc, s) = 0
  BY <1>1, CountNat
<1>3. Users = 0 /\ Openers = 0 /\ Sleepers = 0 /\ Woken = 0
  BY <1>2 DEF Users, Openers, Sleepers, Woken, States
<1>4. MinSize \in Nat /\ MaxSize \in Nat
  BY SizesAssumption DEF Init, MinSize, MaxSize
<1> QED
  BY <1>3, <1>4 DEF Init, Numbers, Pooled

\* How the numbers change when one thread moves from place o to place d.
LEMMA NumbersMove ==
  ASSUME NEW t, NEW o, NEW d, Moves(pc, pc', t, o, d)
  PROVE  /\ Users' = Users + (IF d = "using" THEN 1 ELSE 0)
                           - (IF o = "using" THEN 1 ELSE 0)
         /\ Openers' = Openers + (IF d = "connecting" THEN 1 ELSE 0)
                               - (IF o = "connecting" THEN 1 ELSE 0)
         /\ Sleepers' = Sleepers + (IF d = "sleeping" THEN 1 ELSE 0)
                                 - (IF o = "sleeping" THEN 1 ELSE 0)
         /\ Woken' = Woken + (IF d = "woken" THEN 1 ELSE 0)
                           - (IF o = "woken" THEN 1 ELSE 0)
<1>1. /\ Count(pc', d) = Count(pc, d) + 1
      /\ Count(pc', o) = Count(pc, o) - 1
      /\ \A s : s # d /\ s # o => Count(pc', s) = Count(pc, s)
  BY CountMove
<1>2. o # d
  BY DEF Moves
<1> QED
  BY <1>1, <1>2, CountNat DEF Users, Openers, Sleepers, Woken

\* No number depends on anything but pc.
LEMMA NumbersStay ==
  ASSUME pc' = pc
  PROVE  Users' = Users /\ Openers' = Openers
         /\ Sleepers' = Sleepers /\ Woken' = Woken
BY DEF Users, Openers, Sleepers, Woken

\* The effect of a notification: the releasing thread leaves and, if a thread
\* sleeps, one sleeper becomes woken.
LEMMA NumbersNotify ==
  ASSUME TypeOK, NEW t \in Threads, pc[t] = "using", NotifyOne(t)
  PROVE  /\ Users' = Users - 1 /\ Openers' = Openers
         /\ \/ Sleepers = 0 /\ Sleepers' = 0 /\ Woken' = Woken
            \/ Sleepers > 0 /\ Sleepers' = Sleepers - 1 /\ Woken' = Woken + 1
<1> DEFINE mid == [pc EXCEPT ![t] = "out"]
<1>1. Moves(pc, mid, t, "using", "out")
  BY DEF TypeOK, States, Moves
<1>2. /\ Count(mid, "using") = Users - 1
      /\ Count(mid, "connecting") = Openers
      /\ Count(mid, "sleeping") = Sleepers
      /\ Count(mid, "woken") = Woken
  <2> HIDE DEF mid
  <2> QED
    BY <1>1, CountMove DEF Users, Openers, Sleepers, Woken
<1>3. CASE At("sleeping") = {}
  <2>1. pc' = mid
    BY <1>3 DEF NotifyOne
  <2>2. Sleepers = 0
    BY <1>3, CountNat DEF At, Where, Sleepers
  <2> HIDE DEF mid
  <2> QED
    BY <1>2, <2>1, <2>2 DEF Users, Openers, Sleepers, Woken
<1>4. CASE At("sleeping") # {}
  <2>1. PICK w \in At("sleeping") : pc' = [mid EXCEPT ![w] = "woken"]
    BY <1>4 DEF NotifyOne
  <2>2. w \in Threads /\ pc[w] = "sleeping" /\ w # t
    BY DEF At
  <2>3. Moves(mid, pc', w, "sleeping", "woken")
    BY <2>1, <2>2 DEF TypeOK, States, Moves
  <2>4. /\ Count(pc', "using") = Count(mid, "using")
        /\ Count(pc', "connecting") = Count(mid, "connecting")
        /\ Count(pc', "sleeping") = Count(mid, "sleeping") - 1
        /\ Count(pc', "woken") = Count(mid, "woken") + 1
    <3> HIDE DEF mid
    <3> QED
      BY <2>3, CountMove
  <2>5. Sleepers # 0
    BY <1>4, CountNat DEF At, Where, Sleepers
  <2>6. Sleepers > 0
    BY <2>5, NumberTypes
  <2> HIDE DEF mid
  <2> QED
    BY <1>2, <2>4, <2>6 DEF Users, Openers, Sleepers, Woken
<1> QED
  BY <1>3, <1>4

\* Every step preserves the numbers.
LEMMA NextNumbers == TypeInv /\ TypeInv' /\ Numbers /\ [Next]_vars => Numbers'
<1> SUFFICES ASSUME TypeInv, TypeInv', Numbers, [Next]_vars PROVE Numbers'
  OBVIOUS
<1> TypeOK /\ TypeOK'
  BY DEF TypeInv
<1>n. /\ poolSize \in Int /\ backlog \in Int /\ failures \in Nat
      /\ failures' \in Nat
  BY ConfigAssumption DEF TypeOK
<1>i. /\ Len(idle) \in Nat /\ (idle = <<>> <=> Len(idle) = 0)
      /\ idle # <<>> => Len(Tail(idle)) = Len(idle) - 1
  BY IdleLen, HeadTailProperties DEF TypeOK
<1>a. \A c \in Conns : Len(Append(idle, c)) = Len(idle) + 1
  BY AppendProperties DEF TypeOK
<1>s. /\ MinSize \in Nat /\ MaxSize \in Nat /\ MinSize <= MaxSize
      /\ AllowEphemeral \in BOOLEAN
      /\ MinSize' = MinSize /\ MaxSize' = MaxSize
      /\ AllowEphemeral' = AllowEphemeral
  BY SizeTypes, SizesStay
<1> USE NumberTypes, <1>s
<1>1. CASE UNCHANGED vars
  BY <1>1, NumbersStay DEF vars, Numbers, Pooled
<1>2. CASE Next
  <2> PICK t \in Threads : \/ Arrive(t) \/ SpuriousWake(t) \/ LeaveWait(t)
                           \/ Open(t) \/ Release(t)
    BY <1>2 DEF Next
  <2>1. CASE GetNew(t)
    <3>1. Moves(pc, pc', t, "out", "connecting")
      BY <2>1 DEF GetNew, Moves, TypeOK
    <3>2. /\ Users' = Users /\ Openers' = Openers + 1
          /\ Sleepers' = Sleepers /\ Woken' = Woken
      BY <3>1, NumbersMove
    <3> QED
      BY <2>1, <3>2, <1>n, <1>i DEF GetNew, MayOpen, Numbers, Pooled
  <2>2. CASE GetIdle(t)
    <3>1. Moves(pc, pc', t, "out", "using")
      BY <2>2 DEF GetIdle, TakeFront, Moves, TypeOK
    <3>2. /\ Users' = Users + 1 /\ Openers' = Openers
          /\ Sleepers' = Sleepers /\ Woken' = Woken
      BY <3>1, NumbersMove
    <3>3. Len(idle') = Len(idle) - 1
      BY <2>2, <1>i DEF GetIdle, TakeFront
    <3> QED
      BY <2>2, <3>2, <3>3, <1>n, <1>i DEF GetIdle, Numbers, Pooled
  <2>3. CASE GetBlock(t)
    <3>1. Moves(pc, pc', t, "out", "sleeping")
      BY <2>3 DEF GetBlock, Moves, TypeOK
    <3>2. /\ Users' = Users /\ Openers' = Openers
          /\ Sleepers' = Sleepers + 1 /\ Woken' = Woken
      BY <3>1, NumbersMove
    <3> QED
      BY <2>3, <3>2, <1>n, <1>i DEF GetBlock, MayOpen, Numbers, Pooled
  <2>4. CASE GetUnpooled(t)
    <3>1. Moves(pc, pc', t, "out", "connecting")
      BY <2>4 DEF GetUnpooled, Moves, TypeOK
    <3>2. /\ Users' = Users /\ Sleepers' = Sleepers /\ Woken' = Woken
      BY <3>1, NumbersMove
    <3> QED
      BY <2>4, <3>2, <1>n, <1>i DEF GetUnpooled, Numbers, Pooled
  <2>5. CASE SpuriousWake(t)
    <3>1. Moves(pc, pc', t, "sleeping", "woken")
      BY <2>5 DEF SpuriousWake, Moves, TypeOK
    <3>2. /\ Users' = Users /\ Openers' = Openers
          /\ Sleepers' = Sleepers - 1 /\ Woken' = Woken + 1
      BY <3>1, NumbersMove
    <3> QED
      BY <2>5, <3>2, <1>n, <1>i DEF SpuriousWake, Numbers, Pooled
  <2>6. CASE WokenFindsNone(t)
    <3>1. Moves(pc, pc', t, "woken", "sleeping")
      BY <2>6 DEF WokenFindsNone, Moves, TypeOK
    <3>2. /\ Users' = Users /\ Openers' = Openers
          /\ Sleepers' = Sleepers + 1 /\ Woken' = Woken - 1
      BY <3>1, NumbersMove
    <3> QED
      BY <2>6, <3>2, <1>n, <1>i DEF WokenFindsNone, Numbers, Pooled
  <2>7. CASE WokenTakes(t)
    <3>1. Moves(pc, pc', t, "woken", "using")
      BY <2>7 DEF WokenTakes, TakeFront, Moves, TypeOK
    <3>2. /\ Users' = Users + 1 /\ Openers' = Openers
          /\ Sleepers' = Sleepers /\ Woken' = Woken - 1
      BY <3>1, NumbersMove
    <3>3. Len(idle') = Len(idle) - 1
      BY <2>7, <1>i DEF WokenTakes, TakeFront
    <3> QED
      BY <2>7, <3>2, <3>3, <1>n, <1>i DEF WokenTakes, Numbers, Pooled
  <2>8. CASE Connect(t)
    <3>1. Moves(pc, pc', t, "connecting", "using")
      BY <2>8 DEF Connect, Moves, TypeOK
    <3>2. /\ Users' = Users + 1 /\ Openers' = Openers - 1
          /\ Sleepers' = Sleepers /\ Woken' = Woken
      BY <3>1, NumbersMove
    <3> QED
      BY <2>8, <3>2, <1>n, <1>i DEF Connect, Numbers, Pooled
  <2>9. CASE ConnectFails(t)
    <3>1. Moves(pc, pc', t, "connecting", "out")
      BY <2>9 DEF ConnectFails, Moves, TypeOK
    <3>2. /\ Users' = Users /\ Openers' = Openers - 1
          /\ Sleepers' = Sleepers /\ Woken' = Woken
      BY <3>1, NumbersMove
    <3> QED
      BY <2>9, <3>2, <1>n, <1>i DEF ConnectFails, Numbers, Pooled
  <2>10. CASE ReleaseCloses(t)
    <3>1. Moves(pc, pc', t, "using", "out")
      BY <2>10 DEF ReleaseCloses, LetGo, Moves, TypeOK
    <3>2. /\ Users' = Users - 1 /\ Openers' = Openers
          /\ Sleepers' = Sleepers /\ Woken' = Woken
      BY <3>1, NumbersMove
    <3> QED
      BY <2>10, <3>2, <1>n, <1>i DEF ReleaseCloses, Closes, Numbers, Pooled
  <2>11. CASE ReleasePushes(t)
    <3>1. pc[t] = "using" /\ conn[t] \in Conns
      BY <2>11 DEF ReleasePushes, LetGo, TypeInv, TypeOK, HoldsWhileUsing
    <3>2. Len(idle') = Len(idle) + 1
      BY <2>11, <3>1, <1>a DEF ReleasePushes
    <3>3. /\ Users' = Users - 1 /\ Openers' = Openers
          /\ \/ Sleepers = 0 /\ Sleepers' = 0 /\ Woken' = Woken
             \/ /\ Sleepers > 0
                /\ Sleepers' = Sleepers - 1 /\ Woken' = Woken + 1
      BY <2>11, <3>1, NumbersNotify DEF ReleasePushes
    <3>4. /\ UNCHANGED <<poolSize, backlog, failures>> /\ Pooled /\ ~Closes
      BY <2>11 DEF ReleasePushes
    <3>5. CASE Sleepers = 0 /\ Sleepers' = 0 /\ Woken' = Woken
      BY <3>2, <3>3, <3>4, <3>5, <1>n, <1>i DEF Closes, Numbers, Pooled
    <3>6. CASE /\ Sleepers > 0
               /\ Sleepers' = Sleepers - 1 /\ Woken' = Woken + 1
      BY <3>2, <3>3, <3>4, <3>6, <1>n, <1>i DEF Closes, Numbers, Pooled
    <3> QED
      BY <3>3, <3>5, <3>6
  <2>12. CASE ReleaseUnpooled(t)
    <3>1. Moves(pc, pc', t, "using", "out")
      BY <2>12 DEF ReleaseUnpooled, LetGo, Moves, TypeOK
    <3>2. /\ Users' = Users - 1 /\ Openers' = Openers
          /\ Sleepers' = Sleepers /\ Woken' = Woken
      BY <3>1, NumbersMove
    <3>3. /\ UNCHANGED <<idle, poolSize, backlog, failures>> /\ ~Pooled
      BY <2>12 DEF ReleaseUnpooled
    <3> QED
      BY <3>2, <3>3, <1>n, <1>i DEF Numbers, Pooled
  <2> QED
    BY <2>1, <2>2, <2>3, <2>4, <2>5, <2>6, <2>7, <2>8, <2>9, <2>10, <2>11,
       <2>12 DEF Arrive, LeaveWait, Open, Release
<1> QED
  BY <1>1, <1>2

\* The numbers hold in every reachable state.
LEMMA NumbersInvariant == Spec => [](TypeInv /\ Numbers)
<1>1. Init => TypeInv /\ Numbers
  BY InitType, InitNumbers
<1>2. TypeInv /\ Numbers /\ [Next]_vars => (TypeInv /\ Numbers)'
  BY NextType, NextNumbers
<1> QED
  BY <1>1, <1>2, PTL DEF Spec

\* The numbers are about the sets the properties speak of.
LEMMA NumbersOfSets ==
  /\ Cardinality(At("using")) = Users
  /\ Cardinality(At("connecting")) = Openers
  /\ Cardinality(At("sleeping")) = Sleepers
  /\ Cardinality(At("woken")) = Woken
  /\ Cardinality(Waiting) = Sleepers + Woken
  /\ At("sleeping") # {} <=> Sleepers > 0
  /\ At("connecting") # {} <=> Openers > 0
  /\ Waiting # {} <=> Sleepers + Woken > 0
<1>1. \A s : At(s) = Where(pc, s)
  BY DEF At, Where
<1>2. \A s : Count(pc, s) \in Nat /\ (Count(pc, s) = 0 <=> At(s) = {})
  BY <1>1, CountNat
<1>3. Cardinality(Waiting) = Sleepers + Woken
  BY <1>1, CountWaiting DEF Waiting, Sleepers, Woken
<1> QED
  BY <1>1, <1>2, <1>3
  DEF Count, Waiting, Users, Openers, Sleepers, Woken

\* The pool's counter counts the connections in use, idle and being opened,
\* and every failed connect for ever; the backlog counts the waiting threads.
THEOREM AccountingHolds == Spec => []Accounting
<1>1. TypeInv /\ Numbers => Accounting
  <2> SUFFICES ASSUME TypeInv, Numbers PROVE Accounting
    OBVIOUS
  <2> QED
    BY NumbersOfSets DEF Numbers, Accounting
<1> QED
  BY NumbersInvariant, <1>1, PTL

\* A bounded pool never counts more than MaxSize connections, and what exceeds
\* the maximum of an ephemeral pool is never idle; nor are more than two connections,
\* or MinSize of them.
THEOREM SizeBoundHolds == Spec => []SizeBound
<1>1. TypeInv /\ Numbers => SizeBound
  BY IdleLen, SizeTypes DEF TypeInv, Numbers, SizeBound, IdleBound
<1> QED
  BY NumbersInvariant, <1>1, PTL

\* While a thread sleeps in get_client, as many threads have been woken as
\* there are connections in the queue: no notification is lost.
THEOREM NoLostWakeupHolds == Spec => []NoLostWakeup
<1>1. TypeInv /\ Numbers => NoLostWakeup
  <2> SUFFICES ASSUME TypeInv, Numbers, At("sleeping") # {}
               PROVE  Cardinality(At("woken")) >= Len(idle)
    BY DEF NoLostWakeup
  <2> QED
    BY NumbersOfSets DEF Numbers
<1> QED
  BY NumbersInvariant, <1>1, PTL

\* A thread can wait in vain only when failed connects have used up the pool.
THEOREM WaiterHasSupplierHolds == Spec => []WaiterHasSupplier
<1>1. TypeInv /\ Numbers => WaiterHasSupplier
  <2> SUFFICES ASSUME TypeInv, Numbers, Waiting # {},
                      IdleConns \cup HeldConns = {}, At("connecting") = {}
               PROVE  failures >= MaxSize
    BY DEF WaiterHasSupplier
  <2>1. Sleepers + Woken > 0 /\ Openers = 0
    BY NumbersOfSets, NumberTypes
  <2>2. Len(idle) = 0
    <3>1. Len(idle) \in Nat
      BY IdleLen DEF TypeInv
    <3>2. Len(idle) > 0 => idle[1] \in IdleConns
      BY <3>1 DEF IdleConns
    <3> QED
      BY <3>1, <3>2
  <2>3. Users = 0
    <3>1. Where(pc, "using") = {}
      BY DEF HeldConns, At, Where
    <3> QED
      BY <3>1, CountNat DEF Users
  <2>4. Pooled
    BY <2>1, NumberTypes DEF Numbers
  <2>5. poolSize >= MaxSize
    BY <2>1, <2>2, <2>3 DEF Numbers
  <2>6. poolSize = failures
    BY <2>1, <2>2, <2>3, <2>4, ConfigAssumption DEF Numbers, TypeInv, TypeOK
  <2> QED
    BY <2>5, <2>6
<1> QED
  BY NumbersInvariant, <1>1, PTL

-----------------------------------------------------------------------------
(* Identity: which connection is where *)

\* The queue as a set, and what taking from it and appending to it do.
LEMMA QueueTake ==
  ASSUME NEW S, NEW q \in Seq(S), q # <<>>
  PROVE  /\ Len(q) \in Nat /\ Len(q) > 0
         /\ Head(q) = q[1] /\ Len(Tail(q)) = Len(q) - 1
         /\ \A i \in 1..Len(Tail(q)) : Tail(q)[i] = q[i+1]
BY HeadTailProperties, EmptySeq, LenProperties

\* Appending adds one element to the set and keeps elements distinct.
LEMMA QueueAppend ==
  ASSUME NEW S, NEW q \in Seq(S), NEW c \in S
  PROVE  /\ Len(q) \in Nat /\ Len(Append(q, c)) = Len(q) + 1
         /\ \A i \in 1..Len(q) : Append(q, c)[i] = q[i]
         /\ Append(q, c)[Len(q) + 1] = c
BY AppendProperties, LenProperties

\* Taking the front connection keeps connections exclusive.
LEMMA TakeExclusive ==
  ASSUME TypeInv, TypeInv', ExclusiveUse, NEW t \in Threads,
         pc[t] # "using", idle # <<>>, TakeFront(t)
  PROVE  ExclusiveUse'
<1> USE DEF TypeInv, TypeOK
<1>1. /\ Len(idle) \in Nat /\ Len(idle) > 0
      /\ conn' = [conn EXCEPT ![t] = idle[1]] /\ Len(idle') = Len(idle) - 1
      /\ \A i \in 1..Len(idle') : idle'[i] = idle[i+1]
  BY QueueTake DEF TakeFront
<1>2. /\ idle[1] \in IdleConns
      /\ \A i \in 1..Len(idle') : idle'[i] \in IdleConns /\ idle'[i] # idle[1]
  BY <1>1 DEF ExclusiveUse, IdleConns
<1>3. At("using")' = At("using") \cup {t}
  BY DEF TakeFront, At
<1>4. \A u \in At("using") : u # t /\ conn'[u] = conn[u] /\ conn[u] \notin IdleConns
  BY <1>1 DEF At, ExclusiveUse, HeldConns
<1>5. (\A u, v \in At("using") : conn[u] = conn[v] => u = v)'
  BY <1>1, <1>2, <1>3, <1>4 DEF ExclusiveUse
<1>6. (\A i, j \in 1..Len(idle) : idle[i] = idle[j] => i = j)'
  BY <1>1 DEF ExclusiveUse
<1>7. (IdleConns \cap HeldConns = {})'
  BY <1>1, <1>2, <1>3, <1>4 DEF IdleConns, HeldConns
<1> QED
  BY <1>5, <1>6, <1>7 DEF ExclusiveUse

\* Every step keeps connections exclusive.
LEMMA NextExclusive ==
  TypeInv /\ TypeInv' /\ ExclusiveUse /\ [Next]_vars => ExclusiveUse'
<1> SUFFICES ASSUME TypeInv, TypeInv', ExclusiveUse, [Next]_vars
             PROVE  ExclusiveUse'
  OBVIOUS
<1> USE DEF TypeInv
\* Steps that leave the queue, the connections and the users as they are.
<1>a. ASSUME UNCHANGED <<conn, idle>>, At("using")' = At("using")
      PROVE  ExclusiveUse'
  BY <1>a DEF ExclusiveUse, IdleConns, HeldConns
<1>1. CASE UNCHANGED vars
  BY <1>1, <1>a DEF vars, At
<1>2. CASE Next
  <2> PICK t \in Threads : \/ Arrive(t) \/ SpuriousWake(t) \/ LeaveWait(t)
                           \/ Open(t) \/ Release(t)
    BY <1>2 DEF Next
  <2>1. CASE GetNew(t)
    BY <2>1, <1>a DEF GetNew, At, TypeOK
  <2>2. CASE GetIdle(t)
    BY <2>2, TakeExclusive DEF GetIdle
  <2>3. CASE GetBlock(t)
    BY <2>3, <1>a DEF GetBlock, At, TypeOK
  <2>4. CASE GetUnpooled(t)
    BY <2>4, <1>a DEF GetUnpooled, At, TypeOK
  <2>5. CASE SpuriousWake(t)
    BY <2>5, <1>a DEF SpuriousWake, At, TypeOK
  <2>6. CASE WokenFindsNone(t)
    BY <2>6, <1>a DEF WokenFindsNone, At, TypeOK
  <2>7. CASE WokenTakes(t)
    BY <2>7, TakeExclusive DEF WokenTakes
  <2>8. CASE Connect(t)
    <3>1. PICK c \in Conns \ (IdleConns \cup HeldConns) :
            conn' = [conn EXCEPT ![t] = c]
      BY <2>8 DEF Connect
    <3>2. At("using")' = At("using") \cup {t} /\ t \notin At("using")
      BY <2>8 DEF Connect, At, TypeOK
    <3>3. conn'[t] = c /\ \A u \in At("using") : conn'[u] = conn[u] /\ conn[u] # c
      BY <3>1, <3>2 DEF HeldConns, At, TypeOK
    <3>4. idle' = idle
      BY <2>8 DEF Connect
    <3>5. (\A u, v \in At("using") : conn[u] = conn[v] => u = v)'
      BY <3>2, <3>3 DEF ExclusiveUse
    <3>6. (IdleConns \cap HeldConns = {})'
      BY <3>1, <3>2, <3>3, <3>4 DEF ExclusiveUse, IdleConns, HeldConns
    <3> QED
      BY <3>4, <3>5, <3>6 DEF ExclusiveUse
  <2>9. CASE ConnectFails(t)
    BY <2>9, <1>a DEF ConnectFails, At, TypeOK
  <2>10. ASSUME LetGo(t), idle' = idle, pc' = [pc EXCEPT ![t] = "out"]
         PROVE  ExclusiveUse'
    <3>1. At("using")' = At("using") \ {t}
      BY <2>10 DEF At, TypeOK
    <3>2. \A u \in At("using") \ {t} : conn'[u] = conn[u]
      BY <2>10 DEF LetGo, TypeOK, At
    <3> QED
      BY <2>10, <3>1, <3>2 DEF ExclusiveUse, IdleConns, HeldConns
  <2>11. CASE ReleasePushes(t)
    <3>1. t \in At("using") /\ conn[t] \in Conns
      BY <2>11 DEF ReleasePushes, LetGo, TypeOK, HoldsWhileUsing, At
    <3>2. At("using")' = At("using") \ {t}
      <4>1. CASE At("sleeping") = {}
        BY <2>11, <4>1 DEF ReleasePushes, NotifyOne, At, TypeOK
      <4>2. CASE At("sleeping") # {}
        BY <2>11, <4>2 DEF ReleasePushes, NotifyOne, At, TypeOK
      <4> QED
        BY <4>1, <4>2
    <3>3. \A u \in At("using") \ {t} : conn'[u] = conn[u] /\ conn[u] # conn[t]
      BY <2>11, <3>1 DEF ReleasePushes, LetGo, TypeOK, At, ExclusiveUse
    <3>4. /\ Len(idle) \in Nat /\ Len(idle') = Len(idle) + 1
          /\ \A i \in 1..Len(idle) : idle'[i] = idle[i]
          /\ idle'[Len(idle) + 1] = conn[t]
      BY <2>11, <3>1, QueueAppend DEF ReleasePushes, TypeOK
    <3>5. \A i \in 1..Len(idle) : idle[i] # conn[t]
      BY <3>1 DEF ExclusiveUse, IdleConns, HeldConns
    <3>6. (\A i, j \in 1..Len(idle) : idle[i] = idle[j] => i = j)'
      BY <3>4, <3>5 DEF ExclusiveUse
    <3>7. IdleConns' = IdleConns \cup {conn[t]}
      BY <3>4 DEF IdleConns
    <3>8. (IdleConns \cap HeldConns = {})'
      BY <3>2, <3>3, <3>7 DEF ExclusiveUse, HeldConns
    <3>9. (\A u, v \in At("using") : conn[u] = conn[v] => u = v)'
      BY <3>2, <3>3 DEF ExclusiveUse
    <3> QED
      BY <3>6, <3>8, <3>9 DEF ExclusiveUse
  <2>12. CASE ReleaseCloses(t)
    BY <2>12, <2>10 DEF ReleaseCloses
  <2>13. CASE ReleaseUnpooled(t)
    BY <2>13, <2>10 DEF ReleaseUnpooled
  <2> QED
    BY <2>1, <2>2, <2>3, <2>4, <2>5, <2>6, <2>7, <2>8, <2>9, <2>11, <2>12,
       <2>13 DEF Arrive, LeaveWait, Open, Release
<1> QED
  BY <1>1, <1>2

\* No connection is ever held by two threads, queued twice, or both held and
\* queued.
THEOREM ExclusiveUseHolds == Spec => []ExclusiveUse
<1>1. Init => ExclusiveUse
  <2> SUFFICES ASSUME Init PROVE ExclusiveUse
    OBVIOUS
  <2>1. Len(idle) = 0 /\ At("using") = {}
    BY DEF Init, At
  <2> QED
    BY <2>1 DEF Init, ExclusiveUse, HoldsWhileUsing, IdleConns, HeldConns
<1> QED
  BY InitType, NextType, <1>1, NextExclusive, PTL DEF Spec

-----------------------------------------------------------------------------
(* Steps *)

\* The counter goes down only where a release closes a connection.
LEMMA OnlyCloseDecrements ==
  ASSUME TypeOK, [Next]_vars, poolSize' < poolSize
  PROVE  \E t \in Threads : ReleaseCloses(t)
<1>1. poolSize \in Int
  BY DEF TypeOK
<1>2. ~ UNCHANGED vars
  BY <1>1 DEF vars
<1>3. PICK t \in Threads : \/ Arrive(t) \/ SpuriousWake(t) \/ LeaveWait(t)
                           \/ Open(t) \/ Release(t)
  BY <1>2 DEF Next
<1>4. poolSize' # poolSize /\ poolSize' # poolSize + 1
  BY <1>1
<1>5. ~Arrive(t) /\ ~SpuriousWake(t) /\ ~LeaveWait(t) /\ ~Open(t)
  BY <1>4 DEF Arrive, GetNew, GetIdle, GetBlock, GetUnpooled, SpuriousWake,
              LeaveWait, WokenFindsNone, WokenTakes, Open, Connect, ConnectFails
<1>6. ~ReleasePushes(t) /\ ~ReleaseUnpooled(t)
  BY <1>4 DEF ReleasePushes, ReleaseUnpooled
<1> QED
  BY <1>3, <1>5, <1>6 DEF Release

\* A release that closes a connection while a thread sleeps leaves two idle
\* connections, each with a woken taker.
THEOREM TrimSparesWaitersHolds == Spec => TrimSparesWaiters
<1>1. ASSUME TypeInv, Numbers, [Next]_vars,
             poolSize' < poolSize, At("sleeping") # {}
      PROVE  Len(idle') >= 2 /\ Cardinality(At("woken")') >= Len(idle')
  <2>1. PICK t \in Threads : ReleaseCloses(t)
    BY <1>1, OnlyCloseDecrements DEF TypeInv
  <2>2. Sleepers > 0
    BY <1>1, NumbersOfSets
  <2>3. ~AllowEphemeral /\ poolSize <= MaxSize /\ Woken >= Len(idle)
    BY <1>1, <2>2, NumberTypes DEF Numbers
  <2>4. Len(idle) \in Nat /\ poolSize \in Int
    BY <1>1, IdleLen DEF TypeInv, TypeOK
  <2>5. Len(idle) > 1 /\ idle' = idle
    BY <1>1, <2>1, <2>3, <2>4, SizeTypes DEF TypeInv, ReleaseCloses, Closes
  <2>6. At("woken")' = At("woken")
    BY <1>1, <2>1 DEF ReleaseCloses, LetGo, At, TypeInv, TypeOK
  <2>7. Cardinality(At("woken")) = Woken
    BY NumbersOfSets
  <2> QED
    BY <2>3, <2>4, <2>5, <2>6, <2>7
<1>2. TypeInv /\ Numbers /\ [Next]_vars =>
        [ (poolSize' < poolSize /\ At("sleeping") # {}) =>
            Len(idle') >= 2 /\ Cardinality(At("woken")') >= Len(idle') ]_vars
  BY <1>1
<1> QED
  BY NumbersInvariant, <1>2, PTL DEF Spec, TrimSparesWaiters

-----------------------------------------------------------------------------
(* Refinement *)

\* The lessees of the abstract specification are the threads that use a
\* connection.
LEMMA LesseesAreUsers ==
  ASSUME TypeInv
  PROVE  Lease!Cardinality(Lease!Lessees) = Users
<1>1. Lease!Lessees = At("using")
  BY DEF TypeInv, HoldsWhileUsing, Lease!Lessees, At
<1>2. Lease!Cardinality(Lease!Lessees) = Cardinality(Lease!Lessees)
  BY DEF Lease!Cardinality, Cardinality
<1> QED
  BY <1>1, <1>2, NumbersOfSets

\* A thread that is connecting, or that finds an idle connection, is within the
\* capacity.
LEMMA WithinCapacity ==
  ASSUME TypeInv, Numbers, NEW t \in Threads, pc[t] # "using",
         pc[t] = "connecting" \/ (Pooled /\ idle # <<>>)
  PROVE  /\ Bounded => Users < MaxSize - failures
         /\ Users < Cardinality(Threads)
<1>1. Users < Cardinality(Threads)
  <2>1. Where(pc, "using") \in SUBSET Threads /\ Where(pc, "using") # Threads
    BY DEF Where
  <2>2. Cardinality(Threads) \in Nat
    BY IdentityAssumption, FS_CardinalityType
  <2> QED
    BY <2>1, <2>2, IdentityAssumption, FS_Subset, NumberTypes DEF Users, Count
<1>2. ASSUME Bounded PROVE Users < MaxSize - failures
  <2>1. pc[t] = "connecting" => Openers > 0
    <3>1. pc[t] = "connecting" => Where(pc, "connecting") # {}
      BY DEF Where
    <3> QED
      BY <3>1, CountNat, NumberTypes DEF Openers
  <2>2. idle # <<>> => Len(idle) > 0
    BY IdleLen DEF TypeInv
  <2>3. Len(idle) \in Nat /\ poolSize \in Int /\ failures \in Nat
    BY IdleLen, ConfigAssumption DEF TypeInv, TypeOK
  <2>4. poolSize = Users + Len(idle) + Openers + failures /\ poolSize <= MaxSize
    BY <1>2 DEF Bounded, Numbers
  <2> QED
    BY <2>1, <2>2, <2>3, <2>4, NumberTypes, SizeTypes DEF TypeInv
<1> QED
  BY <1>1, <1>2

\* Every step of the pool is a step of the leases or changes no lease.
LEMMA NextLease ==
  TypeInv /\ TypeInv' /\ Numbers /\ ExclusiveUse /\ [Next]_vars
    => [Lease!Next]_(Lease!vars)
<1> SUFFICES ASSUME TypeInv, TypeInv', Numbers, ExclusiveUse, [Next]_vars
             PROVE  [Lease!Next]_(Lease!vars)
  OBVIOUS
<1>s. MaxSize' = MaxSize /\ AllowEphemeral' = AllowEphemeral /\ MaxSize \in Nat
  BY SizesStay, SizeTypes DEF TypeInv
<1>a. ASSUME UNCHANGED <<conn, failures>> PROVE UNCHANGED Lease!vars
  BY <1>a, <1>s DEF Lease!vars, LeaseCapacity, Bounded, Pooled
\* Handing connection c to t is a Grant.
<1>b. ASSUME NEW t \in Threads, NEW c \in Conns, pc[t] # "using",
             c \notin HeldConns, conn' = [conn EXCEPT ![t] = c],
             failures' = failures,
             pc[t] = "connecting" \/ (Pooled /\ idle # <<>>)
      PROVE  Lease!Next
  <2>1. conn[t] = NoConn
    BY <1>b DEF TypeInv, HoldsWhileUsing
  <2>2. \A u \in Threads : conn[u] # c
    BY <1>b, IdentityAssumption DEF TypeInv, HoldsWhileUsing, HeldConns, At
  <2>3. Lease!Cardinality(Lease!Lessees) < LeaseCapacity
    BY <1>b, LesseesAreUsers, WithinCapacity DEF LeaseCapacity
  <2>4. LeaseCapacity' = LeaseCapacity
    BY <1>b, <1>s DEF LeaseCapacity, Bounded, Pooled
  <2>5. Lease!Grant(t, c)
    BY <1>b, <2>1, <2>2, <2>3, <2>4 DEF Lease!Grant
  <2> QED
    BY <2>5 DEF Lease!Next
\* Letting go of a connection is a Return.
<1>c. ASSUME NEW t \in Threads, LetGo(t), failures' = failures
      PROVE  Lease!Next
  <2>1. conn[t] # NoConn
    BY <1>c DEF LetGo, TypeInv, HoldsWhileUsing
  <2>2. Lease!Return(t)
    BY <1>c, <1>s, <2>1
    DEF LetGo, Lease!Return, LeaseCapacity, Bounded, Pooled
  <2> QED
    BY <2>2 DEF Lease!Next
<1>1. CASE UNCHANGED vars
  BY <1>1, <1>a DEF vars
<1>2. CASE Next
  <2> PICK t \in Threads : \/ Arrive(t) \/ SpuriousWake(t) \/ LeaveWait(t)
                           \/ Open(t) \/ Release(t)
    BY <1>2 DEF Next
  <2>1. CASE GetNew(t) \/ GetBlock(t) \/ GetUnpooled(t)
    BY <2>1, <1>a DEF GetNew, GetBlock, GetUnpooled
  <2>2. CASE SpuriousWake(t) \/ WokenFindsNone(t)
    BY <2>2, <1>a DEF SpuriousWake, WokenFindsNone
  <2>3. ASSUME pc[t] # "using", idle # <<>>, TakeFront(t), Pooled,
               failures' = failures
        PROVE  Lease!Next
    <3>1. Head(idle) \in Conns /\ Head(idle) \notin HeldConns
      <4>1. Len(idle) \in Nat /\ Len(idle) > 0 /\ Head(idle) = idle[1]
        BY <2>3, QueueTake DEF TypeInv, TypeOK
      <4>2. idle[1] \in Conns /\ idle[1] \in IdleConns
        BY <4>1, ElementOfSeq DEF TypeInv, TypeOK, IdleConns
      <4> QED
        BY <4>1, <4>2 DEF ExclusiveUse
    <3> QED
      BY <2>3, <3>1, <1>b DEF TakeFront
  <2>4. CASE GetIdle(t)
    BY <2>4, <2>3 DEF GetIdle
  <2>5. CASE WokenTakes(t)
    <3>1. Pooled
      <4>1. Woken # 0
        BY <2>5, CountNat DEF WokenTakes, Where, Woken
      <4> QED
        BY <4>1, NumberTypes DEF Numbers
    <3> QED
      BY <2>5, <2>3, <3>1 DEF WokenTakes
  <2>6. CASE Connect(t)
    <3>1. PICK c \in Conns \ (IdleConns \cup HeldConns) :
            conn' = [conn EXCEPT ![t] = c]
      BY <2>6 DEF Connect
    <3> QED
      BY <2>6, <3>1, <1>b DEF Connect
  <2>7. CASE ConnectFails(t)
    <3>1. CASE Bounded
      <4>1. Users < MaxSize - failures
        BY <2>7, <3>1, WithinCapacity DEF ConnectFails
      <4>2. failures \in Nat /\ failures' = failures + 1 /\ conn' = conn
        BY <2>7, ConfigAssumption DEF ConnectFails, TypeInv, TypeOK
      <4>3. LeaseCapacity = MaxSize - failures
            /\ LeaseCapacity' = MaxSize - failures'
        BY <3>1, <1>s DEF LeaseCapacity, Bounded, Pooled
      <4>4. /\ LeaseCapacity' = LeaseCapacity - 1
            /\ Lease!Cardinality(Lease!Lessees) <= LeaseCapacity'
        BY <4>1, <4>2, <4>3, LesseesAreUsers, NumberTypes, <1>s
      <4>5. Lease!Shrink
        BY <4>2, <4>4 DEF Lease!Shrink
      <4> QED
        BY <4>5 DEF Lease!Next
    <3>2. CASE ~Bounded
      BY <2>7, <3>2, <1>s DEF ConnectFails, Lease!vars, LeaseCapacity, Bounded, Pooled
    <3> QED
      BY <3>1, <3>2
  <2>8. CASE ReleaseCloses(t) \/ ReleasePushes(t) \/ ReleaseUnpooled(t)
    BY <2>8, <1>c DEF ReleaseCloses, ReleasePushes, ReleaseUnpooled
  <2> QED
    BY <2>1, <2>2, <2>4, <2>5, <2>6, <2>7, <2>8
    DEF Arrive, LeaveWait, Open, Release
<1> QED
  BY <1>1, <1>2

\* The pool implements exclusive leases within a capacity that failed connects
\* reduce and nothing restores.
THEOREM PoolImplementsLease == Spec => ImplementsLease
<1>1. Init => Lease!Init
  <2> SUFFICES ASSUME Init PROVE Lease!Init
    OBVIOUS
  <2>1. MaxSize \in Nat /\ Cardinality(Threads) \in Nat
    BY SizesAssumption, IdentityAssumption, FS_CardinalityType DEF Init, MaxSize
  <2>2. failures = 0 /\ conn = [t \in Threads |-> NoConn]
    BY DEF Init
  <2>3. LeaseCapacity \in Nat
    BY <2>1, <2>2 DEF LeaseCapacity
  <2> QED
    BY <2>2, <2>3 DEF Lease!Init
<1> QED
  BY NumbersInvariant, ExclusiveUseHolds, <1>1, NextLease, PTL
  DEF Spec, ImplementsLease, Lease!Spec
=============================================================================
