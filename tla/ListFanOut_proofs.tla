------------------------- MODULE ListFanOut_proofs --------------------------
(***************************************************************************)
(* Theorems about ListFanOut, for any number of rows and of loops: the     *)
(* answer of a list call is complete or an error, and a thread that runs   *)
(* while its loop goes on reads no row before its own.                     *)
(*                                                                         *)
(* The invariant says which threads have been started (those of the        *)
(* iterations passed), that the rows answered are those whose threads      *)
(* succeeded, and that an outcome is decided only on the way out.          *)
(***************************************************************************)
EXTENDS ListFanOut, FiniteSetTheorems, TLAPS

Rows == [Loops -> 0..MaxRows]

Types ==
  /\ phase \in Phases /\ n \in 0..MaxRows /\ at \in Tasks
  /\ slot \in [Loops -> 0..MaxRows] /\ recent \in 0..MaxRows
  /\ task \in [Tasks -> TaskStates] /\ read \in [Tasks -> 0..MaxRows]
  /\ answer \in Seq(Rows) /\ Len(answer) <= n
  /\ outcome \in {"none", "ok", "error"}

\* The iteration that starts t comes before the one the handler is at.
Passed(t) == t[2] <= n /\ (t[1] < at[1] \/ (t[1] = at[1] /\ t[2] < at[2]))

Started ==
  /\ phase = "fetch" => n = 0 /\ at = <<1, 1>> /\ \A t \in Tasks : task[t] = "unborn"
  /\ phase = "spawn" => /\ at[2] <= n
                        /\ \A t \in Tasks : task[t] = "unborn" <=> ~Passed(t)
  /\ phase \in {"copy", "get"} => \A t \in Tasks : task[t] = "unborn" <=> t[2] > n

Answered ==
  /\ phase \in {"fetch", "spawn"} => answer = <<>>
  /\ phase = "get" => Len(answer) < n
  /\ \A i \in 1..Len(answer) : \A l \in Loops : task[<<l, i>>] = "succeeded"

Decided ==
  /\ outcome # "none" => phase \in {"unwind", "returned"}
  /\ outcome = "ok" => Len(answer) = n

Inv == Types /\ Started /\ Answered /\ Decided

\* rpc_fetch returns rows or throws.
LEMMA FetchStep == Inv /\ Fetch => Inv'
<1> SUFFICES ASSUME Inv, Fetch PROVE Inv'
  OBVIOUS
<1> USE SizesAssumption DEF Fetch, Leave
<1>1. Types'
  BY DEF Inv, Types, Phases, Answered
<1>2. Started'
  <2>1. at = <<1, 1>> /\ \A t \in Tasks : task[t] = "unborn"
    BY DEF Inv, Started
  <2>2. \A t \in Tasks : t[1] \in Nat /\ t[1] >= 1 /\ t[2] \in Nat /\ t[2] >= 1
    BY DEF Tasks, Loops, Index
  <2>3. \A t \in Tasks : ~Passed(t)'
    BY <2>1, <2>2 DEF Passed
  <2> QED
    BY <2>1, <2>2, <2>3 DEF Started, Inv, Types
<1>3. Answered' /\ Decided'
  BY DEF Inv, Answered, Decided, Types
<1> QED
  BY <1>1, <1>2, <1>3 DEF Inv

\* One iteration starts one thread and moves on.
LEMMA SpawnStep == Inv /\ Spawn => Inv'
<1> SUFFICES ASSUME Inv, Spawn PROVE Inv'
  OBVIOUS
<1> USE SizesAssumption
<1>1. PICK l \in Loops, i \in Index : at = <<l, i>> /\ i <= n /\ phase = "spawn"
  BY DEF Inv, Types, Started, Tasks, Spawn
<1>2. /\ slot' = [slot EXCEPT ![l] = i] /\ recent' = i
      /\ task' = [task EXCEPT ![<<l, i>>] = "started"]
      /\ UNCHANGED <<n, read, answer, outcome>>
      /\ \/ i < n /\ at' = <<l, i + 1>> /\ phase' = "spawn"
         \/ i = n /\ l < NumLoops /\ at' = <<l + 1, 1>> /\ phase' = "spawn"
         \/ i = n /\ l = NumLoops /\ at' = <<1, 1>> /\ phase' = "copy"
  BY <1>1 DEF Spawn
<1>3. l \in 1..NumLoops /\ i \in 1..MaxRows /\ n \in 0..MaxRows
  BY DEF Inv, Types, Loops, Index
<1>4. at' \in Tasks
  BY <1>2, <1>3 DEF Tasks, Loops, Index
<1>5. Types'
  <2>1. slot' \in [Loops -> 0..MaxRows] /\ recent' \in 0..MaxRows
    BY <1>2, <1>3 DEF Inv, Types
  <2>2. task' \in [Tasks -> TaskStates] /\ phase' \in Phases
    BY <1>2 DEF Inv, Types, TaskStates, Phases
  <2> QED
    BY <1>2, <1>4, <2>1, <2>2 DEF Inv, Types
<1>6. \A t \in Tasks : task'[t] = IF t = <<l, i>> THEN "started" ELSE task[t]
  BY <1>2 DEF Inv, Types
<1>7. \A t \in Tasks : task[t] = "unborn" <=> ~(t[2] <= n /\ (t[1] < l \/ (t[1] = l /\ t[2] < i)))
  BY <1>1 DEF Inv, Started, Passed
<1>8. \A t \in Tasks : /\ t[1] \in 1..NumLoops /\ t[2] \in 1..MaxRows
                       /\ t = <<l, i>> <=> t[1] = l /\ t[2] = i
  BY DEF Tasks, Loops, Index
<1>9. Started'
  <2>1. CASE i < n /\ at' = <<l, i + 1>> /\ phase' = "spawn"
    BY <2>1, <1>2, <1>3, <1>6, <1>7, <1>8 DEF Started, Passed
  <2>2. CASE i = n /\ l < NumLoops /\ at' = <<l + 1, 1>> /\ phase' = "spawn"
    BY <2>2, <1>2, <1>3, <1>6, <1>7, <1>8 DEF Started, Passed
  <2>3. CASE i = n /\ l = NumLoops /\ at' = <<1, 1>> /\ phase' = "copy"
    BY <2>3, <1>2, <1>3, <1>6, <1>7, <1>8 DEF Started
  <2> QED
    BY <1>2, <2>1, <2>2, <2>3
<1>10. answer' = <<>>
  BY <1>1, <1>2 DEF Inv, Answered
<1>11. Answered' /\ Decided'
  BY <1>1, <1>2, <1>3, <1>10 DEF Inv, Answered, Decided
<1> QED
  BY <1>5, <1>9, <1>11 DEF Inv

\* A row is answered from the results of its own threads, which have succeeded.
LEMMA GetStep == Inv /\ Get => Inv'
<1> SUFFICES ASSUME Inv, Get PROVE Inv'
  OBVIOUS
<1> DEFINE row == [l \in Loops |-> read[<<l, Current>>]]
<1>1. /\ phase = "get" /\ phase' = "copy" /\ answer' = Append(answer, row)
      /\ \A l \in Loops : task[<<l, Current>>] = "succeeded"
      /\ UNCHANGED <<n, at, slot, recent, task, read, outcome>>
  BY DEF Get, Answer, State
<1>2. Len(answer) \in Nat /\ Len(answer) < n /\ n \in 0..MaxRows
  BY <1>1 DEF Inv, Types, Answered
<1>3. Current \in Index
  BY <1>2, SizesAssumption DEF Current, Index
<1>4. row \in Rows
  <2>1. \A l \in Loops : <<l, Current>> \in Tasks
    BY <1>3 DEF Tasks
  <2>2. \A l \in Loops : read[<<l, Current>>] \in 0..MaxRows
    BY <2>1 DEF Inv, Types
  <2> QED
    BY <2>2 DEF Rows
<1> HIDE DEF row
<1>5. /\ answer' \in Seq(Rows) /\ Len(answer') = Current
      /\ \A i \in 1..Len(answer) : answer'[i] = answer[i]
      /\ answer'[Current] = row
  BY <1>1, <1>2, <1>4 DEF Current, Inv, Types
<1>7. Types'
  BY <1>1, <1>2, <1>5 DEF Inv, Types, Phases, Current
<1>8. Answered'
  <2>1. ASSUME NEW i \in 1..Len(answer')
        PROVE  \A l \in Loops : task'[<<l, i>>] = "succeeded"
    <3>1. i = Current \/ i \in 1..Len(answer)
      BY <1>2, <1>5 DEF Current
    <3>2. CASE i = Current
      BY <3>2, <1>1
    <3>3. CASE i \in 1..Len(answer)
      BY <3>3, <1>1, <1>5 DEF Inv, Answered
    <3> QED
      BY <3>1, <3>2, <3>3
  <2> QED
    BY <2>1, <1>1 DEF Answered
<1>9. Started' /\ Decided'
  BY <1>1 DEF Inv, Started, Decided, Running, Types
<1> QED
  BY <1>7, <1>8, <1>9 DEF Inv

\* The other steps of the handler's thread leave the threads alone.
LEMMA LeaveStep ==
  Inv /\ (SpawnFails \/ CopyRow \/ GetThrows \/ Done \/ Return) => Inv'
<1> SUFFICES ASSUME Inv, SpawnFails \/ CopyRow \/ GetThrows \/ Done \/ Return
             PROVE  Inv'
  OBVIOUS
<1> USE DEF Phases, Leave
<1>1. CASE SpawnFails
  <2>1. Types'
    BY <1>1 DEF SpawnFails, Inv, Types, Tasks, Loops, Index
  <2> QED
    BY <2>1, <1>1
       DEF SpawnFails, Inv, Started, Answered, Decided, Types, Running
<1>2. CASE CopyRow
  <2>1. Len(answer) + 1 \in 0..MaxRows
    <3>1. Len(answer) \in Nat /\ n \in 0..MaxRows /\ Len(answer) < n
      BY <1>2 DEF CopyRow, Inv, Types
    <3> QED
      BY <3>1, SizesAssumption
  <2>2. Types'
    BY <1>2, <2>1 DEF CopyRow, Inv, Types
  <2> QED
    BY <2>2, <1>2
       DEF CopyRow, Inv, Started, Answered, Decided, Types, Running
<1>3. CASE GetThrows
  BY <1>3 DEF GetThrows, Inv, Started, Answered, Decided, Types, Running
<1>4. CASE Done
  BY <1>4 DEF Done, Inv, Started, Answered, Decided, Types, Running
<1>5. CASE Return
  BY <1>5 DEF Return, Inv, Started, Answered, Decided, Types, Running
<1> QED
  BY <1>1, <1>2, <1>3, <1>4, <1>5

\* A thread reads a row, calls, and is answered; only a running one does.
LEMMA ThreadStep ==
  ASSUME Inv, NEW t \in Tasks, Thread(t)
  PROVE  Inv'
<1>1. /\ task[t] \in {"started", "calling"}
      /\ task' \in [Tasks -> TaskStates] /\ task'[t] \notin {"unborn"}
      /\ \A s \in Tasks \ {t} : task'[s] = task[s]
      /\ UNCHANGED <<phase, n, at, slot, recent, answer, outcome>>
  BY DEF Thread, Read, Reply, Inv, Types, TaskStates
<1>2. read' \in [Tasks -> 0..MaxRows]
  <2>1. CASE Read(t)
    <3>1. PICK r \in {slot[l] : l \in t[1]..NumLoops} \cup {recent} :
            read' = [read EXCEPT ![t] = r]
      BY <2>1 DEF Read
    <3>2. \A l \in t[1]..NumLoops : l \in Loops
      BY DEF Tasks, Loops
    <3>3. r \in 0..MaxRows
      BY <3>2 DEF Inv, Types
    <3> QED
      BY <3>1, <3>3 DEF Inv, Types
  <2>2. CASE Reply(t)
    BY <2>2 DEF Reply, Inv, Types
  <2> QED
    BY <2>1, <2>2 DEF Thread
<1>3. Types'
  BY <1>1, <1>2 DEF Inv, Types
<1>4. \A s \in Tasks : task'[s] = "unborn" <=> task[s] = "unborn"
  BY <1>1
<1>5. Started'
  BY <1>1, <1>4 DEF Inv, Started, Passed
<1>7. Answered'
  <2>1. \A i \in 1..Len(answer), l \in Loops : <<l, i>> \in Tasks
    <3>1. Len(answer) \in Nat /\ n \in 0..MaxRows /\ Len(answer) <= n
      BY DEF Inv, Types
    <3>2. \A i \in 1..Len(answer) : i \in Index
      BY <3>1, SizesAssumption DEF Index
    <3> QED
      BY <3>2 DEF Tasks
  <2>2. \A i \in 1..Len(answer), l \in Loops : task'[<<l, i>>] = "succeeded"
    BY <1>1, <2>1 DEF Inv, Answered
  <2> QED
    BY <2>2, <1>1 DEF Inv, Answered
<1>8. Decided'
  BY <1>1 DEF Inv, Decided
<1> QED
  BY <1>3, <1>5, <1>7, <1>8 DEF Inv

\* The invariant, of every behaviour.
LEMMA Invariance == Spec => []Inv
<1>1. Init => Inv
  BY SizesAssumption
     DEF Init, Inv, Types, Started, Answered, Decided, Phases, TaskStates, Tasks,
         Loops, Index
<1>2. Inv /\ UNCHANGED vars => Inv'
  BY DEF vars, Inv, Types, Started, Passed, Answered, Decided, Running
<1>3. Inv /\ [Next]_vars => Inv'
  BY <1>2, FetchStep, SpawnStep, GetStep, LeaveStep, ThreadStep DEF Next, Handler
<1> QED
  BY <1>1, <1>3, PTL DEF Spec

\* Type correctness, and that all threads of the rows fetched have been started
\* when the handler begins to wait for them.
THEOREM TypeCorrect == Spec => []TypeOK
<1>1. Inv => TypeOK
  BY DEF Inv, Types, Started, TypeOK
<1> QED
  BY Invariance, <1>1, PTL

\* A list call succeeds only if every thread did, with a row for each fetched.
THEOREM AllOrErrorHolds == Spec => []AllOrError
<1>1. Inv => AllOrError
  <2> SUFFICES ASSUME Inv, outcome = "ok", NEW t \in Tasks, t[2] <= n
               PROVE  task[t] = "succeeded"
    BY DEF AllOrError, Inv, Decided
  <2>1. t[2] \in 1..Len(answer) /\ t[1] \in Loops /\ t = <<t[1], t[2]>>
    BY DEF Inv, Types, Decided, Tasks, Index
  <2> QED
    BY <2>1 DEF Inv, Answered
<1> QED
  BY Invariance, <1>1, PTL

-----------------------------------------------------------------------------
(* What a thread can read *)

\* While the threads are being started, a loop that is still to come has no row
\* in its variable, and the one that goes on, or has just ended, has the last row
\* it came to.
Variables ==
  /\ phase = "fetch" => \A l \in Loops : slot[l] = 0
  /\ phase = "spawn" =>
       /\ \A l \in Loops : l > at[1] => slot[l] = 0
       /\ slot[at[1]] = at[2] - 1
       /\ at[2] > 1 => recent = at[2] - 1
       /\ at[1] > 1 /\ at[2] = 1 => recent = n /\ slot[at[1] - 1] = n

\* It holds of every behaviour.
LEMMA VariablesHold == Spec => []Variables
<1>1. Init => Variables
  BY DEF Init, Variables
<1>2. ASSUME Inv, Variables, Next
      PROVE  Variables'
  <2> USE <1>2, SizesAssumption
  <2>1. CASE Fetch
    BY <2>1 DEF Fetch, Leave, Inv, Started, Variables, Loops
  <2>2. CASE Spawn
    <3>1. PICK l \in Loops, i \in Index : at = <<l, i>>
      BY DEF Inv, Types, Tasks
    <3>2. /\ slot' = [slot EXCEPT ![l] = i] /\ recent' = i /\ phase = "spawn"
          /\ \/ at' = <<l, i + 1>>
             \/ i = n /\ n' = n /\ l < NumLoops /\ at' = <<l + 1, 1>>
             \/ phase' = "copy"
      BY <2>2, <3>1 DEF Spawn
    <3>3. l \in Nat /\ i \in Nat /\ i >= 1 /\ l \in 1..NumLoops
      BY DEF Loops, Index
    <3>4. \A m \in Loops : m > l => slot[m] = 0
      BY <3>1, <3>2 DEF Variables
    <3>5. \A m \in Loops : slot'[m] = IF m = l THEN i ELSE slot[m]
      BY <3>2 DEF Inv, Types
    <3>6. CASE at' = <<l, i + 1>>
      <4>1. at'[1] = l /\ at'[2] = i + 1 /\ recent' = i /\ phase' # "fetch"
        BY <2>2, <3>2, <3>6 DEF Spawn
      <4>2. slot'[l] = i /\ \A m \in Loops : m > l => slot'[m] = 0
        BY <3>3, <3>4, <3>5 DEF Loops
      <4> QED
        BY <3>3, <4>1, <4>2 DEF Variables
    <3>7. CASE i = n /\ n' = n /\ l < NumLoops /\ at' = <<l + 1, 1>>
      <4>1. l + 1 \in Loops /\ slot'[l + 1] = 0
        BY <3>3, <3>4, <3>5, <3>7 DEF Loops
      <4>2. \A m \in Loops : m > l + 1 => slot'[m] = 0
        BY <3>3, <3>4, <3>5 DEF Loops
      <4>3. phase' # "fetch"
        BY <2>2 DEF Spawn
      <4>4. at'[1] = l + 1 /\ at'[2] = 1
        BY <3>7
      <4>5. recent' = n' /\ slot'[at'[1] - 1] = n'
        BY <3>2, <3>3, <3>5, <3>7, <4>4
      <4> QED
        BY <4>1, <4>2, <4>3, <4>4, <4>5 DEF Variables
    <3>8. CASE phase' = "copy"
      BY <3>8 DEF Variables
    <3> QED
      BY <3>2, <3>6, <3>7, <3>8
  <2>3. CASE SpawnFails \/ CopyRow \/ Get \/ GetThrows \/ Done \/ Return
    BY <2>3 DEF SpawnFails, CopyRow, Get, GetThrows, Done, Return, Leave, Variables
  <2>4. CASE \E t \in Tasks : Thread(t)
    BY <2>4 DEF Thread, Read, Reply, Variables
  <2> QED
    BY <2>1, <2>2, <2>3, <2>4 DEF Next, Handler
<1>3. Variables /\ UNCHANGED vars => Variables'
  BY DEF vars, Variables
<1> QED
  BY <1>1, <1>2, <1>3, Invariance, PTL DEF Spec

\* Until another loop begins, a thread reads its own row or a later one.
THEOREM ReadsForwardHolds == Spec => ReadsForward
<1>1. ASSUME Inv, Variables, [Next]_vars, NEW t \in Tasks,
             phase = "spawn", at[1] = t[1] \/ at = <<t[1] + 1, 1>>,
             read'[t] # read[t]
      PROVE  read'[t] >= t[2]
  <2>1. Read(t)
    <3>1. PICK s \in Tasks : Read(s)
      BY <1>1 DEF vars, Next, Handler, Thread, Reply, Fetch, Spawn, SpawnFails,
                  CopyRow, Get, GetThrows, Done, Return
    <3>2. \A u \in Tasks \ {s} : read'[u] = read[u]
      BY <1>1, <3>1 DEF Read, Inv, Types
    <3> QED
      BY <1>1, <3>1, <3>2
  <2>2. PICK r \in {slot[l] : l \in t[1]..NumLoops} \cup {recent} :
          r # 0 /\ read' = [read EXCEPT ![t] = r]
    BY <2>1 DEF Read
  <2>3. read'[t] = r
    BY <1>1, <2>2 DEF Inv, Types
  <2>4. /\ t[1] \in 1..NumLoops /\ t[2] \in Nat /\ t[2] >= 1
        /\ at[2] \in Nat /\ at[1] \in Loops /\ NumLoops \in Nat
    BY <1>1, SizesAssumption DEF Inv, Types, Tasks, Loops, Index
  <2>5. Passed(t)
    <3>1. task[t] # "unborn"
      BY <2>1 DEF Read
    <3> QED
      BY <1>1, <3>1 DEF Inv, Started
  <2>6. CASE at[1] = t[1]
    <3>1. at[2] > 1 /\ at[2] - 1 >= t[2]
      BY <2>4, <2>5, <2>6 DEF Passed
    <3>2. recent = at[2] - 1 /\ slot[t[1]] = at[2] - 1
      BY <1>1, <2>6, <3>1 DEF Variables
    <3>3. ASSUME NEW l \in t[1]..NumLoops
          PROVE  slot[l] \in {0, at[2] - 1}
      <4>1. l \in Loops /\ (l = t[1] \/ l > at[1])
        BY <2>4, <2>6 DEF Loops
      <4> QED
        BY <1>1, <3>2, <4>1 DEF Variables
    <3>4. r = at[2] - 1
      BY <2>2, <3>2, <3>3
    <3> QED
      BY <2>3, <3>1, <3>4
  <2>7. CASE at = <<t[1] + 1, 1>>
    <3>1. at[1] = t[1] + 1 /\ at[2] = 1 /\ at[1] > 1
      BY <2>4, <2>7
    <3>2. recent = n /\ slot[t[1]] = n
      <4>1. at[1] - 1 = t[1]
        BY <2>4, <3>1
      <4> QED
        BY <1>1, <3>1, <4>1 DEF Variables
    <3>3. slot[at[1]] = 0
      BY <1>1, <3>1 DEF Variables
    <3>4. ASSUME NEW l \in t[1]..NumLoops
          PROVE  slot[l] \in {0, n}
      <4>1. l \in Loops /\ (l = t[1] \/ l = at[1] \/ l > at[1])
        BY <2>4, <3>1 DEF Loops
      <4> QED
        BY <1>1, <3>2, <3>3, <4>1 DEF Variables
    <3>5. r = n
      BY <2>2, <3>2, <3>4
    <3>6. t[2] <= n /\ n \in Nat
      BY <1>1, <2>5, SizesAssumption DEF Passed, Inv, Types
    <3> QED
      BY <2>3, <2>4, <3>5, <3>6
  <2> QED
    BY <1>1, <2>6, <2>7
<1>2. Inv /\ Variables /\ [Next]_vars =>
        [\A t \in Tasks :
           /\ phase = "spawn" /\ (at[1] = t[1] \/ at = <<t[1] + 1, 1>>)
           /\ read'[t] # read[t]
           => read'[t] >= t[2]]_vars
  BY <1>1
<1> QED
  BY Invariance, VariablesHold, <1>2, PTL DEF Spec, ReadsForward

-----------------------------------------------------------------------------
(* What the liveness rests on: steps run out, and until the end there is one *)

\* A thread finds a row in its loop's variable: it was started after the row was
\* copied there.
SlotFilled == \A t \in Tasks : task[t] # "unborn" => slot[t[1]] # 0

\* The variable is never emptied.
LEMMA SlotsFilled == Spec => []SlotFilled
<1>1. Init => SlotFilled
  BY DEF Init, SlotFilled
<1>2. ASSUME Inv, SlotFilled, Next
      PROVE  SlotFilled'
  <2> USE <1>2 DEF SlotFilled
  <2>1. CASE Spawn
    <3>1. PICK l \in Loops, i \in Index : at = <<l, i>>
      BY DEF Inv, Types, Tasks
    <3>2. slot' = [slot EXCEPT ![l] = i] /\ task' = [task EXCEPT ![<<l, i>>] = "started"]
      BY <2>1, <3>1 DEF Spawn
    <3>3. i # 0 /\ \A t \in Tasks : t[1] \in Loops
      BY DEF Index, Tasks
    <3> QED
      BY <3>2, <3>3 DEF Inv, Types
  <2>2. CASE SpawnFails
    <3>1. PICK l \in Loops, i \in Index : at = <<l, i>>
      BY DEF Inv, Types, Tasks
    <3>2. slot' = [slot EXCEPT ![l] = i] /\ task' = task
      BY <2>2, <3>1 DEF SpawnFails
    <3>3. i # 0 /\ \A t \in Tasks : t[1] \in Loops
      BY DEF Index, Tasks
    <3> QED
      BY <3>2, <3>3 DEF Inv, Types
  <2>3. CASE \E t \in Tasks : Thread(t)
    BY <2>3 DEF Thread, Read, Reply, Inv, Types
  <2>4. CASE Fetch \/ CopyRow \/ Get \/ GetThrows \/ Done \/ Return
    BY <2>4 DEF Fetch, CopyRow, Get, GetThrows, Done, Return
  <2> QED
    BY <2>1, <2>2, <2>3, <2>4 DEF Next, Handler
<1>3. SlotFilled /\ UNCHANGED vars => SlotFilled'
  BY DEF vars, SlotFilled
<1> QED
  BY <1>1, <1>2, <1>3, Invariance, PTL DEF Spec

\* A set of natural numbers has a least one.
LEMMA Least ==
  ASSUME NEW S \in SUBSET Nat, S # {}
  PROVE  \E i \in S : \A j \in S : i <= j
<1> DEFINE R == {p \in Nat \X Nat : p[1] < p[2]}
<1>1. IsWellFoundedOn(R, Nat)
  BY NatLessThanWellFounded DEF OpToRel
<1>2. PICK i \in S : \A j \in S : <<j, i>> \notin R
  <2> HIDE DEF R
  <2> QED
    BY <1>1, WFMin
<1>3. \A j \in S : ~(j < i)
  BY <1>2
<1> QED
  BY <1>3

\* The handler's thread is not blocked.
HandlerGoesOn ==
  \/ phase \in {"fetch", "spawn", "copy"}
  \/ /\ phase = "get"
     /\ \/ \A l \in Loops : State(l) = "succeeded"
        \/ \E k \in Loops : /\ State(Order[k]) = "failed"
                            /\ \A j \in 1..(k - 1) : State(Order[j]) = "succeeded"
  \/ phase = "unwind" /\ \A t \in Tasks : ~Running(t)

\* A thread is at work, with a row to read if that is what it is about to do.
ThreadGoesOn(t) ==
  \/ task[t] = "calling"
  \/ /\ task[t] = "started"
     /\ \E r \in {slot[l] : l \in t[1]..NumLoops} \cup {recent} : r # 0

\* Until the call has returned, the handler's thread can go on or one of the
\* threads it waits for can: whichever of them failed, and in whatever order.
THEOREM NeverStuck ==
  Spec => [](phase # "returned" => HandlerGoesOn \/ \E t \in Tasks : ThreadGoesOn(t))
<1>1. ASSUME Inv, SlotFilled, phase # "returned", \A t \in Tasks : ~ThreadGoesOn(t)
      PROVE  HandlerGoesOn
  <2>1. ASSUME NEW t \in Tasks
        PROVE  task[t] \notin {"started", "calling"}
    <3>1. t[1] \in t[1]..NumLoops
      BY DEF Tasks, Loops
    <3>2. task[t] = "started" => slot[t[1]] # 0
      BY <1>1 DEF SlotFilled
    <3> QED
      BY <3>1, <3>2, <1>1 DEF ThreadGoesOn
  <2>2. CASE phase = "get" /\ \E l \in Loops : State(l) # "succeeded"
    <3> DEFINE Bad == {k \in Loops : State(Order[k]) # "succeeded"}
    <3>1. Bad \in SUBSET Nat /\ Bad # {}
      BY <2>2, OrderAssumption DEF Loops
    <3>2. PICK k \in Bad : \A m \in Bad : k <= m
      <4> HIDE DEF Bad
      <4> QED
        BY <3>1, Least
    <3> DEFINE l == Order[k]
    <3>0. l \in Loops /\ k \in 1..NumLoops /\ State(l) # "succeeded"
      BY OrderAssumption DEF Loops
    <3> HIDE DEF l
    <3>3. Current \in 1..n /\ Current \in Index
      BY <1>1, <2>2, SizesAssumption DEF Inv, Types, Answered, Current, Index
    <3>4. <<l, Current>> \in Tasks
      BY <3>0, <3>3 DEF Tasks
    <3>5. State(l) # "unborn"
      <4>1. task[<<l, Current>>] = "unborn" <=> Current > n
        BY <1>1, <2>2, <3>4 DEF Inv, Started
      <4>2. ~(Current > n)
        BY <1>1, <3>3 DEF Inv, Types
      <4> QED
        BY <4>1, <4>2 DEF State
    <3>6. State(l) = "failed"
      BY <1>1, <2>1, <3>0, <3>4, <3>5 DEF State, Inv, Types, TaskStates
    <3>7. \A m \in 1..(k - 1) : m \in Loops /\ ~(k <= m)
      BY <3>0, SizesAssumption DEF Loops
    <3>8. \A m \in 1..(k - 1) : State(Order[m]) = "succeeded"
      BY <3>2, <3>7
    <3> QED
      BY <2>2, <3>6, <3>8 DEF HandlerGoesOn, l
  <2>3. CASE phase = "get" /\ \A l \in Loops : State(l) = "succeeded"
    BY <2>3 DEF HandlerGoesOn
  <2>4. CASE phase = "unwind"
    BY <2>1, <2>4 DEF HandlerGoesOn, Running
  <2> QED
    BY <1>1, <2>2, <2>3, <2>4 DEF HandlerGoesOn, Inv, Types, Phases
<1>2. Inv /\ SlotFilled =>
        (phase # "returned" => HandlerGoesOn \/ \E t \in Tasks : ThreadGoesOn(t))
  BY <1>1
<1> QED
  BY Invariance, SlotsFilled, <1>2, PTL

\* The steps the threads have left, the rows to be answered, and where the
\* handler's thread is.
In(state) == {t \in Tasks : task[t] = state}
Number(state) == Cardinality(In(state))
PhaseSteps ==
  [fetch |-> 5, spawn |-> 4, copy |-> 3, get |-> 2, unwind |-> 1, returned |-> 0]

TaskSteps == 3 * Number("unborn") + 2 * Number("started") + Number("calling")

StepsLeft == TaskSteps + 2 * (MaxRows - Len(answer)) + PhaseSteps[phase]

\* The threads are finitely many.
LEMMA SetsOfThreads ==
  ASSUME NEW S \in SUBSET Tasks
  PROVE  IsFiniteSet(S) /\ Cardinality(S) \in Nat
<1>1. IsFiniteSet(Loops) /\ IsFiniteSet(Index)
  BY SizesAssumption, FS_Interval DEF Loops, Index
<1>2. IsFiniteSet(Tasks)
  BY <1>1, FS_Product DEF Tasks
<1>3. IsFiniteSet(S)
  BY <1>2, FS_Subset
<1> QED
  BY <1>3, FS_CardinalityType

\* So their numbers are natural numbers.
LEMMA NumberType ==
  ASSUME NEW state
  PROVE  IsFiniteSet(In(state)) /\ Number(state) \in Nat
BY SetsOfThreads DEF In, Number

\* The places of the handler's thread, in their order.
LEMMA PhaseOrder ==
  /\ PhaseSteps["fetch"] = 5 /\ PhaseSteps["spawn"] = 4 /\ PhaseSteps["copy"] = 3
  /\ PhaseSteps["get"] = 2 /\ PhaseSteps["unwind"] = 1 /\ PhaseSteps["returned"] = 0
BY DEF PhaseSteps

\* A thread that changes its state leaves one number for another.
LEMMA OneMoves ==
  ASSUME Types, NEW t \in Tasks, NEW old, NEW new \in TaskStates,
         task[t] = old, old # new, task' = [task EXCEPT ![t] = new]
  PROVE  /\ Number(old)' = Number(old) - 1
         /\ Number(new)' = Number(new) + 1
         /\ \A state : state \notin {old, new} => Number(state)' = Number(state)
<1>1. task' \in [Tasks -> TaskStates] /\ task'[t] = new
      /\ \A s \in Tasks \ {t} : task'[s] = task[s]
  BY DEF Types
<1>2. /\ In(old)' = In(old) \ {t} /\ t \in In(old)
      /\ In(new)' = In(new) \cup {t} /\ t \notin In(new)
      /\ \A state : state \notin {old, new} => In(state)' = In(state)
  BY <1>1 DEF In
<1>3. /\ Cardinality(In(old) \ {t}) = Cardinality(In(old)) - 1
      /\ Cardinality(In(new) \cup {t}) = Cardinality(In(new)) + 1
  BY <1>2, NumberType, FS_RemoveElement, FS_AddElement
<1>4. /\ Number(old)' = Number(old) - 1
      /\ Number(new)' = Number(new) + 1
  BY <1>2, <1>3 DEF Number
<1>5. \A state : state \notin {old, new} => Number(state)' = Number(state)
  BY <1>2 DEF Number
<1> QED
  BY <1>4, <1>5

\* A step of a thread, or the start of one, and nothing else of importance.
LEMMA TaskMoves ==
  ASSUME Types, NEW t \in Tasks, NEW new \in TaskStates,
         task' = [task EXCEPT ![t] = new],
         \/ task[t] = "unborn" /\ new = "started"
         \/ task[t] = "started" /\ new = "calling"
         \/ task[t] = "calling" /\ new \in {"succeeded", "failed"}
  PROVE  TaskSteps' < TaskSteps
<1> USE DEF TaskSteps
<1>1. /\ Number("unborn") \in Nat /\ Number("started") \in Nat
      /\ Number("calling") \in Nat
  BY NumberType
<1>2. CASE task[t] = "unborn" /\ new = "started"
  <2>1. "started" \in TaskStates /\ task' = [task EXCEPT ![t] = "started"]
    BY <1>2
  <2>2. /\ Number("unborn")' = Number("unborn") - 1
        /\ Number("started")' = Number("started") + 1
        /\ \A state : state \notin {"unborn", "started"} =>
             Number(state)' = Number(state)
    BY <1>2, <2>1, OneMoves
  <2>3. Number("calling")' = Number("calling")
    BY <2>2
  <2> QED
    BY <1>1, <2>2, <2>3
<1>3. CASE task[t] = "started" /\ new = "calling"
  <2>1. /\ Number("started")' = Number("started") - 1
        /\ Number("calling")' = Number("calling") + 1
        /\ Number("unborn")' = Number("unborn")
    BY <1>3, OneMoves
  <2> QED
    BY <1>1, <2>1
<1>4. CASE task[t] = "calling" /\ new \in {"succeeded", "failed"}
  <2>1. /\ Number("calling")' = Number("calling") - 1
        /\ Number("unborn")' = Number("unborn")
        /\ Number("started")' = Number("started")
    BY <1>4, OneMoves
  <2> QED
    BY <1>1, <2>1
<1> QED
  BY <1>2, <1>3, <1>4

\* A call takes finitely many steps, of its own thread and the ones it starts:
\* each one brings the end nearer.
THEOREM StepsRunOut ==
  Spec => [](StepsLeft \in Nat) /\ [][StepsLeft' < StepsLeft]_vars
<1>1. ASSUME Inv
      PROVE  /\ TaskSteps \in Nat /\ PhaseSteps[phase] \in Nat
             /\ Len(answer) \in Nat /\ Len(answer) <= MaxRows
  <2>1. TaskSteps \in Nat
    BY NumberType DEF TaskSteps
  <2>2. PhaseSteps[phase] \in Nat
    BY <1>1, PhaseOrder DEF Inv, Types, Phases
  <2>3. Len(answer) \in Nat /\ Len(answer) <= n /\ n \in 0..MaxRows
    BY <1>1 DEF Inv, Types
  <2> QED
    BY <2>1, <2>2, <2>3, SizesAssumption
<1>2. Inv' => /\ TaskSteps' \in Nat /\ PhaseSteps[phase'] \in Nat
              /\ Len(answer') \in Nat
  <2>1. TaskSteps' \in Nat
    <3>1. \A state : In(state)' \in SUBSET Tasks
      BY DEF In
    <3>2. \A state : Number(state)' \in Nat
      BY <3>1, SetsOfThreads DEF Number
    <3> QED
      BY <3>2 DEF TaskSteps
  <2>2. Inv' => PhaseSteps[phase'] \in Nat
    BY PhaseOrder DEF Inv, Types, Phases
  <2>3. Inv' => Len(answer') \in Nat
    BY DEF Inv, Types
  <2> QED
    BY <2>1, <2>2, <2>3
<1>3. ASSUME Inv, Inv',
             \/ /\ TaskSteps' < TaskSteps /\ answer' = answer
                /\ PhaseSteps[phase'] <= PhaseSteps[phase]
             \/ /\ TaskSteps' = TaskSteps /\ answer' = answer
                /\ PhaseSteps[phase'] < PhaseSteps[phase]
             \/ /\ TaskSteps' = TaskSteps /\ Len(answer') = Len(answer) + 1
                /\ PhaseSteps[phase'] = PhaseSteps[phase] + 1
      PROVE  StepsLeft' < StepsLeft
  <2>1. /\ TaskSteps \in Nat /\ PhaseSteps[phase] \in Nat /\ Len(answer) \in Nat
        /\ TaskSteps' \in Nat /\ PhaseSteps[phase'] \in Nat /\ Len(answer') \in Nat
        /\ MaxRows \in Nat
    BY <1>1, <1>2, <1>3, SizesAssumption
  <2>2. StepsLeft' = TaskSteps' + 2 * (MaxRows - Len(answer')) + PhaseSteps[phase']
    BY DEF StepsLeft, PhaseSteps
  <2> QED
    BY <2>1, <2>2, <1>3 DEF StepsLeft
<1>4. ASSUME Inv, Inv', Next
      PROVE  StepsLeft' < StepsLeft
  <2>1. task' = task => TaskSteps' = TaskSteps
    BY DEF TaskSteps, Number, In
  <2>2. CASE Spawn
    <3>1. /\ phase = "spawn" /\ at \in Tasks /\ phase' \in {"spawn", "copy"}
          /\ task' = [task EXCEPT ![at] = "started"] /\ answer' = answer
      BY <2>2, <1>4 DEF Spawn, Inv, Types
    <3>2. task[at] = "unborn"
      <4>1. ~Passed(at)
        BY <3>1 DEF Passed, Tasks, Loops, Index
      <4> QED
        BY <3>1, <4>1, <1>4 DEF Inv, Started
    <3>3. TaskSteps' < TaskSteps
      BY <3>1, <3>2, <1>4, TaskMoves DEF Inv, TaskStates
    <3>4. PhaseSteps[phase'] <= PhaseSteps[phase]
      BY <3>1, PhaseOrder
    <3> QED
      BY <3>1, <3>3, <3>4, <1>3, <1>4
  <2>3. CASE \E t \in Tasks : Thread(t)
    <3>1. PICK t \in Tasks : Thread(t)
      BY <2>3
    <3>2. PICK new \in TaskStates :
            /\ task' = [task EXCEPT ![t] = new]
            /\ \/ task[t] = "started" /\ new = "calling"
               \/ task[t] = "calling" /\ new \in {"succeeded", "failed"}
            /\ phase' = phase /\ answer' = answer
      BY <3>1 DEF Thread, Read, Reply, TaskStates
    <3>3. TaskSteps' < TaskSteps
      BY <3>2, <1>4, TaskMoves DEF Inv
    <3>4. PhaseSteps[phase'] <= PhaseSteps[phase]
      <4>1. PhaseSteps[phase] \in Nat
        BY <1>1, <1>4
      <4> QED
        BY <3>2, <4>1
    <3> QED
      BY <3>2, <3>3, <3>4, <1>3, <1>4
  <2>4. CASE Get
    <3>1. /\ task' = task /\ phase = "get" /\ phase' = "copy"
          /\ \E row : answer' = Append(answer, row)
      BY <2>4 DEF Get, Answer
    <3>2. Len(answer') = Len(answer) + 1
      BY <3>1, <1>4 DEF Inv, Types
    <3>3. /\ TaskSteps' = TaskSteps
          /\ PhaseSteps[phase'] = PhaseSteps[phase] + 1
      BY <3>1, <3>2, <2>1, PhaseOrder
    <3> QED
      BY <3>2, <3>3, <1>3, <1>4
  <2>5. CASE Fetch \/ SpawnFails \/ CopyRow \/ GetThrows \/ Done \/ Return
    <3>1. task' = task /\ answer' = answer
      BY <2>5 DEF Fetch, SpawnFails, CopyRow, GetThrows, Done, Return
    <3>2. \/ phase = "fetch" /\ phase' \in {"spawn", "copy", "unwind"}
          \/ phase \in {"spawn", "copy", "get"} /\ phase' = "unwind"
          \/ phase = "copy" /\ phase' = "get"
          \/ phase = "unwind" /\ phase' = "returned"
      BY <2>5 DEF Fetch, SpawnFails, CopyRow, GetThrows, Done, Return, Leave
    <3>3. TaskSteps' = TaskSteps /\ PhaseSteps[phase'] < PhaseSteps[phase]
      BY <3>1, <3>2, <2>1, PhaseOrder
    <3> QED
      BY <3>1, <3>3, <1>3, <1>4
  <2> QED
    BY <1>4, <2>2, <2>3, <2>4, <2>5 DEF Next, Handler
<1>5. Inv => StepsLeft \in Nat
  BY <1>1, SizesAssumption DEF StepsLeft
<1> QED
  BY Invariance, <1>4, <1>5, PTL DEF Spec
=============================================================================
