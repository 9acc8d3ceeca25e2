----------------------------- MODULE ListFanOut -----------------------------
(***************************************************************************)
(* One call of list_follows: fetch the rows, start a thread per row for    *)
(* the follower and another for the followee, then wait for the threads    *)
(* row by row and build the answer.  list_likes (an account and a post),   *)
(* list_posts (an author and a like count) and list_accounts (six facts    *)
(* per account) have the same shape, and each retrieve_expanded_* is the   *)
(* case of one row.                                                        *)
(* app/follow/service/server/src/follow_server.cpp                         *)
(*                                                                         *)
(* A thread captures the loop variable of its loop by reference and reads  *)
(* it when it gets to run.  The iteration may be over by then: what is     *)
(* read is what the variable's place on the stack holds.  Rows are known   *)
(* by their index, so "the index of the row read" stands for the id taken  *)
(* from it.                                                                *)
(***************************************************************************)
EXTENDS Integers, Sequences

CONSTANTS
  MaxRows,   \* bound: the most rows a fetch returns (the request's limit)
  NumLoops,  \* the loops that start threads: 2, and 6 in list_accounts
  Order      \* the loops in the order in which a row's futures are waited for;
             \* in list_accounts the second loop's before the first loop's

ASSUME SizesAssumption == MaxRows \in Nat \ {0} /\ NumLoops \in Nat \ {0}

Loops == 1..NumLoops

ASSUME OrderAssumption ==
  Order \in [Loops -> Loops] /\ \A l \in Loops : \E k \in Loops : Order[k] = l

Index == 1..MaxRows
Tasks == Loops \X Index

VARIABLES
  phase,   \* what the handler's thread is at
  n,       \* number of rows fetched
  at,      \* the loop and the index the handler's thread is at
  slot,    \* slot[l]: the row that loop l's variable holds, or held last
  recent,  \* the row the handler's thread copied most recently, in any loop
  task,    \* the state of each thread
  read,    \* the row each thread read its id from
  answer,  \* the rows answered so far: which row each part was read from
  outcome  \* "none" while undecided, else "ok" or "error"

vars == <<phase, n, at, slot, recent, task, read, answer, outcome>>

Phases     == {"fetch", "spawn", "copy", "get", "unwind", "returned"}
TaskStates == {"unborn", "started", "calling", "succeeded", "failed"}
Running(t) == task[t] \in {"started", "calling"}

Init ==
  /\ phase = "fetch" /\ n = 0 /\ at = <<1, 1>>
  /\ slot = [l \in Loops |-> 0] /\ recent = 0
  /\ task = [t \in Tasks |-> "unborn"]
  /\ read = [t \in Tasks |-> 0]
  /\ answer = <<>> /\ outcome = "none"

-----------------------------------------------------------------------------
(* The handler's thread *)

\* Leave the function, by return or by exception.
Leave(o) == phase' = "unwind" /\ outcome' = o

\* rpc_fetch
Fetch ==
  /\ phase = "fetch"
  /\ \/ Leave("error") /\ UNCHANGED n
     \/ /\ n' \in 0..MaxRows
        /\ phase' = IF n' = 0 THEN "copy" ELSE "spawn"
        /\ UNCHANGED outcome
  /\ UNCHANGED <<at, slot, recent, task, read, answer>>

\* mutant: the loop stops one row short
SpawnShort ==
  LET l == at[1]
      i == at[2]
      last == i >= n - 1
  IN
  /\ phase = "spawn"
  /\ slot' = [slot EXCEPT ![l] = i]
  /\ recent' = i
  /\ task' = [task EXCEPT ![at] = "started"]
  /\ \/ ~last /\ at' = <<l, i + 1>> /\ UNCHANGED phase
     \/ last /\ l < NumLoops /\ at' = <<l + 1, 1>> /\ UNCHANGED phase
     \/ last /\ l = NumLoops /\ at' = <<1, 1>> /\ phase' = "copy"
  /\ UNCHANGED <<n, read, answer, outcome>>

\* mutant: the thread is started before the row is copied
SpawnThenCopy ==
  LET l == at[1]
      i == at[2]
  IN
  /\ phase = "spawn"
  /\ slot' = [slot EXCEPT ![l] = i - 1]
  /\ recent' = i - 1
  /\ task' = [task EXCEPT ![at] = "started"]
  /\ \/ i < n /\ at' = <<l, i + 1>> /\ UNCHANGED phase
     \/ i = n /\ l < NumLoops /\ at' = <<l + 1, 1>> /\ UNCHANGED phase
     \/ i = n /\ l = NumLoops /\ at' = <<1, 1>> /\ phase' = "copy"
  /\ UNCHANGED <<n, read, answer, outcome>>

\* One iteration of a loop that starts threads: copy the row to the loop
\* variable, start the thread that captures it, go on.
Spawn ==
  LET l == at[1]
      i == at[2]
  IN
  /\ phase = "spawn"
  /\ slot' = [slot EXCEPT ![l] = i]
  /\ recent' = i
  /\ task' = [task EXCEPT ![at] = "started"]
  /\ \/ i < n /\ at' = <<l, i + 1>> /\ UNCHANGED phase
     \/ i = n /\ l < NumLoops /\ at' = <<l + 1, 1>> /\ UNCHANGED phase
     \/ i = n /\ l = NumLoops /\ at' = <<1, 1>> /\ phase' = "copy"
  /\ UNCHANGED <<n, read, answer, outcome>>

\* std::async throws when no thread can be started.
SpawnFails ==
  /\ phase = "spawn"
  /\ slot' = [slot EXCEPT ![at[1]] = at[2]]
  /\ recent' = at[2]
  /\ Leave("error")
  /\ UNCHANGED <<n, at, task, read, answer>>

\* auto uniquepair = uniquepairs[i]
CopyRow ==
  /\ phase = "copy" /\ Len(answer) < n
  /\ recent' = Len(answer) + 1
  /\ phase' = "get"
  /\ UNCHANGED <<n, at, slot, task, read, answer, outcome>>

Current  == Len(answer) + 1  \* the row being built
State(l) == task[<<l, Current>>]

\* The row made of the results of the current row's threads.
Answer == answer' = Append(answer, [l \in Loops |-> read[<<l, Current>>]])

\* mutant: a row whose second thread failed is answered all the same
GetHalf ==
  /\ phase = "get"
  /\ \A l \in Loops : State(l) = "succeeded" \/ (l = 2 /\ State(l) = "failed")
  /\ Answer
  /\ phase' = "copy"
  /\ UNCHANGED <<n, at, slot, recent, task, read, outcome>>

\* All futures of the row are ready with a value.
Get ==
  /\ phase = "get"
  /\ \A l \in Loops : State(l) = "succeeded"
  /\ Answer
  /\ phase' = "copy"
  /\ UNCHANGED <<n, at, slot, recent, task, read, outcome>>

\* mutant: only the first get() of a row rethrows
GetThrowsFirst ==
  /\ phase = "get" /\ State(Order[1]) = "failed"
  /\ Leave("error")
  /\ UNCHANGED <<n, at, slot, recent, task, read, answer>>

\* get() rethrows what a thread of the row threw; the row's futures are waited
\* for one after the other.
GetThrows ==
  /\ phase = "get"
  /\ \E k \in Loops : /\ State(Order[k]) = "failed"
                      /\ \A j \in 1..(k - 1) : State(Order[j]) = "succeeded"
  /\ Leave("error")
  /\ UNCHANGED <<n, at, slot, recent, task, read, answer>>

Done ==
  /\ phase = "copy" /\ Len(answer) = n
  /\ Leave("ok")
  /\ UNCHANGED <<n, at, slot, recent, task, read, answer>>

\* The vectors of futures are destroyed; the destructor of a future that
\* std::async made waits for its thread.
Return ==
  /\ phase = "unwind"
  /\ \A t \in Tasks : ~Running(t)
  /\ phase' = "returned"
  /\ UNCHANGED <<n, at, slot, recent, task, read, answer, outcome>>

-----------------------------------------------------------------------------
(* A thread *)

\* It calls rpc_retrieve_standard_account(metadata, it.first_elem), which takes
\* the id by value.  The loop variable may hold a later row by now, and once
\* its scope is over the compiler may have given its place to the variable of
\* a later loop or to the row copied in the loop that builds the answer.
Read(t) ==
  /\ task[t] = "started"
  /\ task' = [task EXCEPT ![t] = "calling"]
  /\ \E r \in {slot[l] : l \in t[1]..NumLoops} \cup {recent} :
       r # 0 /\ read' = [read EXCEPT ![t] = r]
  /\ UNCHANGED <<phase, n, at, slot, recent, answer, outcome>>

Reply(t) ==
  /\ task[t] = "calling"
  /\ \E s \in {"succeeded", "failed"} : task' = [task EXCEPT ![t] = s]
  /\ UNCHANGED <<phase, n, at, slot, recent, read, answer, outcome>>

Handler ==
  Fetch \/ Spawn \/ SpawnFails \/ CopyRow \/ Get \/ GetThrows \/ Done \/ Return
Thread(t) == Read(t) \/ Reply(t)

Next == Handler \/ \E t \in Tasks : Thread(t)

Spec == Init /\ [][Next]_vars

\* The handler's thread runs when it is not blocked, the threads it starts run,
\* and the services they call answer or fail.
Fairness == WF_vars(Handler) /\ \A t \in Tasks : WF_vars(Thread(t))
FairSpec == Spec /\ Fairness

-----------------------------------------------------------------------------
(* Properties *)

\* The types, and how far the threads are: the ones of the iterations passed
\* have been started, no other.
TypeOK ==
  /\ phase \in Phases /\ n \in 0..MaxRows /\ at \in Tasks
  /\ slot \in [Loops -> 0..MaxRows] /\ recent \in 0..MaxRows
  /\ task \in [Tasks -> TaskStates] /\ read \in [Tasks -> 0..MaxRows]
  /\ outcome \in {"none", "ok", "error"}
  /\ Len(answer) <= n
  /\ \A t \in Tasks : phase \in {"copy", "get"} =>
       (task[t] = "unborn" <=> t[2] > n)

\* A thread takes the id of an earlier row than its own only after the loop that
\* started it is over and another has begun: until then, what the thread finds in
\* the captured variable is its own row or one its loop has come to since.
ReadsForward ==
  [][\A t \in Tasks :
       /\ phase = "spawn" /\ (at[1] = t[1] \/ at = <<t[1] + 1, 1>>)
       /\ read'[t] # read[t]
       => read'[t] >= t[2]]_vars

\* A call succeeds only if every thread did, and has then one answer row per
\* row fetched: no failed row is skipped, none is repeated.
AllOrError ==
  outcome = "ok" =>
    /\ Len(answer) = n
    /\ \A t \in Tasks : t[2] <= n => task[t] = "succeeded"

\* The call returns: no order of finishing threads, and no failure, leaves the
\* handler waiting.
CallReturns == <>(phase = "returned")

\* API.md, "List follows": the follower of a follow has the id follower_id and
\* the followee the id followee_id (both 12345 and 54321 in the example).
EmbedsItsOwnAccounts ==
  \A i \in 1..Len(answer) : answer[i] = [l \in Loops |-> i]
=============================================================================
