-------------------------- MODULE Relations_proofs --------------------------
(***************************************************************************)
(* Proofs about Relations, for any sets of accounts, posts and server      *)
(* threads and any number of ids.                                          *)
(*                                                                         *)
(* Two facts about the table carry everything: no two rows share an id or  *)
(* a pair, and a step only adds rows whose id was never handed out.  The   *)
(* second is why the owner that a deletion checked is still the owner when *)
(* it removes the row, however long ago the check was.                     *)
(***************************************************************************)
EXTENDS Relations, FiniteSetTheorems, FunctionTheorems, TLAPS

OnePerId   == \A r, s \in rows : r.id = s.id => r = s
OnePerPair == \A r, s \in rows :
  r.domain = s.domain /\ r.first = s.first /\ r.second = s.second => r = s

\* The invariant of the table.
TableInv ==
  /\ rows \subseteq Row
  /\ nextId \in 1..(MaxId + 1)
  /\ \A r \in rows : r.id < nextId
  /\ OnePerId
  /\ OnePerPair

\* The part of the type invariant that is about the handlers.
HandlersOK ==
  /\ pc \in [Handlers -> {"idle", "called", "checked", "answered"}]
  /\ req \in [Handlers -> Requests \cup {NoReq}]
  /\ ans \in [Handlers -> Answers]
  /\ \A h \in Handlers :
       /\ req[h] \in IF pc[h] = "idle" THEN {NoReq} ELSE Requests
       /\ ans[h] \in IF pc[h] = "answered" THEN Answers \ {"none"} ELSE {"none"}

Inv == TableInv /\ HandlersOK /\ CheckedStillOwned

\* What every step does to the table, seen from a thread that has checked a row.
OnlyNewIds ==
  /\ nextId' >= nextId
  /\ \A r \in rows' : r \in rows \/ r.id >= nextId

-----------------------------------------------------------------------------
(* The table *)

\* INSERT of a pair keeps ids and pairs unique.
LEMMA InsertTable ==
  ASSUME TableInv, NEW d \in Domains, NEW f \in Accounts, NEW s \in Elems,
         Insert(d, f, s)
  PROVE  TableInv' /\ OnlyNewIds
<1> DEFINE new == [id |-> nextId, domain |-> d, first |-> f, second |-> s]
<1>1. new \in Row /\ rows' = rows \cup {new} /\ nextId' = nextId + 1
  BY DEF Insert, Row
<1>2. nextId \in Nat /\ nextId <= MaxId /\ MaxId \in Nat
  BY MaxIdAssumption DEF Insert, Ids
<1>3. nextId' \in 1..(MaxId + 1) /\ nextId' > nextId
  BY <1>1, <1>2
<1>4. \A r \in rows : r.id < nextId /\ r.id \in Nat /\ r.id # nextId
  BY <1>2 DEF TableInv, Row, Ids
<1>5. \A r \in rows : ~(r.domain = d /\ r.first = f /\ r.second = s)
  BY DEF Insert, find, Matching
<1>6. \A r \in rows' : r.id < nextId'
  BY <1>1, <1>2, <1>4
<1>7. OnePerId'
  BY <1>1, <1>4 DEF OnePerId, TableInv
<1>8. OnePerPair'
  BY <1>1, <1>5 DEF OnePerPair, TableInv
<1>9. OnlyNewIds
  BY <1>1, <1>2, <1>3 DEF OnlyNewIds
<1> QED
  BY <1>1, <1>3, <1>6, <1>7, <1>8, <1>9 DEF TableInv

\* A refused INSERT uses up an id at most.
LEMMA RefusedTable ==
  ASSUME TableInv, InsertRefused
  PROVE  TableInv' /\ OnlyNewIds
<1>1. rows' = rows /\ nextId' \in {nextId, nextId + 1}
  BY DEF InsertRefused
<1>2. nextId \in Nat /\ MaxId \in Nat /\ nextId >= 1
  BY MaxIdAssumption DEF TableInv
<1>3. \A r \in rows : r.id < nextId /\ r.id \in Nat
  BY <1>2 DEF TableInv, Row, Ids
<1>4. nextId' \in 1..(MaxId + 1)
  <2>1. CASE nextId' = nextId
    BY <2>1 DEF TableInv
  <2>2. CASE nextId \in Ids /\ nextId' = nextId + 1
    BY <2>2, <1>2 DEF Ids
  <2> QED
    BY <2>1, <2>2 DEF InsertRefused
<1>5. nextId' >= nextId /\ \A r \in rows' : r.id < nextId'
  BY <1>1, <1>2, <1>3
<1>6. OnePerId' /\ OnePerPair' /\ OnlyNewIds
  BY <1>1, <1>5 DEF TableInv, OnePerId, OnePerPair, OnlyNewIds
<1> QED
  BY <1>1, <1>4, <1>5, <1>6 DEF TableInv

\* Removing rows keeps what is true of all of them.
LEMMA DeleteTable ==
  ASSUME TableInv, NEW i, Delete(i)
  PROVE  TableInv' /\ OnlyNewIds
<1>1. rows' \subseteq rows /\ nextId' = nextId
  BY DEF Delete
<1>2. nextId \in Nat
  BY DEF TableInv
<1> QED
  BY <1>1, <1>2 DEF TableInv, OnePerId, OnePerPair, OnlyNewIds

\* A step that leaves the table alone.
LEMMA SameTable ==
  ASSUME TableInv, UNCHANGED tableVars
  PROVE  TableInv' /\ OnlyNewIds
<1>1. rows' = rows /\ nextId' = nextId /\ nextId \in Nat
  BY DEF TableInv, tableVars
<1> QED
  BY <1>1 DEF TableInv, OnePerId, OnePerPair, OnlyNewIds

-----------------------------------------------------------------------------
(* The handlers *)

\* Nobody comes to hold a checked row, and those who hold one keep their request.
NoNewCheck ==
  \A g \in Handlers : pc'[g] = "checked" => pc[g] = "checked" /\ req'[g] = req[g]

\* A handler that answers.
LEMMA AnswerHandlers ==
  ASSUME HandlersOK, NEW h \in Handlers, pc[h] # "idle",
         NEW a \in Answers \ {"none"}, Answer(h, a)
  PROVE  HandlersOK' /\ NoNewCheck
<1>1. /\ pc' = [pc EXCEPT ![h] = "answered"]
      /\ ans' = [ans EXCEPT ![h] = a]
      /\ req' = req
  BY DEF Answer
<1>2. /\ pc' \in [Handlers -> {"idle", "called", "checked", "answered"}]
      /\ req' \in [Handlers -> Requests \cup {NoReq}]
      /\ ans' \in [Handlers -> Answers]
  BY <1>1 DEF HandlersOK
<1>3. ASSUME NEW g \in Handlers
      PROVE  /\ req'[g] \in IF pc'[g] = "idle" THEN {NoReq} ELSE Requests
             /\ ans'[g] \in IF pc'[g] = "answered" THEN Answers \ {"none"}
                            ELSE {"none"}
             /\ pc'[g] = "checked" => pc[g] = "checked" /\ req'[g] = req[g]
  <2>1. CASE g = h
    BY <1>1, <2>1 DEF HandlersOK
  <2>2. CASE g # h
    BY <1>1, <2>2 DEF HandlersOK
  <2> QED
    BY <2>1, <2>2
<1> QED
  BY <1>2, <1>3 DEF HandlersOK, NoNewCheck

\* A request arrives.
LEMMA CallHandlers ==
  ASSUME HandlersOK, NEW h \in Handlers, Call(h)
  PROVE  HandlersOK' /\ NoNewCheck
<1>1. PICK r \in Requests :
        req' = [req EXCEPT ![h] = r] /\ pc' = [pc EXCEPT ![h] = "called"]
        /\ ans' = ans /\ pc[h] = "idle"
  BY DEF Call
<1>2. /\ pc' \in [Handlers -> {"idle", "called", "checked", "answered"}]
      /\ req' \in [Handlers -> Requests \cup {NoReq}]
      /\ ans' \in [Handlers -> Answers]
  BY <1>1 DEF HandlersOK
<1>3. ASSUME NEW g \in Handlers
      PROVE  /\ req'[g] \in IF pc'[g] = "idle" THEN {NoReq} ELSE Requests
             /\ ans'[g] \in IF pc'[g] = "answered" THEN Answers \ {"none"}
                            ELSE {"none"}
             /\ pc'[g] = "checked" => pc[g] = "checked" /\ req'[g] = req[g]
  <2>1. CASE g = h
    BY <1>1, <2>1 DEF HandlersOK
  <2>2. CASE g # h
    BY <1>1, <2>2 DEF HandlersOK
  <2> QED
    BY <2>1, <2>2
<1> QED
  BY <1>2, <1>3 DEF HandlersOK, NoNewCheck

\* A handler is free again.
LEMMA ReturnHandlers ==
  ASSUME HandlersOK, NEW h \in Handlers, Return(h)
  PROVE  HandlersOK' /\ NoNewCheck
<1>1. /\ pc' = [pc EXCEPT ![h] = "idle"]
      /\ req' = [req EXCEPT ![h] = NoReq]
      /\ ans' = [ans EXCEPT ![h] = "none"]
  BY DEF Return
<1>2. /\ pc' \in [Handlers -> {"idle", "called", "checked", "answered"}]
      /\ req' \in [Handlers -> Requests \cup {NoReq}]
      /\ ans' \in [Handlers -> Answers]
  BY <1>1 DEF HandlersOK, Answers
<1>3. ASSUME NEW g \in Handlers
      PROVE  /\ req'[g] \in IF pc'[g] = "idle" THEN {NoReq} ELSE Requests
             /\ ans'[g] \in IF pc'[g] = "answered" THEN Answers \ {"none"}
                            ELSE {"none"}
             /\ pc'[g] = "checked" => pc[g] = "checked" /\ req'[g] = req[g]
  <2>1. CASE g = h
    BY <1>1, <2>1 DEF HandlersOK
  <2>2. CASE g # h
    BY <1>1, <2>2 DEF HandlersOK
  <2> QED
    BY <2>1, <2>2
<1> QED
  BY <1>2, <1>3 DEF HandlersOK, NoNewCheck

\* What a thread checked stays true when ids are never handed out again.
LEMMA OwnedKept ==
  ASSUME TableInv, TableInv', CheckedStillOwned, OnlyNewIds, NEW g \in Handlers,
         pc[g] = "checked", req'[g] = req[g]
  PROVE  /\ req'[g] \in Deletions
         /\ req'[g].arg < nextId'
         /\ \A r \in WithId(req[g].arg)' : r.first = req'[g].by
<1>1. /\ req[g] \in Deletions
      /\ req[g].arg < nextId
      /\ \A r \in WithId(req[g].arg) : r.first = req[g].by
  BY DEF CheckedStillOwned
<1>2. req[g].arg \in Nat /\ nextId \in Nat /\ nextId' \in Nat
  BY <1>1, MaxIdAssumption DEF Deletions, ById, Ids, TableInv
<1>3. req[g].arg < nextId'
  BY <1>1, <1>2 DEF OnlyNewIds
<1>4. ASSUME NEW r \in rows', r.id = req[g].arg
      PROVE  r \in rows
  BY <1>1, <1>2, <1>4 DEF OnlyNewIds
<1>5. \A r \in WithId(req[g].arg)' : r \in WithId(req[g].arg)
  BY <1>4 DEF WithId
<1> QED
  BY <1>1, <1>3, <1>5

\* The same for the step of any handler that makes no check.
LEMMA OwnedWithoutCheck ==
  ASSUME TableInv, TableInv', CheckedStillOwned, OnlyNewIds, NoNewCheck
  PROVE  CheckedStillOwned'
<1> SUFFICES ASSUME NEW g \in Handlers, pc'[g] = "checked"
             PROVE  /\ req'[g] \in Deletions
                    /\ req'[g].arg < nextId'
                    /\ \A r \in WithId(req[g].arg)' : r.first = req'[g].by
  BY DEF CheckedStillOwned
<1> QED
  BY OwnedKept DEF NoNewCheck

-----------------------------------------------------------------------------
(* The invariant *)

\* A creation inserts for the elements of its request.
LEMMA CreationTypes ==
  ASSUME NEW r \in Creations
  PROVE  /\ DomainOf(r.op) \in Domains
         /\ r.by \in Accounts /\ r.arg \in Elems
BY DEF Creations, DomainOf, Domains, Elems

\* What each action does to the table, and that only a get lets a thread go on
\* to remove.
LEMMA StepTable ==
  ASSUME Inv, NEW h \in Handlers,
         \/ Call(h) \/ Return(h)
         \/ RejectSelfFollow(h) \/ Create(h) \/ CreateRefused(h)
         \/ Retrieve(h) \/ Get(h) \/ Remove(h)
         \/ FailBefore(h) \/ FailAfterCreate(h) \/ FailAfterRemove(h)
  PROVE  TableInv' /\ OnlyNewIds
<1>0. TableInv
  BY DEF Inv
<1>1. CASE Call(h)
  BY <1>0, <1>1, SameTable DEF Call, tableVars
<1>2. CASE Return(h)
  BY <1>0, <1>2, SameTable DEF Return
<1>3. CASE RejectSelfFollow(h)
  BY <1>0, <1>3, SameTable DEF RejectSelfFollow
<1>4. CASE Create(h)
  BY <1>0, <1>4, CreationTypes, InsertTable DEF Create, Serving
<1>5. CASE CreateRefused(h)
  BY <1>0, <1>5, RefusedTable DEF CreateRefused
<1>6. CASE Retrieve(h)
  BY <1>0, <1>6, SameTable DEF Retrieve
<1>7. CASE Get(h)
  BY <1>0, <1>7, SameTable DEF Get
<1>8. CASE Remove(h)
  BY <1>0, <1>8, DeleteTable DEF Remove
<1>9. CASE FailBefore(h)
  BY <1>0, <1>9, SameTable DEF FailBefore
<1>10. CASE FailAfterCreate(h)
  BY <1>0, <1>10, CreationTypes, InsertTable DEF FailAfterCreate, Serving
<1>11. CASE FailAfterRemove(h)
  BY <1>0, <1>11, DeleteTable DEF FailAfterRemove
<1> QED
  BY <1>1, <1>2, <1>3, <1>4, <1>5, <1>6, <1>7, <1>8, <1>9, <1>10, <1>11

\* The answers of every action that answers.
LEMMA StepAnswers ==
  ASSUME HandlersOK, NEW h \in Handlers,
         \/ RejectSelfFollow(h) \/ Create(h) \/ CreateRefused(h)
         \/ Retrieve(h) \/ Remove(h)
         \/ FailBefore(h) \/ FailAfterCreate(h) \/ FailAfterRemove(h)
  PROVE  HandlersOK' /\ NoNewCheck
<1>1. pc[h] # "idle"
  BY DEF RejectSelfFollow, Create, CreateRefused, Retrieve, Remove, FailBefore,
         FailAfterCreate, FailAfterRemove, Serving
<1>2. \E a \in Answers \ {"none"} : Answer(h, a)
  <2>1. {"ok", "invalid", "exists", "not_found", "error"} \subseteq Answers \ {"none"}
    BY DEF Answers
  <2> QED
    BY <2>1 DEF RejectSelfFollow, Create, CreateRefused, Retrieve, Remove,
                FailBefore, FailAfterCreate, FailAfterRemove
<1> QED
  BY <1>1, <1>2, AnswerHandlers

\* The get of a deletion that goes on to remove: the requester owns the row.
LEMMA CheckStep ==
  ASSUME Inv, TableInv', OnlyNewIds, NEW h \in Handlers, Serving(h, Deletions),
         WithId(req[h].arg) # {}, \E r \in WithId(req[h].arg) : r.first = req[h].by,
         pc' = [pc EXCEPT ![h] = "checked"], UNCHANGED <<req, ans, rows, nextId>>
  PROVE  HandlersOK' /\ CheckedStillOwned'
<1>1. HandlersOK'
  <2>1. /\ pc' \in [Handlers -> {"idle", "called", "checked", "answered"}]
        /\ req' \in [Handlers -> Requests \cup {NoReq}]
        /\ ans' \in [Handlers -> Answers]
    BY DEF Inv, HandlersOK
  <2>2. ASSUME NEW g \in Handlers
        PROVE  /\ req'[g] \in IF pc'[g] = "idle" THEN {NoReq} ELSE Requests
               /\ ans'[g] \in IF pc'[g] = "answered" THEN Answers \ {"none"}
                              ELSE {"none"}
    <3>1. CASE g = h
      BY <3>1 DEF Inv, HandlersOK, Serving
    <3>2. CASE g # h
      BY <3>2 DEF Inv, HandlersOK
    <3> QED
      BY <3>1, <3>2
  <2> QED
    BY <2>1, <2>2 DEF HandlersOK
<1>2. ASSUME NEW g \in Handlers, pc'[g] = "checked"
      PROVE  /\ req'[g] \in Deletions
             /\ req'[g].arg < nextId'
             /\ \A r \in WithId(req[g].arg)' : r.first = req'[g].by
  <2>1. CASE g = h
    <3>1. PICK r \in rows : r.id = req[h].arg /\ r.first = req[h].by
      BY DEF WithId
    <3>2. r.id < nextId
      BY DEF Inv, TableInv
    <3>3. \A s \in rows : s.id = req[h].arg => s = r
      BY <3>1 DEF Inv, TableInv, OnePerId
    <3> QED
      BY <2>1, <3>1, <3>2, <3>3 DEF Serving, WithId
  <2>2. CASE g # h
    <3>1. pc[g] = "checked" /\ req'[g] = req[g]
      BY <1>2, <2>2 DEF Inv, HandlersOK
    <3> QED
      BY <3>1, OwnedKept DEF Inv
  <2> QED
    BY <2>1, <2>2
<1> QED
  BY <1>1, <1>2 DEF CheckedStillOwned

\* The three outcomes of the get of a deletion.
LEMMA GetStep ==
  ASSUME Inv, TableInv', OnlyNewIds, NEW h \in Handlers, Get(h)
  PROVE  HandlersOK' /\ CheckedStillOwned'
<1>1. Serving(h, Deletions) /\ UNCHANGED tableVars /\ pc[h] # "idle"
  BY DEF Get, Serving
<1>2. CASE \E a \in {"not_found", "not_authorized"} : Answer(h, a)
  <2>1. {"not_found", "not_authorized"} \subseteq Answers \ {"none"}
    BY DEF Answers
  <2>2. HandlersOK' /\ NoNewCheck
    BY <1>1, <1>2, <2>1, AnswerHandlers DEF Inv
  <2> QED
    BY <2>2, OwnedWithoutCheck DEF Inv
<1>3. CASE /\ WithId(req[h].arg) # {}
           /\ \E r \in WithId(req[h].arg) : r.first = req[h].by
           /\ pc' = [pc EXCEPT ![h] = "checked"]
           /\ UNCHANGED <<req, ans>>
  BY <1>1, <1>3, CheckStep DEF tableVars
<1> QED
  BY <1>2, <1>3 DEF Get

\* The invariant holds of the empty table and idle threads.
LEMMA InvInit == Init => Inv
<1> SUFFICES ASSUME Init PROVE Inv
  OBVIOUS
<1>1. TableInv
  BY MaxIdAssumption DEF Init, TableInit, TableInv, OnePerId, OnePerPair
<1>2. HandlersOK
  BY DEF Init, HandlersOK, Answers
<1>3. CheckedStillOwned
  BY DEF Init, CheckedStillOwned
<1> QED
  BY <1>1, <1>2, <1>3 DEF Inv

\* Every action of every thread keeps the invariant.
LEMMA InvNext == Inv /\ [Next]_vars => Inv'
<1> SUFFICES ASSUME Inv, [Next]_vars PROVE Inv'
  OBVIOUS
<1>1. CASE UNCHANGED vars
  <2>1. TableInv'
    BY <1>1, SameTable DEF vars, tableVars, Inv
  <2>2. HandlersOK'
    BY <1>1 DEF vars, Inv, HandlersOK
  <2>3. CheckedStillOwned'
    BY <1>1 DEF vars, Inv, CheckedStillOwned, WithId
  <2> QED
    BY <2>1, <2>2, <2>3 DEF Inv
<1>2. ASSUME NEW h \in Handlers,
             \/ Call(h) \/ Return(h)
             \/ RejectSelfFollow(h) \/ Create(h) \/ CreateRefused(h)
             \/ Retrieve(h) \/ Get(h) \/ Remove(h)
             \/ FailBefore(h) \/ FailAfterCreate(h) \/ FailAfterRemove(h)
      PROVE  Inv'
  <2>1. TableInv' /\ OnlyNewIds
    BY <1>2, StepTable
  <2>2. CASE Get(h)
    BY <2>1, <2>2, GetStep DEF Inv
  <2>3. CASE ~Get(h)
    <3>1. HandlersOK' /\ NoNewCheck
      <4>1. CASE Call(h)
        BY <4>1, CallHandlers DEF Inv
      <4>2. CASE Return(h)
        BY <4>2, ReturnHandlers DEF Inv
      <4>3. CASE ~Call(h) /\ ~Return(h)
        BY <1>2, <2>3, <4>3, StepAnswers DEF Inv
      <4> QED
        BY <4>1, <4>2, <4>3
    <3> QED
      BY <2>1, <3>1, OwnedWithoutCheck DEF Inv
  <2> QED
    BY <2>2, <2>3
<1> QED
  BY <1>1, <1>2 DEF Next

\* The invariant holds for ever.
LEMMA Invariance == Spec => []Inv
BY InvInit, InvNext, PTL DEF Spec

\* Type correctness, for any number of accounts, posts, threads and ids.
THEOREM TypeCorrect == Spec => []TypeOK
<1>1. Inv => TypeOK
  BY DEF Inv, TableInv, HandlersOK, TypeOK
<1> QED
  BY Invariance, <1>1, PTL

\* Between the check of delete_follow or delete_like and its remove, the row of
\* that id stays the requester's own or goes; it never becomes another's.
THEOREM CheckedStillOwnedHolds == Spec => []CheckedStillOwned
<1>1. Inv => CheckedStillOwned
  BY DEF Inv
<1> QED
  BY Invariance, <1>1, PTL

-----------------------------------------------------------------------------
(* Who removes rows *)

\* The actions that remove no row.
LEMMA RowsStay ==
  ASSUME Inv, NEW h \in Handlers,
         \/ Call(h) \/ Return(h)
         \/ RejectSelfFollow(h) \/ Create(h) \/ CreateRefused(h)
         \/ Retrieve(h) \/ Get(h)
         \/ FailBefore(h) \/ FailAfterCreate(h)
  PROVE  rows \subseteq rows'
BY DEF Call, Return, RejectSelfFollow, Create, CreateRefused, Retrieve, Get,
       FailBefore, FailAfterCreate, Insert, InsertRefused, tableVars

\* A row goes only at the hands of a deletion its owner asked for, and alone.
THEOREM OwnerRemovesHolds == Spec => OwnerRemoves
<1>1. Inv /\ [Next]_vars =>
        [\A r \in rows \ rows' :
           /\ rows \ rows' = {r}
           /\ \E h \in Handlers : /\ req[h] \in Deletions
                                /\ req[h].arg = r.id /\ req[h].by = r.first
                                /\ pc[h] = "checked" /\ pc'[h] = "answered"]_vars
  <2> SUFFICES ASSUME Inv, Next
               PROVE  \A r \in rows \ rows' :
                        /\ rows \ rows' = {r}
                        /\ \E h \in Handlers :
                             /\ req[h] \in Deletions
                             /\ req[h].arg = r.id /\ req[h].by = r.first
                             /\ pc[h] = "checked" /\ pc'[h] = "answered"
    OBVIOUS
  <2>1. PICK h \in Handlers :
             \/ Call(h) \/ Return(h)
             \/ RejectSelfFollow(h) \/ Create(h) \/ CreateRefused(h)
             \/ Retrieve(h) \/ Get(h) \/ Remove(h)
             \/ FailBefore(h) \/ FailAfterCreate(h) \/ FailAfterRemove(h)
    BY DEF Next
  <2>2. CASE Remove(h) \/ FailAfterRemove(h)
    <3>1. /\ pc[h] = "checked"
          /\ rows' = rows \ WithId(req[h].arg)
          /\ pc' = [pc EXCEPT ![h] = "answered"]
      BY <2>2 DEF Remove, FailAfterRemove, Delete, Answer
    <3>2. pc'[h] = "answered"
      BY <3>1 DEF Inv, HandlersOK
    <3>3. req[h] \in Deletions /\ \A r \in WithId(req[h].arg) : r.first = req[h].by
      BY <3>1 DEF Inv, CheckedStillOwned
    <3>4. ASSUME NEW r \in rows \ rows'
          PROVE  rows \ rows' = {r} /\ r.id = req[h].arg /\ r \in WithId(req[h].arg)
      BY <3>1, <3>4 DEF WithId, Inv, TableInv, OnePerId
    <3> QED
      BY <3>1, <3>2, <3>3, <3>4
  <2>3. CASE ~(Remove(h) \/ FailAfterRemove(h))
    BY <2>1, <2>3, RowsStay
  <2> QED
    BY <2>2, <2>3
<1> QED
  BY Invariance, <1>1, PTL DEF Spec, OwnerRemoves

-----------------------------------------------------------------------------
(* The counters *)

\* The table is finite: its rows are told apart by ids up to MaxId.
LEMMA FiniteTable ==
  ASSUME TableInv
  PROVE  IsFiniteSet(rows)
<1> DEFINE f == [r \in rows |-> r.id]
<1>1. \A r \in rows : r.id \in Ids
  BY DEF TableInv, Row
<1>2. f \in [rows -> Ids] /\ \A r, s \in rows : f[r] = f[s] => r = s
  BY <1>1 DEF TableInv, OnePerId
<1>3. f \in Injection(rows, Ids)
  BY <1>2 DEF Injection, IsInjective
<1>4. IsFiniteSet(Ids)
  BY MaxIdAssumption, FS_Interval DEF Ids
<1> QED
  BY <1>3, <1>4, FS_Injection

\* Counting the rows of a second element counts the first elements related to
\* it, because a pair is there once.
LEMMA CountFirsts ==
  ASSUME TableInv, NEW d, NEW F, NEW s
  PROVE  count(d, F, {s}) = Cardinality({f \in F : find(d, f, s)})
<1> DEFINE M == Matching(d, F, {s})
           S == {f \in F : find(d, f, s)}
           m == [r \in M |-> r.first]
<1>1. IsFiniteSet(M)
  BY FiniteTable, FS_Subset DEF Matching
<1>2. m \in [M -> S]
  BY DEF Matching, find
<1>3. \A a, b \in M : m[a] = m[b] => a = b
  BY DEF Matching, TableInv, OnePerPair
<1>4. \A f \in S : \E r \in M : m[r] = f
  BY DEF Matching, find
<1>5. m \in Bijection(M, S)
  BY <1>2, <1>3, <1>4, Fun_IsBij
<1>6. Cardinality(S) = Cardinality(M)
  BY <1>1, <1>5, FS_Bijection DEF ExistsBijection
<1> QED
  BY <1>6 DEF count

\* The same for the second elements of a first.
LEMMA CountSeconds ==
  ASSUME TableInv, NEW d, NEW f, NEW S
  PROVE  count(d, {f}, S) = Cardinality({s \in S : find(d, f, s)})
<1> DEFINE M == Matching(d, {f}, S)
           T == {s \in S : find(d, f, s)}
           m == [r \in M |-> r.second]
<1>1. IsFiniteSet(M)
  BY FiniteTable, FS_Subset DEF Matching
<1>2. m \in [M -> T]
  BY DEF Matching, find
<1>3. \A a, b \in M : m[a] = m[b] => a = b
  BY DEF Matching, TableInv, OnePerPair
<1>4. \A s \in T : \E r \in M : m[r] = s
  BY DEF Matching, find
<1>5. m \in Bijection(M, T)
  BY <1>2, <1>3, <1>4, Fun_IsBij
<1>6. Cardinality(T) = Cardinality(M)
  BY <1>1, <1>5, FS_Bijection DEF ExistsBijection
<1> QED
  BY <1>6 DEF count

\* Numbers of followers, followees and likes agree with the relation.
THEOREM CountsAgreeHolds == Spec => []CountsAgree
<1>1. ASSUME TableInv PROVE CountsAgree
  <2>1. ASSUME NEW a \in Accounts
        PROVE  /\ count_followers(a) =
                    Cardinality({b \in Accounts : check_follow(b, a)})
               /\ count_followees(a) =
                    Cardinality({b \in Accounts : check_follow(a, b)})
    <3>1. count("follow", Accounts, {a}) =
            Cardinality({b \in Accounts : find("follow", b, a)})
      BY <1>1, CountFirsts
    <3>2. count("follow", {a}, Accounts) =
            Cardinality({b \in Accounts : find("follow", a, b)})
      BY <1>1, CountSeconds
    <3> QED
      BY <3>1, <3>2 DEF count_followers, count_followees, check_follow
  <2>2. ASSUME NEW p \in Posts
        PROVE  count_likes_of_post(p) =
                 Cardinality({a \in Accounts : find("like", a, p)})
    BY <1>1, CountFirsts DEF count_likes_of_post
  <2>3. ASSUME NEW a \in Accounts
        PROVE  count_likes_by_account(a) =
                 Cardinality({p \in Posts : find("like", a, p)})
    BY <1>1, CountSeconds DEF count_likes_by_account
  <2> QED
    BY <2>1, <2>2, <2>3 DEF CountsAgree
<1>2. Inv => CountsAgree
  BY <1>1 DEF Inv
<1> QED
  BY Invariance, <1>2, PTL

-----------------------------------------------------------------------------
(* Refinement *)

\* An answer is the abstract one, whether the handler had checked a row or not.
LEMMA FinishStep ==
  ASSUME HandlersOK, NEW h \in Handlers, pc[h] \in {"called", "checked"},
         NEW A, NEW a \in A, Answer(h, a)
  PROVE  Atomic!Finish(h, A)
<1> DEFINE stage == [g \in Handlers |-> IF pc[g] = "checked" THEN "called" ELSE pc[g]]
<1>1. /\ pc' = [pc EXCEPT ![h] = "answered"]
      /\ ans' = [ans EXCEPT ![h] = a]
      /\ req' = req
  BY DEF Answer
<1>2. stage[h] = "called"
  OBVIOUS
<1>3. stage' = [stage EXCEPT ![h] = "answered"]
  <2>1. \A g \in Handlers : pc'[g] = IF g = h THEN "answered" ELSE pc[g]
    BY <1>1 DEF HandlersOK
  <2> QED
    BY <2>1
<1> QED
  BY <1>1, <1>2, <1>3 DEF Atomic!Finish

\* The ids ever given out.
LEMMA IssuedGrows ==
  ASSUME TableInv
  PROVE  /\ nextId \notin 1..(nextId - 1)
         /\ nextId' = nextId + 1 =>
              1..(nextId' - 1) = (1..(nextId - 1)) \cup {nextId}
         /\ nextId' = nextId => 1..(nextId' - 1) = 1..(nextId - 1)
<1>1. nextId \in Nat /\ nextId >= 1
  BY MaxIdAssumption DEF TableInv
<1> QED
  BY <1>1

\* A creation that inserts.
LEMMA CreateStep ==
  ASSUME Inv, NEW h \in Handlers, Serving(h, Creations), ~SelfFollow(req[h]),
         Insert(DomainOf(req[h].op), req[h].by, req[h].arg),
         NEW a \in {"ok", "error"}, Answer(h, a)
  PROVE  Atomic!Create(h)
<1> DEFINE r == req[h]
           new == [id |-> nextId, domain |-> DomainOf(r.op), first |-> r.by,
                   second |-> r.arg]
<1>1. /\ nextId \in Ids /\ rows' = rows \cup {new} /\ nextId' = nextId + 1
      /\ ~find(DomainOf(r.op), r.by, r.arg)
  BY DEF Insert
<1>2. r \in Creations /\ pc[h] = "called"
  BY DEF Serving
<1>3. ~Atomic!SelfFollow(r)
  BY DEF SelfFollow, Atomic!SelfFollow
<1>4. new \in RowsFor(r)
  BY <1>1 DEF RowsFor
<1>5. new.id \notin 1..(nextId - 1)
      /\ 1..(nextId' - 1) = (1..(nextId - 1)) \cup {new.id}
  BY <1>1, IssuedGrows DEF Inv
<1>6. \A s \in rows : ~Atomic!SamePair(new, s)
  BY <1>1 DEF find, Matching, Atomic!SamePair
<1>7. Atomic!Finish(h, {"ok", "error"})
  BY <1>2, FinishStep DEF Inv
<1> QED
  BY <1>1, <1>2, <1>3, <1>4, <1>5, <1>6, <1>7 DEF Atomic!Create

\* A remove that finds the row is the abstract deletion.
LEMMA DeleteStep ==
  ASSUME Inv, NEW h \in Handlers, pc[h] = "checked", Delete(req[h].arg),
         WithId(req[h].arg) # {}, NEW a \in {"ok", "error"}, Answer(h, a)
  PROVE  Atomic!Delete(h)
<1>1. /\ req[h] \in Deletions
      /\ \A r \in WithId(req[h].arg) : r.first = req[h].by
  BY DEF Inv, CheckedStillOwned
<1>2. PICK r \in WithId(req[h].arg) : TRUE
  OBVIOUS
<1>3. WithId(req[h].arg) = {r}
  BY <1>2 DEF WithId, Inv, TableInv, OnePerId
<1>4. rows' = rows \ {r} /\ nextId' = nextId
  BY <1>3 DEF Delete
<1>5. r \in Atomic!Rows(req[h].arg) /\ r.first = req[h].by
  BY <1>1, <1>2 DEF WithId, Atomic!Rows
<1>6. Atomic!Finish(h, {"ok", "error"})
  BY FinishStep DEF Inv
<1>7. 1..(nextId' - 1) = 1..(nextId - 1)
  BY <1>4
<1> QED
  BY <1>1, <1>4, <1>5, <1>6, <1>7 DEF Atomic!Delete

\* A creation is neither a deletion nor a retrieval.
LEMMA RequestKinds ==
  /\ \A r \in Creations : r \notin Deletions /\ r \notin Retrievals
  /\ \A r \in Deletions : r \notin Creations /\ r \notin Retrievals
  /\ \A r \in Retrievals : r \notin Creations /\ r \notin Deletions
BY DEF Creations, Deletions, Retrievals, ById

\* What an answer that goes with no effect says of the table.
Declines(r, a) ==
  \/ r \in Creations /\ SelfFollow(r) /\ a = "invalid"
  \/ r \in Creations /\ ~SelfFollow(r) /\ a = "exists"
  \/ r \notin Creations /\ WithId(r.arg) = {} /\ a = "not_found"
  \/ /\ r \in Deletions /\ \E s \in WithId(r.arg) : s.first # r.by
     /\ a = "not_authorized"
  \/ r \notin Creations \cup Deletions /\ WithId(r.arg) # {} /\ a = "ok"
  \/ a = "error"

\* An interval that starts at 1 grows with its end.
LEMMA LongerInterval ==
  ASSUME NEW m \in Nat, NEW n \in Nat, n >= m
  PROVE  1..(m - 1) \subseteq 1..(n - 1)
<1> SUFFICES ASSUME NEW k \in 1..(m - 1)
             PROVE  k \in 1..(n - 1)
  OBVIOUS
<1> QED
  OBVIOUS

\* An answer without effect is an abstract one.
LEMMA DeclineStep ==
  ASSUME Inv, TableInv', OnlyNewIds, rows' = rows,
         NEW h \in Handlers, pc[h] \in {"called", "checked"},
         NEW a, Declines(req[h], a), Answer(h, a)
  PROVE  Atomic!Decline(h)
<1> DEFINE r == req[h]
<1>1. \A A : a \in A => Atomic!Finish(h, A)
  BY FinishStep DEF Inv
<1>2. Atomic!Finish(h, {a})
  BY <1>1
<1>3. [g \in Handlers |-> IF pc[g] = "checked" THEN "called" ELSE pc[g]][h] = "called"
  OBVIOUS
<1>4. 1..(nextId - 1) \subseteq 1..(nextId' - 1)
  <2>1. nextId \in Nat /\ nextId' \in Nat /\ nextId' >= nextId
    BY MaxIdAssumption DEF Inv, TableInv, OnlyNewIds
  <2> QED
    BY <2>1, LongerInterval
<1>5. CASE r \in Creations /\ SelfFollow(r) /\ a = "invalid"
  BY <1>2, <1>3, <1>4, <1>5 DEF Atomic!Decline, Atomic!SelfFollow, SelfFollow
<1>6. CASE r \in Creations /\ ~SelfFollow(r) /\ a = "exists"
  BY <1>2, <1>3, <1>4, <1>6 DEF Atomic!Decline, Atomic!SelfFollow, SelfFollow
<1>7. CASE r \notin Creations /\ WithId(r.arg) = {} /\ a = "not_found"
  BY <1>2, <1>3, <1>4, <1>7 DEF Atomic!Decline, Atomic!Rows, WithId
<1>8. CASE /\ r \in Deletions /\ \E s \in WithId(r.arg) : s.first # r.by
           /\ a = "not_authorized"
  BY <1>2, <1>3, <1>4, <1>8 DEF Atomic!Decline, Atomic!Rows, WithId
<1>9. CASE r \notin Creations \cup Deletions /\ WithId(r.arg) # {} /\ a = "ok"
  BY <1>2, <1>3, <1>4, <1>9 DEF Atomic!Decline, Atomic!Rows, WithId
<1>10. CASE a = "error"
  BY <1>2, <1>3, <1>4, <1>10 DEF Atomic!Decline
<1> QED
  BY <1>5, <1>6, <1>7, <1>8, <1>9, <1>10 DEF Declines

\* What the actions that change no row answer.
LEMMA Declining ==
  ASSUME Inv, NEW h \in Handlers,
         \/ RejectSelfFollow(h) \/ CreateRefused(h) \/ Retrieve(h)
         \/ FailBefore(h)
         \/ Get(h) /\ pc'[h] = "answered"
         \/ Remove(h) /\ WithId(req[h].arg) = {}
  PROVE  /\ rows' = rows /\ pc[h] \in {"called", "checked"}
         /\ \E a : Declines(req[h], a) /\ Answer(h, a)
<1>0. HandlersOK
  BY DEF Inv
<1>1. CASE RejectSelfFollow(h)
  BY <1>1 DEF RejectSelfFollow, Serving, Declines, tableVars
<1>2. CASE CreateRefused(h)
  BY <1>2 DEF CreateRefused, Serving, Declines, InsertRefused
<1>3. CASE Retrieve(h)
  <2>1. req[h] \in Retrievals /\ req[h] \notin Creations \cup Deletions
    BY <1>3, RequestKinds DEF Retrieve, Serving
  <2>2. CASE WithId(req[h].arg) = {}
    BY <1>3, <2>1, <2>2 DEF Retrieve, Serving, Declines, tableVars
  <2>3. CASE WithId(req[h].arg) # {}
    BY <1>3, <2>1, <2>3 DEF Retrieve, Serving, Declines, tableVars
  <2> QED
    BY <2>2, <2>3
<1>4. CASE FailBefore(h)
  BY <1>4 DEF FailBefore, Declines, tableVars
<1>5. CASE Get(h) /\ pc'[h] = "answered"
  <2>1. /\ req[h] \in Deletions /\ req[h] \notin Creations
        /\ pc[h] = "called" /\ rows' = rows
    BY <1>5, RequestKinds DEF Get, Serving, tableVars
  <2>2. ~(pc' = [pc EXCEPT ![h] = "checked"])
    BY <1>0, <1>5 DEF HandlersOK
  <2>3. CASE WithId(req[h].arg) = {} /\ Answer(h, "not_found")
    BY <2>1, <2>3 DEF Declines
  <2>4. CASE /\ WithId(req[h].arg) # {}
             /\ ~(\E r \in WithId(req[h].arg) : r.first = req[h].by)
             /\ Answer(h, "not_authorized")
    BY <2>1, <2>4 DEF Declines
  <2> QED
    BY <1>5, <2>2, <2>3, <2>4 DEF Get
<1>6. CASE Remove(h) /\ WithId(req[h].arg) = {}
  <2>1. req[h] \in Deletions /\ req[h] \notin Creations /\ pc[h] = "checked"
    BY <1>6, RequestKinds DEF Remove, Inv, CheckedStillOwned
  <2>2. rows' = rows /\ Answer(h, "not_found")
    BY <1>6 DEF Remove, Delete
  <2> QED
    BY <1>6, <2>1, <2>2 DEF Declines
<1> QED
  BY <1>1, <1>2, <1>3, <1>4, <1>5, <1>6

\* The get that goes on to remove is no step of the abstract specification.
LEMMA CheckStutters ==
  ASSUME Inv, NEW h \in Handlers, Get(h), pc'[h] # "answered"
  PROVE  UNCHANGED Atomic!vars
<1>1. ~(\E a : Answer(h, a))
  BY DEF Answer, Inv, HandlersOK
<1>2. /\ pc[h] = "called" /\ pc' = [pc EXCEPT ![h] = "checked"]
      /\ req' = req /\ ans' = ans /\ rows' = rows /\ nextId' = nextId
  BY <1>1 DEF Get, Serving, tableVars
<1>3. \A g \in Handlers : pc'[g] = IF g = h THEN "checked" ELSE pc[g]
  BY <1>2 DEF Inv, HandlersOK
<1>4. [g \in Handlers |-> IF pc'[g] = "checked" THEN "called" ELSE pc'[g]]
      = [g \in Handlers |-> IF pc[g] = "checked" THEN "called" ELSE pc[g]]
  BY <1>2, <1>3
<1> QED
  BY <1>2, <1>4 DEF Atomic!vars

\* A request that arrives begins the abstract one.
LEMMA BeginStep ==
  ASSUME Inv, NEW h \in Handlers, Call(h)
  PROVE  Atomic!Begin(h)
<1> DEFINE stage == [g \in Handlers |-> IF pc[g] = "checked" THEN "called" ELSE pc[g]]
<1>1. /\ pc[h] = "idle" /\ pc' = [pc EXCEPT ![h] = "called"]
      /\ \E r \in Requests : req' = [req EXCEPT ![h] = r]
      /\ rows' = rows /\ nextId' = nextId /\ ans' = ans
  BY DEF Call
<1>2. stage[h] = "idle"
  BY <1>1
<1>3. stage' = [stage EXCEPT ![h] = "called"]
  <2>1. \A g \in Handlers : pc'[g] = IF g = h THEN "called" ELSE pc[g]
    BY <1>1 DEF Inv, HandlersOK
  <2> QED
    BY <2>1
<1> QED
  BY <1>1, <1>2, <1>3 DEF Atomic!Begin

\* A handler that returns ends the abstract request.
LEMMA EndStep ==
  ASSUME Inv, NEW h \in Handlers, Return(h)
  PROVE  Atomic!End(h)
<1> DEFINE stage == [g \in Handlers |-> IF pc[g] = "checked" THEN "called" ELSE pc[g]]
<1>1. /\ pc[h] = "answered" /\ pc' = [pc EXCEPT ![h] = "idle"]
      /\ req' = [req EXCEPT ![h] = NoReq] /\ ans' = [ans EXCEPT ![h] = "none"]
      /\ rows' = rows /\ nextId' = nextId
  BY DEF Return, tableVars
<1>2. stage[h] = "answered"
  BY <1>1
<1>3. stage' = [stage EXCEPT ![h] = "idle"]
  <2>1. \A g \in Handlers : pc'[g] = IF g = h THEN "idle" ELSE pc[g]
    BY <1>1 DEF Inv, HandlersOK
  <2> QED
    BY <2>1
<1> QED
  BY <1>1, <1>2, <1>3 DEF Atomic!End

\* Every step is an abstract step or a stutter.
LEMMA NextAtomic == Inv /\ [Next]_vars => [Atomic!Next]_(Atomic!vars)
<1> SUFFICES ASSUME Inv, [Next]_vars PROVE Atomic!Next \/ UNCHANGED Atomic!vars
  OBVIOUS
<1>1. CASE UNCHANGED vars
  BY <1>1 DEF vars, Atomic!vars
<1>2. ASSUME NEW h \in Handlers,
             \/ Call(h) \/ Return(h)
             \/ RejectSelfFollow(h) \/ Create(h) \/ CreateRefused(h)
             \/ Retrieve(h) \/ Get(h) \/ Remove(h)
             \/ FailBefore(h) \/ FailAfterCreate(h) \/ FailAfterRemove(h)
      PROVE  \/ Atomic!Begin(h) \/ Atomic!Create(h) \/ Atomic!Delete(h)
             \/ Atomic!Decline(h) \/ Atomic!End(h)
             \/ UNCHANGED Atomic!vars
  <2>1. TableInv' /\ OnlyNewIds
    BY <1>2, StepTable
  <2>2. CASE Call(h)
    BY <2>2, BeginStep
  <2>3. CASE Return(h)
    BY <2>3, EndStep
  <2>4. CASE Create(h) \/ FailAfterCreate(h)
    BY <2>4, CreateStep DEF Create, FailAfterCreate
  <2>5. CASE FailAfterRemove(h) \/ (Remove(h) /\ WithId(req[h].arg) # {})
    BY <2>5, DeleteStep DEF FailAfterRemove, Remove
  <2>6. CASE Get(h) /\ pc'[h] # "answered"
    BY <2>6, CheckStutters
  <2>7. CASE \/ RejectSelfFollow(h) \/ CreateRefused(h) \/ Retrieve(h)
             \/ FailBefore(h)
             \/ Get(h) /\ pc'[h] = "answered"
             \/ Remove(h) /\ WithId(req[h].arg) = {}
    BY <2>1, <2>7, Declining, DeclineStep
  <2> QED
    BY <1>2, <2>2, <2>3, <2>4, <2>5, <2>6, <2>7
<1> QED
  BY <1>1, <1>2 DEF Next, Atomic!Next

\* Requests are atomic for their callers: the services implement requests that
\* take effect at one instant, though a deletion is two calls with a check in
\* between and any call may fail before or after it took effect.
THEOREM RelationsImplementAtomic == Spec => ImplementsAtomic
<1>1. Init => Atomic!Init
  BY MaxIdAssumption DEF Init, TableInit, Atomic!Init
<1> QED
  BY <1>1, Invariance, NextAtomic, PTL DEF Spec, ImplementsAtomic, Atomic!Spec
=============================================================================
