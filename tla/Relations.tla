------------------------------ MODULE Relations -----------------------------
(***************************************************************************)
(* The follow and the like service over the uniquepair service: server     *)
(* threads of both handle requests concurrently, and an RPC to uniquepair  *)
(* is a step of its own.                                                   *)
(* app/follow/service/server/src/follow_server.cpp                         *)
(* app/like/service/server/src/like_server.cpp                             *)
(*                                                                         *)
(* Creating a follow or a like is one RPC.  Deleting one is two: get, then *)
(* (after the check that the requester owns it) remove, and anything may   *)
(* happen in between.                                                      *)
(***************************************************************************)
EXTENDS Uniquepairs

CONSTANTS
  Handlers,  \* server threads of the two services
  NoReq      \* "no request in progress"

VARIABLES
  pc,   \* pc[h] \in {"idle", "called", "checked", "answered"}
  req,  \* the request each handler serves
  ans   \* the answer it gives

vars == <<rows, nextId, pc, req, ans>>

Creations == [op : {"follow_account"}, by : Accounts, arg : Accounts]
             \cup [op : {"like_post"}, by : Accounts, arg : Posts]
ById(ops) == [op : ops, by : Accounts, arg : Ids]
Deletions == ById({"delete_follow", "delete_like"})
Retrievals ==
  ById({"retrieve_standard_follow", "retrieve_standard_like"})
Requests == Creations \cup Deletions \cup Retrievals

\* "none": not answered yet. "error": an exception that is not of the service's
\* interface (transport, database), which the gateway turns into a 500.
Answers == {"none", "ok", "invalid", "exists", "not_found", "not_authorized",
            "error"}

DomainOf(op) == IF op = "follow_account" THEN "follow" ELSE "like"

Init ==
  /\ TableInit
  /\ pc = [h \in Handlers |-> "idle"]
  /\ req = [h \in Handlers |-> NoReq]
  /\ ans = [h \in Handlers |-> "none"]

Answer(h, a) ==
  /\ pc' = [pc EXCEPT ![h] = "answered"]
  /\ ans' = [ans EXCEPT ![h] = a]
  /\ UNCHANGED req

Serving(h, reqs) == pc[h] = "called" /\ req[h] \in reqs

Call(h) ==
  /\ pc[h] = "idle"
  /\ \E r \in Requests : req' = [req EXCEPT ![h] = r]
  /\ pc' = [pc EXCEPT ![h] = "called"]
  /\ UNCHANGED <<rows, nextId, ans>>

-----------------------------------------------------------------------------
(* follow_account and like_post *)

\* Only an account may not follow itself; whether the account or the post
\* exists is not asked.
SelfFollow(r) == r.op = "follow_account" /\ r.by = r.arg

RejectSelfFollow(h) ==
  /\ Serving(h, Creations)
  /\ SelfFollow(req[h])
  /\ Answer(h, "invalid")
  /\ UNCHANGED tableVars

Create(h) ==
  LET r == req[h] IN
  /\ Serving(h, Creations)
  /\ ~SelfFollow(r)
  /\ Insert(DomainOf(r.op), r.by, r.arg)
  /\ Answer(h, "ok")

\* Said of any SQL error, so "exists" does not mean that the pair is there.
CreateRefused(h) ==
  /\ Serving(h, Creations)
  /\ ~SelfFollow(req[h])
  /\ InsertRefused
  /\ Answer(h, "exists")

-----------------------------------------------------------------------------
(* retrieve_standard_follow and retrieve_standard_like; the row they return  *)
(* is the row of that id, whatever its domain                                *)

Retrieve(h) ==
  /\ Serving(h, Retrievals)
  /\ Answer(h, IF WithId(req[h].arg) = {} THEN "not_found" ELSE "ok")
  /\ UNCHANGED tableVars

-----------------------------------------------------------------------------
(* delete_follow and delete_like *)

\* mutant: the requester is not compared with the row's first element
GetUnchecked(h) ==
  LET found == WithId(req[h].arg) IN
  /\ Serving(h, Deletions)
  /\ \/ found = {} /\ Answer(h, "not_found")
     \/ /\ found # {}
        /\ pc' = [pc EXCEPT ![h] = "checked"]
        /\ UNCHANGED <<req, ans>>
  /\ UNCHANGED tableVars

\* rpc_get, and the check that the requester is the row's first element.
Get(h) ==
  LET found == WithId(req[h].arg)
      owned == \E r \in found : r.first = req[h].by
  IN
  /\ Serving(h, Deletions)
  /\ \/ found = {} /\ Answer(h, "not_found")
     \/ found # {} /\ ~owned /\ Answer(h, "not_authorized")
     \/ /\ found # {} /\ owned
        /\ pc' = [pc EXCEPT ![h] = "checked"]
        /\ UNCHANGED <<req, ans>>
  /\ UNCHANGED tableVars

\* mutant: DELETE of no row counts as success
RemoveAlwaysOk(h) ==
  /\ pc[h] = "checked"
  /\ Delete(req[h].arg)
  /\ Answer(h, "ok")

\* rpc_remove
Remove(h) ==
  /\ pc[h] = "checked"
  /\ Delete(req[h].arg)
  /\ Answer(h, IF WithId(req[h].arg) = {} THEN "not_found" ELSE "ok")

-----------------------------------------------------------------------------
(* Failures: an RPC to uniquepair throws, before its statement ran or after  *)
(* it was committed (the reply, or the outcome of the commit, is lost)       *)

FailBefore(h) ==
  /\ pc[h] \in {"called", "checked"}
  /\ Answer(h, "error")
  /\ UNCHANGED tableVars

FailAfterCreate(h) ==
  LET r == req[h] IN
  /\ Serving(h, Creations)
  /\ ~SelfFollow(r)
  /\ Insert(DomainOf(r.op), r.by, r.arg)
  /\ Answer(h, "error")

FailAfterRemove(h) ==
  /\ pc[h] = "checked"
  /\ WithId(req[h].arg) # {}
  /\ Delete(req[h].arg)
  /\ Answer(h, "error")

Return(h) ==
  /\ pc[h] = "answered"
  /\ pc' = [pc EXCEPT ![h] = "idle"]
  /\ req' = [req EXCEPT ![h] = NoReq]
  /\ ans' = [ans EXCEPT ![h] = "none"]
  /\ UNCHANGED tableVars

Next == \E h \in Handlers :
  \/ Call(h) \/ Return(h)
  \/ RejectSelfFollow(h) \/ Create(h) \/ CreateRefused(h)
  \/ Retrieve(h) \/ Get(h) \/ Remove(h)
  \/ FailBefore(h) \/ FailAfterCreate(h) \/ FailAfterRemove(h)

Spec == Init /\ [][Next]_vars

-----------------------------------------------------------------------------
(* Queries: one RPC each, so they see the table of one instant *)

check_follow(a, b)        == find("follow", a, b)
count_followers(a)        == count("follow", Accounts, {a})
count_followees(a)        == count("follow", {a}, Accounts)
count_likes_by_account(a) == count("like", {a}, Posts)
count_likes_of_post(p)    == count("like", Accounts, {p})

-----------------------------------------------------------------------------
(* Properties *)

\* The types; a request is held while it is served, and only then; every row
\* has an id the SERIAL has passed.
TypeOK ==
  /\ rows \subseteq Row
  /\ nextId \in 1..(MaxId + 1)
  /\ \A r \in rows : r.id < nextId
  /\ pc \in [Handlers -> {"idle", "called", "checked", "answered"}]
  /\ req \in [Handlers -> Requests \cup {NoReq}]
  /\ ans \in [Handlers -> Answers]
  /\ \A h \in Handlers :
       /\ req[h] \in IF pc[h] = "idle" THEN {NoReq} ELSE Requests
       /\ ans[h] \in IF pc[h] = "answered" THEN Answers \ {"none"} ELSE {"none"}

\* What delete_follow and delete_like checked before they remove still holds
\* when they do, however long ago the check was: if there is a row of that id
\* it is the requester's own, because no id is handed out again and no row is
\* updated.
CheckedStillOwned ==
  \A h \in Handlers : pc[h] = "checked" =>
    /\ req[h] \in Deletions
    /\ req[h].arg < nextId
    /\ \A r \in WithId(req[h].arg) : r.first = req[h].by

\* A row goes only at the hands of a deletion its owner asked for, and no two
\* rows go at once.
OwnerRemoves ==
  [][\A r \in rows \ rows' :
       /\ rows \ rows' = {r}
       /\ \E h \in Handlers : /\ req[h] \in Deletions
                            /\ req[h].arg = r.id /\ req[h].by = r.first
                            /\ pc[h] = "checked" /\ pc'[h] = "answered"]_vars

\* The counters the accounts and the posts show agree with the relation: the
\* number of followers of an account is the number of accounts for which
\* check_follow says yes, no account counts twice, and as many follows come in
\* as go out. The same for likes.
CountsAgree ==
  /\ \A a \in Accounts :
       /\ count_followers(a) = Cardinality({b \in Accounts : check_follow(b, a)})
       /\ count_followees(a) = Cardinality({b \in Accounts : check_follow(a, b)})
  /\ \A p \in Posts : count_likes_of_post(p) =
       Cardinality({a \in Accounts : find("like", a, p)})
  /\ \A a \in Accounts : count_likes_by_account(a) =
       Cardinality({p \in Posts : find("like", a, p)})

RowsFor(r) == [id : Ids, domain : {DomainOf(r.op)}, first : {r.by}, second : {r.arg}]

Atomic == INSTANCE AtomicRelations WITH
  table <- rows, issued <- 1..(nextId - 1), request <- req, answer <- ans,
  stage <- [h \in Handlers |-> IF pc[h] = "checked" THEN "called" ELSE pc[h]]

\* Requests are atomic for their callers: the get, check, remove of a deletion
\* acts like one step, at the get when it is declined there and at the remove
\* otherwise.
ImplementsAtomic == Atomic!Spec

\* API.md, on DELETE /follow/:follow_id: 404 when "The requested resource does
\* not exist", so a success of delete_follow is about a follow.
DeleteFollowFindsFollow ==
  [][\A h \in Handlers :
       /\ pc[h] = "checked" /\ pc'[h] = "answered" /\ ans'[h] = "ok"
       /\ req[h].op = "delete_follow"
       => \E r \in WithId(req[h].arg) : r.domain = "follow"]_vars
=============================================================================
