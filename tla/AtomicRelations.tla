--------------------------- MODULE AtomicRelations --------------------------
(***************************************************************************)
(* What the follow and the like service promise their callers: a request   *)
(* takes effect at one instant between its call and its answer, or not at  *)
(* all, and the answer tells what happened at that instant, except that an *)
(* "error" leaves open whether it took effect, and that "exists" only      *)
(* tells that nothing was created: the pair may be absent, for every SQL   *)
(* error is answered so.  A deletion is one step that finds the row, sees  *)
(* that it is the requester's and removes it; no id is ever given to two   *)
(* rows.  Whether a row is a follow or a like is not part of the promise   *)
(* on deletion, because the code does not look.                            *)
(***************************************************************************)
CONSTANTS Handlers, NoReq, Requests, Creations, Deletions, RowsFor(_)

VARIABLES
  table,   \* the rows
  issued,  \* the ids ever given out
  stage,   \* "idle", "called" or "answered"
  request,
  answer

vars == <<table, issued, stage, request, answer>>

Init ==
  /\ table = {} /\ issued = {}
  /\ stage = [h \in Handlers |-> "idle"]
  /\ request = [h \in Handlers |-> NoReq]
  /\ answer = [h \in Handlers |-> "none"]

Begin(h) ==
  /\ stage[h] = "idle"
  /\ stage' = [stage EXCEPT ![h] = "called"]
  /\ \E r \in Requests : request' = [request EXCEPT ![h] = r]
  /\ UNCHANGED <<table, issued, answer>>

Finish(h, answers) ==
  /\ stage[h] = "called"
  /\ stage' = [stage EXCEPT ![h] = "answered"]
  /\ \E a \in answers : answer' = [answer EXCEPT ![h] = a]
  /\ UNCHANGED request

Rows(i)         == {r \in table : r.id = i}
SamePair(r, s)  == r.domain = s.domain /\ r.first = s.first /\ r.second = s.second
SelfFollow(req) == req.op = "follow_account" /\ req.by = req.arg

\* A row for the request, with an id no row ever had.
Create(h) ==
  /\ request[h] \in Creations /\ ~SelfFollow(request[h])
  /\ \E r \in RowsFor(request[h]) :
       /\ r.id \notin issued
       /\ \A s \in table : ~SamePair(r, s)
       /\ table' = table \cup {r}
       /\ issued' = issued \cup {r.id}
  /\ Finish(h, {"ok", "error"})

\* The one step in which a row goes: it is the requester's own.
Delete(h) ==
  /\ request[h] \in Deletions
  /\ \E r \in Rows(request[h].arg) :
       r.first = request[h].by /\ table' = table \ {r}
  /\ Finish(h, {"ok", "error"})
  /\ UNCHANGED issued

\* The answers that go with no effect, each with what it says of the table:
\* "exists", like "error", says nothing. A refused creation may use up an id.
Decline(h) ==
  LET req == request[h] IN
  /\ stage[h] = "called"
  /\ \/ req \in Creations /\ SelfFollow(req) /\ Finish(h, {"invalid"})
     \/ req \in Creations /\ ~SelfFollow(req) /\ Finish(h, {"exists"})
     \/ req \notin Creations /\ Rows(req.arg) = {} /\ Finish(h, {"not_found"})
     \/ /\ req \in Deletions
        /\ \E r \in Rows(req.arg) : r.first # req.by
        /\ Finish(h, {"not_authorized"})
     \/ /\ req \notin Creations \cup Deletions
        /\ Rows(req.arg) # {}
        /\ Finish(h, {"ok"})
     \/ Finish(h, {"error"})
  /\ issued \subseteq issued'
  /\ UNCHANGED table

End(h) ==
  /\ stage[h] = "answered"
  /\ stage' = [stage EXCEPT ![h] = "idle"]
  /\ request' = [request EXCEPT ![h] = NoReq]
  /\ answer' = [answer EXCEPT ![h] = "none"]
  /\ UNCHANGED <<table, issued>>

Next ==
  \E h \in Handlers : Begin(h) \/ Create(h) \/ Delete(h) \/ Decline(h) \/ End(h)

Spec == Init /\ [][Next]_vars
=============================================================================
