------------------------------- MODULE Posts --------------------------------
(***************************************************************************)
(* The post service's table and what create_post and delete_post do to it. *)
(*   app/post/service/server/src/post_server.cpp                           *)
(*   app/post/database/post_schema.sql                                     *)
(*                                                                         *)
(* A statement runs in a transaction of its own. The row of an INSERT has  *)
(* the second its transaction began in and is seen once that commits, so   *)
(* rows do not appear in the order of their created_at.                    *)
(***************************************************************************)
EXTENDS Integers, FiniteSets

CONSTANTS
  Authors,   \* account ids
  Threads,   \* threads of the post service that serve delete_post
  MaxPosts,  \* bound: the posts that can be created
  MaxTime    \* bound: the last second of the clock

ASSUME BoundsAssumption == MaxPosts \in Nat /\ MaxTime \in Nat

VARIABLES
  clock,      \* the second now() is in
  posts,      \* the table Posts
  nextPost,   \* the value its SERIAL hands out next
  inserting,  \* the rows of INSERTs that are executed but not committed
  deleting    \* deleting[t]: the post delete_post of thread t may deactivate, or 0

postVars == <<clock, posts, nextPost, inserting, deleting>>

PostIds == 1..MaxPosts
Post    == [id : PostIds, created_at : 0..MaxTime, author_id : Authors,
            active : BOOLEAN]

Ids(rows) == {p.id : p \in rows}

\* build_where_clause
Active(who) == {p \in posts : p.active /\ p.author_id \in who}

PostsInit ==
  /\ clock = 0
  /\ posts = {} /\ nextPost = 1 /\ inserting = {}
  /\ deleting = [t \in Threads |-> 0]

Tick ==
  /\ clock < MaxTime
  /\ clock' = clock + 1
  /\ UNCHANGED <<posts, nextPost, inserting, deleting>>

-----------------------------------------------------------------------------
(* create_post: its INSERT *)

\* mutant: the id is read off the table
InsertRunsReusing(a) ==
  /\ nextPost \in PostIds
  /\ inserting' = inserting \cup {[id |-> nextPost, created_at |-> clock,
                                   author_id |-> a, active |-> TRUE]}
  /\ nextPost' = Cardinality(posts) + 1
  /\ UNCHANGED <<clock, posts, deleting>>

\* The id is drawn; created_at is the now() of the transaction.
InsertRuns(a) ==
  /\ nextPost \in PostIds
  /\ nextPost' = nextPost + 1
  /\ inserting' = inserting \cup {[id |-> nextPost, created_at |-> clock,
                                   author_id |-> a, active |-> TRUE]}
  /\ UNCHANGED <<clock, posts, deleting>>

InsertCommits(p) ==
  /\ p \in inserting
  /\ posts' = posts \cup {p}
  /\ inserting' = inserting \ {p}
  /\ UNCHANGED <<clock, nextPost, deleting>>

\* The connection fails before the commit: the row is gone, its id is used up.
InsertFails(p) ==
  /\ p \in inserting
  /\ inserting' = inserting \ {p}
  /\ UNCHANGED <<clock, posts, nextPost, deleting>>

-----------------------------------------------------------------------------
(* delete_post *)

\* It reads the post and checks that the requester is its author; else it is
\* refused (TPostNotFound, TPostNotAuthorized) and changes nothing.
DeleteReads(t, requester) ==
  /\ deleting[t] = 0
  /\ \E p \in posts : /\ p.author_id = requester
                      /\ deleting' = [deleting EXCEPT ![t] = p.id]
  /\ UNCHANGED <<clock, posts, nextPost, inserting>>

\* mutant: the row is removed
RemoveRow(i) == posts' = {p \in posts : p.id # i}

\* UPDATE Posts SET active = FALSE WHERE id = %d
Deactivate(i) ==
  posts' = {IF p.id = i THEN [p EXCEPT !.active = FALSE] ELSE p : p \in posts}

DeleteWrites(t) ==
  /\ deleting[t] # 0
  /\ Deactivate(deleting[t])
  /\ deleting' = [deleting EXCEPT ![t] = 0]
  /\ UNCHANGED <<clock, nextPost, inserting>>

\* The connection fails before the commit. (When it fails after, the caller is
\* told of a failure and the table is as after DeleteWrites.)
DeleteFails(t) ==
  /\ deleting[t] # 0
  /\ deleting' = [deleting EXCEPT ![t] = 0]
  /\ UNCHANGED <<clock, posts, nextPost, inserting>>

-----------------------------------------------------------------------------
Create == \/ \E a \in Authors : InsertRuns(a)
          \/ \E p \in inserting : InsertCommits(p) \/ InsertFails(p)

Remove == \E t \in Threads :
            (\E a \in Authors : DeleteReads(t, a)) \/ DeleteWrites(t) \/ DeleteFails(t)

\* The types; ids are unique, and drawn in order.
PostsTypeOK ==
  /\ clock \in 0..MaxTime
  /\ posts \subseteq Post /\ inserting \subseteq Post
  /\ \A p, q \in posts \cup inserting : p.id = q.id => p = q
  /\ nextPost \in Nat /\ \A p \in posts \cup inserting : p.id < nextPost
  /\ deleting \in [Threads -> 0..MaxPosts]
=============================================================================
