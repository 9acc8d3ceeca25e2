------------------------------ MODULE Timeline ------------------------------
(***************************************************************************)
(* Posts as their readers see them, while others create and delete them.   *)
(* One client pages through list_posts; another calls list_likes, whose    *)
(* rows come from the uniquepair service and are each expanded by a call   *)
(* to the post service. Neither sees what the other does, so a behaviour   *)
(* follows one of the two.                                                 *)
(*   app/post/service/server/src/post_server.cpp                           *)
(*   app/like/service/server/src/like_server.cpp                           *)
(*   app/uniquepair/service/server/src/uniquepair_server.cpp (fetch)       *)
(***************************************************************************)
EXTENDS Posts

CONSTANTS
  Limit,    \* the page size a client asks for
  MaxLikes  \* bound: the likes there can be at a time

ASSUME LimitAssumption == Limit \in Nat \ {0} /\ MaxLikes \in Nat

VARIABLES
  client,    \* the client followed: "pager" or "lister"
  \* the pager
  reading,   \* TRUE until it has had its last page
  authors,   \* the authors whose posts it asks for: one, or all
  offset,    \* of its next page
  seen,      \* history: the posts of all its pages
  again,     \* history: the posts of its latest page that it had seen before
  since,     \* history: the posts that were listed when it began
  gone,      \* history: how many posts have gone from its list since
  came,      \* history: how many have come in since
  \* the lister
  likes,     \* the rows of the domain "like": <<account, post>>
  listing,   \* "off", "on", "ok" or "error"
  todo,      \* the rows fetched and not expanded yet
  dangling   \* history: of a row that was fetched there was no post then

pager  == <<reading, authors, offset, seen, again, since, gone, came>>
lister == <<likes, listing, todo, dangling>>
vars   == <<postVars, client, pager, lister>>

Init ==
  /\ PostsInit
  /\ client \in {"pager", "lister"}
  /\ reading = FALSE /\ authors = {} /\ offset = 0
  /\ seen = {} /\ again = {} /\ since = {} /\ gone = 0 /\ came = 0
  /\ likes = {} /\ listing = "off" /\ todo = {} /\ dangling = FALSE

-----------------------------------------------------------------------------
(* A client that pages through list_posts *)

\* What its query selects.
Listed == Active(authors)

\* ORDER BY created_at DESC LIMIT limit OFFSET skip: rows of one second are in
\* any order, another one with each query.
Before(P, Q) == \A p \in P, q \in Q : p.created_at >= q.created_at

\* mutant: an OFFSET of one row less
PagesOffByOne(rows, limit, skip) ==
  {P \in SUBSET rows : \E K \in SUBSET (rows \ P) :
     /\ Before(K, rows \ K) /\ Before(P, rows \ (K \cup P))
     /\ Cardinality(K) + 1 >= skip /\ Cardinality(P) <= limit
     /\ Cardinality(P) < limit => K \cup P = rows}

Pages(rows, limit, skip) ==
  {P \in SUBSET rows : \E K \in SUBSET (rows \ P) :
     /\ Before(K, rows \ K) /\ Before(P, rows \ (K \cup P))
     /\ Cardinality(K) <= skip /\ Cardinality(P) <= limit
     /\ Cardinality(K) < skip => K = rows
     /\ Cardinality(P) < limit => K \cup P = rows}

StartReading ==
  /\ client = "pager" /\ ~reading
  /\ reading' = TRUE /\ offset' = 0
  /\ authors' \in {{a} : a \in Authors} \cup {Authors}
  /\ since' = Ids(Active(authors'))
  /\ seen' = {} /\ again' = {} /\ gone' = 0 /\ came' = 0
  /\ UNCHANGED <<postVars, client, lister>>

\* list_posts(limit, offset); a page that is not full is the last one.
ReadPage ==
  /\ reading
  /\ \E P \in Pages(Listed, Limit, offset) :
       /\ reading' = (Cardinality(P) = Limit)
       /\ seen' = seen \cup Ids(P)
       /\ again' = Ids(P) \cap seen
  /\ offset' = IF reading' THEN offset + Limit ELSE 0
  /\ UNCHANGED <<postVars, client, authors, since, gone, came, lister>>

\* The posts change under the pager: what came into its list and went from it.
Counting ==
  /\ UNCHANGED <<reading, authors, offset, seen, again, since>>
  /\ came' = IF reading THEN came + Cardinality(Ids(Listed') \ Ids(Listed)) ELSE came
  /\ gone' = IF reading THEN gone + Cardinality(Ids(Listed) \ Ids(Listed')) ELSE gone

-----------------------------------------------------------------------------
(* Likes, and a call of list_likes *)

\* like_post: the post is not looked up and need not exist; delete_like.
Like(a, i) ==
  /\ client = "lister"
  /\ Cardinality(likes) < MaxLikes
  /\ likes' = likes \cup {<<a, i>>}
  /\ UNCHANGED <<postVars, client, pager, listing, todo, dangling>>

Unlike(l) ==
  /\ l \in likes
  /\ likes' = likes \ {l}
  /\ UNCHANGED <<postVars, client, pager, listing, todo, dangling>>

count_likes_of_post(i) == Cardinality({l \in likes : l[2] = i})

\* uniquepair's fetch. Which rows are the page is left open.
FetchLikes ==
  /\ client = "lister" /\ listing # "on"
  /\ \E P \in SUBSET likes :
       /\ Cardinality(P) <= Limit
       /\ todo' = P
       /\ dangling' = \E l \in P : l[2] \notin Ids(posts)
  /\ listing' = "on"
  /\ UNCHANGED <<postVars, client, pager, likes>>

\* retrieve_expanded_post for one row, in a thread of its own; the exception
\* of one thread becomes the answer to the call.
Expand(l) ==
  /\ listing = "on" /\ l \in todo
  /\ \/ l[2] \in Ids(posts) /\ todo' = todo \ {l} /\ UNCHANGED listing
     \/ l[2] \notin Ids(posts) /\ todo' = {} /\ listing' = "error"
  /\ UNCHANGED <<postVars, client, pager, likes, dangling>>

AnswerLikes ==
  /\ listing = "on" /\ todo = {}
  /\ listing' = "ok"
  /\ UNCHANGED <<postVars, client, pager, likes, todo, dangling>>

-----------------------------------------------------------------------------
Next ==
  \/ Tick /\ UNCHANGED <<client, pager, lister>>
  \/ Create /\ Counting /\ UNCHANGED <<client, lister>>
  \/ Remove /\ Counting /\ UNCHANGED <<client, lister>>
  \/ StartReading
  \/ ReadPage
  \/ \E a \in Authors, i \in PostIds : Like(a, i)
  \/ \E l \in likes : Unlike(l)
  \/ FetchLikes
  \/ \E l \in todo : Expand(l)
  \/ AnswerLikes

Spec == Init /\ [][Next]_vars

-----------------------------------------------------------------------------
(* Properties *)

\* The types; posts have unique ids, drawn in order; the lister reads likes.
TypeOK ==
  /\ PostsTypeOK
  /\ client \in {"pager", "lister"}
  /\ reading \in BOOLEAN /\ authors \subseteq Authors /\ offset \in Nat
  /\ seen \cup again \cup since \subseteq PostIds
  /\ gone \in Nat /\ came \in Nat
  /\ likes \subseteq Authors \X PostIds /\ todo \subseteq Authors \X PostIds
  /\ listing \in {"off", "on", "ok", "error"} /\ dangling \in BOOLEAN

\* Two posts of one second may change places from one page to the next.
Untied == {p \in Listed :
             \A q \in posts : q.created_at = p.created_at => q = p}

Newer(p) == {q \in Listed : q.created_at > p.created_at}

\* The pager has left behind the place where p is now.
Passed(p) == ~reading \/ Cardinality(Newer(p)) < offset

Missed == {p \in Untied : p.id \in since \ seen /\ Passed(p)}
Shown  == {p \in Untied : p.id \in again}

\* Offsets count from the top of a list that moves. A client that pages through
\* it misses at most as many of the posts that were there all the time as
\* others went meanwhile, and a page shows it again at most as many as came in;
\* posts of one second apart, no others.
PagesSlipOnlyByChanges ==
  /\ Cardinality(Missed) <= gone
  /\ Cardinality(Shown) <= came

\* list_likes fails, the services being up, only if a like it fetched was of a
\* post that did not exist then: deleting posts never makes it fail.
FailsOnlyOnDangling == listing = "error" => dangling

\* test_post.py: assertEqual(0, retrieved_post.n_likes) of a post just created.
NewPostHasNoLikes ==
  [][\A p \in posts' \ posts : p.active => count_likes_of_post(p.id) = 0]_posts
=============================================================================
