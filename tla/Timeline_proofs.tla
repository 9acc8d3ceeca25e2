--------------------------- MODULE Timeline_proofs --------------------------
(***************************************************************************)
(* Theorems about Timeline, for any number of authors, posts and likes and *)
(* any page size: what pages can miss and show again, and when a list of   *)
(* likes fails.                                                            *)
(*                                                                         *)
(* The rank of a post is how many listed posts are newer. Posts that share *)
(* their second with no other have ranks of their own (RanksDiffer), and   *)
(* such a post is on a page exactly when its rank is in the page's range   *)
(* (PageHasRanks). A post that comes in or goes moves ranks by one, so at  *)
(* most one of them crosses the offset of the next page.                   *)
(***************************************************************************)
EXTENDS Timeline, FiniteSetTheorems, TLAPS

NewerIn(L, p)  == {q \in L : q.created_at > p.created_at}
RankIn(L, p)   == Cardinality(NewerIn(L, p))
UntiedIn(L, R) == {p \in L : \A q \in R : q.created_at = p.created_at => q = p}

\* A set without two elements has one at most.
LEMMA OneAtMost ==
  ASSUME NEW S, \A x, y \in S : x = y
  PROVE  IsFiniteSet(S) /\ Cardinality(S) <= 1
<1>1. CASE S = {}
  BY <1>1, FS_EmptySet
<1>2. CASE S # {}
  <2>1. PICK x \in S : TRUE
    BY <1>2
  <2>2. S = {x}
    BY <2>1
  <2>3. IsFiniteSet({x}) /\ Cardinality({x}) = 1
    BY FS_Singleton
  <2> QED
    BY <2>2, <2>3
<1> QED
  BY <1>1, <1>2

\* One more than a bound.
LEMMA OneMore ==
  ASSUME NEW S, NEW T, NEW A, IsFiniteSet(T), A \subseteq T \cup S,
         \A x, y \in S : x = y
  PROVE  IsFiniteSet(A) /\ Cardinality(A) \in Nat /\ Cardinality(A) <= Cardinality(T) + 1
<1>1. IsFiniteSet(S) /\ Cardinality(S) <= 1 /\ Cardinality(S) \in Nat
  BY OneAtMost, FS_CardinalityType
<1>2. IsFiniteSet(T \cup S) /\ Cardinality(T \cup S) <= Cardinality(T) + Cardinality(S)
  <2>1. /\ IsFiniteSet(T \cup S)
        /\ Cardinality(T \cup S) = Cardinality(T) + Cardinality(S) - Cardinality(T \cap S)
    BY <1>1, FS_Union
  <2>2. IsFiniteSet(T \cap S)
    BY <2>1, FS_Subset
  <2>3. Cardinality(T \cap S) \in Nat /\ Cardinality(T) \in Nat
    BY <2>2, FS_CardinalityType
  <2> QED
    BY <1>1, <2>1, <2>3
<1>3. IsFiniteSet(A) /\ Cardinality(A) <= Cardinality(T \cup S)
  BY <1>2, FS_Subset
<1> QED
  BY <1>1, <1>2, <1>3, FS_CardinalityType

\* Posts of seconds of their own have ranks of their own.
LEMMA RanksDiffer ==
  ASSUME NEW R \in SUBSET Post, NEW L \in SUBSET R, IsFiniteSet(L),
         NEW p \in UntiedIn(L, R), NEW q \in UntiedIn(L, R),
         RankIn(L, p) = RankIn(L, q)
  PROVE  p = q
<1>1. p.created_at \in Int /\ q.created_at \in Int /\ p \in L /\ q \in L
  BY DEF UntiedIn, Post
<1>2. \A r \in L : r.created_at \in Int
  BY DEF Post
<1>3. ASSUME NEW a \in UntiedIn(L, R), NEW b \in UntiedIn(L, R),
             a.created_at > b.created_at
      PROVE  RankIn(L, a) < RankIn(L, b)
  <2>1. a \in L /\ a.created_at \in Int /\ b.created_at \in Int
    BY <1>2 DEF UntiedIn
  <2>2. NewerIn(L, a) \subseteq NewerIn(L, b) \ {a} /\ a \in NewerIn(L, b)
    BY <1>2, <1>3, <2>1 DEF NewerIn
  <2>3. IsFiniteSet(NewerIn(L, b)) /\ IsFiniteSet(NewerIn(L, b) \ {a})
    BY FS_Subset DEF NewerIn
  <2>4. Cardinality(NewerIn(L, b) \ {a}) = Cardinality(NewerIn(L, b)) - 1
    BY <2>2, <2>3, FS_RemoveElement
  <2>5. /\ Cardinality(NewerIn(L, a)) <= Cardinality(NewerIn(L, b) \ {a})
        /\ IsFiniteSet(NewerIn(L, a))
    BY <2>2, <2>3, FS_Subset
  <2> QED
    BY <2>3, <2>4, <2>5, FS_CardinalityType DEF RankIn
<1>4. RankIn(L, p) \in Nat /\ RankIn(L, q) \in Nat
  BY FS_Subset, FS_CardinalityType DEF RankIn, NewerIn
<1>5. ~(p.created_at > q.created_at) /\ ~(q.created_at > p.created_at)
  BY <1>3, <1>4
<1>6. p.created_at = q.created_at
  BY <1>1, <1>5
<1> QED
  BY <1>1, <1>6 DEF UntiedIn

\* A post that comes in moves a rank up by one at most; one that goes, down.
LEMMA RankMoves ==
  ASSUME NEW L, IsFiniteSet(L), NEW r, NEW p
  PROVE  /\ RankIn(L, p) \in Nat /\ RankIn(L \cup {r}, p) \in Nat
         /\ RankIn(L, p) <= RankIn(L \cup {r}, p)
         /\ RankIn(L \cup {r}, p) <= RankIn(L, p) + 1
<1> DEFINE N == NewerIn(L, p)
           M == NewerIn(L \cup {r}, p)
<1>1. IsFiniteSet(N) /\ IsFiniteSet(L \cup {r}) /\ IsFiniteSet(M)
  BY FS_Subset, FS_AddElement DEF NewerIn
<1>2. N \subseteq M /\ M \subseteq N \cup {r}
  BY DEF NewerIn
<1>3. Cardinality(N) <= Cardinality(M)
  BY <1>1, <1>2, FS_Subset
<1>4. Cardinality(M) <= Cardinality(N) + 1
  <2>1. \A x, y \in {r} : x = y
    OBVIOUS
  <2> HIDE DEF N, M
  <2> QED
    BY <1>1, <1>2, <2>1, OneMore
<1> QED
  BY <1>1, <1>3, <1>4, FS_CardinalityType DEF RankIn

\* A page has the untied posts whose ranks are in its range, and no other.
LEMMA PageHasRanks ==
  ASSUME NEW R \in SUBSET Post, NEW L \in SUBSET R, IsFiniteSet(L),
         NEW skip \in Nat, NEW limit \in Nat, NEW P \in Pages(L, limit, skip),
         NEW p \in UntiedIn(L, R)
  PROVE  /\ p \in P => RankIn(L, p) >= skip /\ RankIn(L, p) < skip + limit
         /\ p \notin P /\ RankIn(L, p) >= skip =>
              Cardinality(P) = limit /\ RankIn(L, p) >= skip + limit
<1>1. PICK K \in SUBSET (L \ P) :
        /\ Before(K, L \ K) /\ Before(P, L \ (K \cup P))
        /\ Cardinality(K) <= skip /\ Cardinality(P) <= limit
        /\ Cardinality(K) < skip => K = L
        /\ Cardinality(P) < limit => K \cup P = L
  BY DEF Pages
<1>2. P \subseteq L /\ p \in L
  BY DEF Pages, UntiedIn
<1>3. /\ IsFiniteSet(K) /\ IsFiniteSet(P) /\ IsFiniteSet(NewerIn(L, p))
      /\ Cardinality(K) \in Nat /\ Cardinality(P) \in Nat /\ RankIn(L, p) \in Nat
  <2>1. K \subseteq L /\ P \subseteq L /\ NewerIn(L, p) \subseteq L
    BY <1>2 DEF NewerIn
  <2> QED
    BY <2>1, FS_Subset, FS_CardinalityType DEF RankIn
<1>4. \A q \in L : q.created_at \in Int
  BY DEF Post
<1>5. \A q \in L : q.created_at >= p.created_at /\ q # p => q \in NewerIn(L, p)
  BY <1>2, <1>4 DEF UntiedIn, NewerIn
<1>6. ASSUME p \notin K
      PROVE  K \subseteq NewerIn(L, p) /\ Cardinality(K) = skip
  <2>1. p \in L \ K
    BY <1>2, <1>6
  <2>2. \A k \in K : k \in L /\ k # p /\ k.created_at >= p.created_at
    BY <1>1, <1>6, <2>1 DEF Before
  <2> QED
    BY <2>1, <2>2, <1>1, <1>3, <1>5
<1>7. ASSUME p \in K
      PROVE  RankIn(L, p) < skip
  <2>1. NewerIn(L, p) \subseteq K \ {p}
    BY <1>1, <1>2, <1>4, <1>7 DEF NewerIn, Before
  <2>2. Cardinality(K \ {p}) = Cardinality(K) - 1 /\ IsFiniteSet(K \ {p})
    BY <1>3, <1>7, FS_RemoveElement, FS_Subset
  <2>3. Cardinality(NewerIn(L, p)) <= Cardinality(K \ {p})
    BY <2>1, <2>2, FS_Subset
  <2> QED
    BY <2>2, <2>3, <1>1, <1>3 DEF RankIn
<1>8. p \in P => RankIn(L, p) >= skip
  <2> SUFFICES ASSUME p \in P PROVE RankIn(L, p) >= skip
    OBVIOUS
  <2>1. K \subseteq NewerIn(L, p) /\ Cardinality(K) = skip
    BY <1>6
  <2> QED
    BY <2>1, <1>3, FS_Subset DEF RankIn
<1>9. ASSUME p \notin P, RankIn(L, p) >= skip
      PROVE  Cardinality(P) = limit /\ RankIn(L, p) >= skip + limit
  <2>1. p \notin K
    BY <1>7, <1>9, <1>3
  <2>2. K \subseteq NewerIn(L, p) /\ Cardinality(K) = skip
    BY <1>6, <2>1
  <2>3. p \in L \ (K \cup P) /\ Cardinality(P) = limit
    BY <2>1, <1>9, <1>1, <1>2, <1>3
  <2>4. \A q \in P : q \in L /\ q # p /\ q.created_at >= p.created_at
    BY <2>3, <1>1, <1>2 DEF Before
  <2>5. K \cup P \subseteq NewerIn(L, p)
    BY <2>2, <2>4, <1>5
  <2>6. Cardinality(K \cup P) = skip + limit
    <3>1. K \cap P = {} /\ Cardinality({}) = 0
      BY FS_EmptySet
    <3>2. Cardinality(K \cup P) = Cardinality(K) + Cardinality(P) - Cardinality(K \cap P)
      BY <1>3, FS_Union
    <3>3. Cardinality(K \cup P) = Cardinality(K) + Cardinality(P) - 0
      BY <3>1, <3>2
    <3> QED
      BY <3>3, <2>2, <2>3
  <2> QED
    BY <2>3, <2>5, <2>6, <1>3, FS_Subset DEF RankIn
<1>10. p \in P => RankIn(L, p) < skip + limit
  <2> SUFFICES ASSUME p \in P PROVE RankIn(L, p) < skip + limit
    OBVIOUS
  <2>1. NewerIn(L, p) \subseteq (K \cup P) \ {p}
    BY <1>1, <1>2, <1>4 DEF NewerIn, Before
  <2>2. /\ IsFiniteSet(K \cup P)
        /\ Cardinality(K \cup P) = Cardinality(K) + Cardinality(P) - Cardinality(K \cap P)
    BY <1>3, FS_Union
  <2>3. IsFiniteSet((K \cup P) \ {p}) /\ IsFiniteSet(K \cap P)
    BY <2>2, FS_Subset
  <2>4. Cardinality((K \cup P) \ {p}) = Cardinality(K \cup P) - 1
    BY <2>2, FS_RemoveElement
  <2>5. Cardinality(NewerIn(L, p)) <= Cardinality((K \cup P) \ {p})
    BY <2>1, <2>3, FS_Subset
  <2>6. Cardinality(K \cap P) \in Nat
    BY <2>3, FS_CardinalityType
  <2> QED
    BY <2>2, <2>4, <2>5, <2>6, <1>1, <1>3 DEF RankIn
<1> QED
  BY <1>8, <1>9, <1>10

-----------------------------------------------------------------------------
(* What one post that comes in or goes changes *)

\* The untied posts of ids in s above, and below, place o of the list.
Above(L, R, s, o) == {p \in UntiedIn(L, R) : p.id \in s /\ RankIn(L, p) < o}
Below(L, R, s, o) == {p \in UntiedIn(L, R) : p.id \in s /\ RankIn(L, p) >= o}

\* One place has one untied post.
LEMMA OnePerPlace ==
  ASSUME NEW R \in SUBSET Post, NEW L \in SUBSET R, IsFiniteSet(L), NEW o
  PROVE  \A x, y \in {p \in UntiedIn(L, R) : RankIn(L, p) = o} : x = y
  BY RanksDiffer

\* A post that comes in raises no other, and moves one at most past a place.
LEMMA ComesIn ==
  ASSUME NEW R \in SUBSET Post, NEW L \in SUBSET R, IsFiniteSet(L),
         NEW r, NEW s, r.id \notin s, NEW o \in Nat
  PROVE  /\ Above(L \cup {r}, R \cup {r}, s, o) \subseteq Above(L, R, s, o)
         /\ Cardinality(Below(L \cup {r}, R \cup {r}, s, o)) \in Nat
         /\ Cardinality(Below(L \cup {r}, R \cup {r}, s, o))
              <= Cardinality(Below(L, R, s, o)) + 1
<1> DEFINE A == Below(L \cup {r}, R \cup {r}, s, o)
           B == Below(L, R, s, o)
           S == {p \in UntiedIn(L, R) : RankIn(L, p) = o - 1}
<1>1. ASSUME NEW p \in UntiedIn(L \cup {r}, R \cup {r}), p.id \in s
      PROVE  p \in UntiedIn(L, R)
  BY <1>1 DEF UntiedIn
<1>2. Above(L \cup {r}, R \cup {r}, s, o) \subseteq Above(L, R, s, o)
  <2> SUFFICES ASSUME NEW p \in Above(L \cup {r}, R \cup {r}, s, o)
               PROVE  p \in Above(L, R, s, o)
    OBVIOUS
  <2>1. /\ p \in UntiedIn(L \cup {r}, R \cup {r})
        /\ p.id \in s /\ RankIn(L \cup {r}, p) < o
    BY DEF Above
  <2>2. p \in UntiedIn(L, R)
    BY <2>1, <1>1
  <2>3. /\ RankIn(L, p) \in Nat /\ RankIn(L \cup {r}, p) \in Nat
        /\ RankIn(L, p) <= RankIn(L \cup {r}, p)
        /\ RankIn(L \cup {r}, p) <= RankIn(L, p) + 1
    BY RankMoves
  <2>4. RankIn(L, p) < o
    BY <2>1, <2>3
  <2> QED
    BY <2>1, <2>2, <2>4 DEF Above
<1>3. A \subseteq B \cup S
  <2> SUFFICES ASSUME NEW p \in A PROVE p \in B \cup S
    OBVIOUS
  <2>1. /\ p \in UntiedIn(L \cup {r}, R \cup {r})
        /\ p.id \in s /\ RankIn(L \cup {r}, p) >= o
    BY DEF Below
  <2>2. p \in UntiedIn(L, R)
    BY <2>1, <1>1
  <2>3. /\ RankIn(L, p) \in Nat /\ RankIn(L \cup {r}, p) \in Nat
        /\ RankIn(L, p) <= RankIn(L \cup {r}, p)
        /\ RankIn(L \cup {r}, p) <= RankIn(L, p) + 1
    BY RankMoves
  <2>4. RankIn(L, p) >= o \/ RankIn(L, p) = o - 1
    BY <2>1, <2>3
  <2> QED
    BY <2>1, <2>2, <2>4 DEF Below
<1>4. \A x, y \in S : x = y
  BY OnePerPlace
<1>5. IsFiniteSet(B)
  BY FS_Subset DEF Below, UntiedIn
<1> HIDE DEF A, B, S
<1>6. Cardinality(A) \in Nat /\ Cardinality(A) <= Cardinality(B) + 1
  BY <1>3, <1>4, <1>5, OneMore
<1> QED
  BY <1>2, <1>6 DEF A, B

\* A post that goes lowers no other, and moves one at most past a place.
LEMMA Goes ==
  ASSUME NEW R \in SUBSET Post, NEW L \in SUBSET R, IsFiniteSet(L),
         NEW r \in L, NEW M, M = L \ {r}, NEW Q,
         UntiedIn(M, Q) \subseteq UntiedIn(L, R), NEW s, NEW o \in Nat
  PROVE  /\ Below(M, Q, s, o) \subseteq Below(L, R, s, o)
         /\ Cardinality(Above(M, Q, s, o)) \in Nat
         /\ Cardinality(Above(M, Q, s, o)) <= Cardinality(Above(L, R, s, o)) + 1
<1> DEFINE A == Above(M, Q, s, o)
           B == Above(L, R, s, o)
           S == {p \in UntiedIn(L, R) : RankIn(L, p) = o}
<1>1. IsFiniteSet(M) /\ M \cup {r} = L
  BY FS_Subset
<1>2. ASSUME NEW p
      PROVE  /\ RankIn(M, p) \in Nat /\ RankIn(L, p) \in Nat
             /\ RankIn(M, p) <= RankIn(L, p) /\ RankIn(L, p) <= RankIn(M, p) + 1
  <2>1. /\ RankIn(M, p) \in Nat /\ RankIn(M \cup {r}, p) \in Nat
        /\ RankIn(M, p) <= RankIn(M \cup {r}, p)
        /\ RankIn(M \cup {r}, p) <= RankIn(M, p) + 1
    BY <1>1, RankMoves
  <2> QED
    BY <2>1, <1>1
<1>3. Below(M, Q, s, o) \subseteq Below(L, R, s, o)
  <2> SUFFICES ASSUME NEW p \in Below(M, Q, s, o)
               PROVE  p \in Below(L, R, s, o)
    OBVIOUS
  <2>1. p \in UntiedIn(L, R) /\ p.id \in s /\ RankIn(M, p) >= o
    BY DEF Below
  <2>2. RankIn(L, p) >= o
    BY <2>1, <1>2
  <2> QED
    BY <2>1, <2>2 DEF Below
<1>4. A \subseteq B \cup S
  <2> SUFFICES ASSUME NEW p \in A PROVE p \in B \cup S
    OBVIOUS
  <2>1. p \in UntiedIn(L, R) /\ p.id \in s /\ RankIn(M, p) < o
    BY DEF Above
  <2>2. RankIn(L, p) < o \/ RankIn(L, p) = o
    BY <2>1, <1>2
  <2> QED
    BY <2>1, <2>2 DEF Above
<1>5. \A x, y \in S : x = y
  BY OnePerPlace
<1>6. IsFiniteSet(B)
  BY FS_Subset DEF Above, UntiedIn
<1> HIDE DEF A, B, S
<1>7. Cardinality(A) \in Nat /\ Cardinality(A) <= Cardinality(B) + 1
  BY <1>4, <1>5, <1>6, OneMore
<1> QED
  BY <1>3, <1>7 DEF A, B

-----------------------------------------------------------------------------
(* The invariant *)

PostsInv ==
  /\ PostsTypeOK
  /\ IsFiniteSet(posts)
  /\ \A p \in inserting : p.id \notin Ids(posts)

PagerInv ==
  /\ reading \in BOOLEAN /\ authors \subseteq Authors /\ offset \in Nat
  /\ seen \subseteq Ids(posts) /\ again \subseteq seen /\ since \subseteq Ids(posts)
  /\ gone \in Nat /\ came \in Nat

\* Rows of which there was a post still have it: posts are not removed.
ListerInv ==
  /\ client \in {"pager", "lister"}
  /\ likes \subseteq Authors \X PostIds /\ todo \subseteq Authors \X PostIds
  /\ listing \in {"off", "on", "ok", "error"} /\ dangling \in BOOLEAN
  /\ listing = "error" => dangling
  /\ listing = "on" /\ ~dangling => \A l \in todo : l[2] \in Ids(posts)

\* Posts the pager has seen that are still to come on its pages.
Back == Below(Listed, posts, seen, offset)

PagesInv ==
  /\ PagesSlipOnlyByChanges
  /\ reading => Cardinality(Back) <= came

\* The posts of ids in s that share their second with no other.
Of(L, R, s) == {p \in UntiedIn(L, R) : p.id \in s}

\* What pages have missed and shown again, in terms of ranks.
LEMMA Views ==
  /\ Missed = IF reading THEN Above(Listed, posts, since \ seen, offset)
                         ELSE Of(Listed, posts, since \ seen)
  /\ Shown = Of(Listed, posts, again)
  BY DEF Missed, Shown, Passed, Newer, Untied, Above, Of, UntiedIn, RankIn, NewerIn

\* The same in the next state.
LEMMA NextViews ==
  /\ Missed' = IF reading' THEN Above(Listed', posts', since' \ seen', offset')
                           ELSE Of(Listed', posts', since' \ seen')
  /\ Shown' = Of(Listed', posts', again')
  /\ Back' = Below(Listed', posts', seen', offset')
  BY DEF Missed, Shown, Passed, Newer, Untied, Above, Of, UntiedIn, RankIn, NewerIn,
         Back

\* Sets of listed posts are finite.
LEMMA Finite ==
  ASSUME NEW R, IsFiniteSet(R), NEW L \in SUBSET R, NEW s, NEW o
  PROVE  /\ IsFiniteSet(L)
         /\ IsFiniteSet(Of(L, R, s)) /\ Cardinality(Of(L, R, s)) \in Nat
         /\ IsFiniteSet(Above(L, R, s, o)) /\ Cardinality(Above(L, R, s, o)) \in Nat
         /\ IsFiniteSet(Below(L, R, s, o)) /\ Cardinality(Below(L, R, s, o)) \in Nat
<1>1. /\ Of(L, R, s) \subseteq R /\ Above(L, R, s, o) \subseteq R
      /\ Below(L, R, s, o) \subseteq R
  BY DEF Of, Above, Below, UntiedIn
<1>2. /\ IsFiniteSet(L) /\ IsFiniteSet(Of(L, R, s))
      /\ IsFiniteSet(Above(L, R, s, o)) /\ IsFiniteSet(Below(L, R, s, o))
  BY <1>1, FS_Subset
<1> QED
  BY <1>2, FS_CardinalityType

\* When fewer posts are missed, shown again and to come again, the bounds stay.
LEMMA Fewer ==
  ASSUME PagesInv, IsFiniteSet(posts),
         Missed' \subseteq Missed, Shown' \subseteq Shown,
         reading' => reading /\ Back' \subseteq Back,
         gone \in Nat, came \in Nat, gone' \in Nat, came' \in Nat,
         gone' >= gone, came' >= came
  PROVE  PagesInv'
<1>0. Listed \in SUBSET posts
  BY DEF Listed, Active
<1>1. /\ IsFiniteSet(Missed) /\ IsFiniteSet(Shown) /\ IsFiniteSet(Back)
      /\ Cardinality(Missed) \in Nat /\ Cardinality(Shown) \in Nat
      /\ Cardinality(Back) \in Nat
  BY <1>0, Views, Finite DEF Back
<1>2. /\ Cardinality(Missed') \in Nat /\ Cardinality(Missed') <= Cardinality(Missed)
      /\ Cardinality(Shown') \in Nat /\ Cardinality(Shown') <= Cardinality(Shown)
  BY <1>1, FS_Subset, FS_CardinalityType
<1>3. reading' => /\ Cardinality(Back') \in Nat
                  /\ Cardinality(Back') <= Cardinality(Back)
  BY <1>1, FS_Subset, FS_CardinalityType
<1>4. Cardinality(Missed') <= gone' /\ Cardinality(Shown') <= came'
  BY <1>1, <1>2 DEF PagesInv, PagesSlipOnlyByChanges
<1>5. reading' => Cardinality(Back') <= came'
  BY <1>1, <1>3 DEF PagesInv
<1> QED
  BY <1>4, <1>5 DEF PagesInv, PagesSlipOnlyByChanges

-----------------------------------------------------------------------------
(* A change of the posts *)

\* The posts stay as they are.
LEMMA PostsStay ==
  ASSUME PostsInv, PagerInv, PagesInv, posts' = posts, Counting
  PROVE  PagerInv' /\ PagesInv'
<1>1. Listed' = Listed
  BY DEF Counting, Listed, Active
<1>2. came' = came /\ gone' = gone
  <2>1. Ids(Listed') \ Ids(Listed) = {} /\ Ids(Listed) \ Ids(Listed') = {}
    BY <1>1
  <2> QED
    BY <2>1, FS_EmptySet DEF Counting, PagerInv
<1>3. Missed' = Missed /\ Shown' = Shown /\ Back' = Back
  BY <1>1, Views, NextViews DEF Back, Counting
<1>4. PagerInv'
  BY <1>2 DEF PagerInv, Counting
<1>5. PagesInv'
  BY <1>2, <1>3, Fewer DEF PostsInv, PagerInv, Counting
<1> QED
  BY <1>4, <1>5

\* A post comes in.
LEMMA PostComes ==
  ASSUME PostsInv, PostsInv', PagerInv, PagesInv, Counting,
         NEW r, r.id \notin Ids(posts), posts' = posts \cup {r}
  PROVE  PagerInv' /\ PagesInv'
<1>1. /\ reading' = reading /\ offset' = offset /\ seen' = seen
      /\ again' = again /\ since' = since /\ authors' = authors
  BY DEF Counting
<1>2. /\ r.id \notin seen /\ r.id \notin again /\ r.id \notin since \ seen
      /\ offset \in Nat /\ gone \in Nat /\ came \in Nat
  BY DEF PagerInv
<1>3. /\ posts \in SUBSET Post /\ Listed \in SUBSET posts /\ IsFiniteSet(Listed)
      /\ IsFiniteSet(posts)
  BY FS_Subset DEF PostsInv, PostsTypeOK, Listed, Active
<1>4. Ids(posts) \subseteq Ids(posts')
  BY DEF Ids
<1>5. CASE r \notin Listed'
  <2>1. Listed' = Listed
    BY <1>1, <1>5 DEF Listed, Active
  <2>2. came' = came /\ gone' = gone
    <3>1. Ids(Listed') \ Ids(Listed) = {} /\ Ids(Listed) \ Ids(Listed') = {}
      BY <2>1
    <3>2. /\ Cardinality(Ids(Listed') \ Ids(Listed)) = 0
          /\ Cardinality(Ids(Listed) \ Ids(Listed')) = 0
      BY <3>1, FS_EmptySet
    <3> QED
      BY <3>2, <1>2 DEF Counting
  <2>3. UntiedIn(Listed', posts') \subseteq UntiedIn(Listed, posts)
    BY <2>1 DEF UntiedIn
  <2>4. Missed' \subseteq Missed /\ Shown' \subseteq Shown /\ Back' \subseteq Back
    BY <1>1, <2>1, <2>3, Views, NextViews DEF Back, Above, Below, Of
  <2>5. PagesInv'
    BY <1>1, <1>2, <1>3, <2>2, <2>4, Fewer
  <2> QED
    BY <1>1, <1>4, <2>2, <2>5 DEF PagerInv
<1>6. CASE r \in Listed'
  <2>1. Listed' = Listed \cup {r}
    BY <1>1, <1>6 DEF Listed, Active
  <2>2. /\ came' = (IF reading THEN came + 1 ELSE came)
        /\ gone' = gone
    <3>1. Ids(Listed') \ Ids(Listed) = {r.id} /\ Ids(Listed) \ Ids(Listed') = {}
      BY <2>1, <1>3 DEF Ids
    <3>2. Cardinality({r.id}) = 1 /\ Cardinality({}) = 0
      BY FS_Singleton, FS_EmptySet
    <3>3. /\ Cardinality(Ids(Listed') \ Ids(Listed)) = 1
          /\ Cardinality(Ids(Listed) \ Ids(Listed')) = 0
      BY <3>1, <3>2
    <3> QED
      BY <3>3, <1>2 DEF Counting
  <2>3. ASSUME NEW s, r.id \notin s
        PROVE  Of(Listed', posts', s) \subseteq Of(Listed, posts, s)
    BY <2>1, <2>3 DEF Of, UntiedIn
  <2>4. /\ Above(Listed', posts', since \ seen, offset)
             \subseteq Above(Listed, posts, since \ seen, offset)
        /\ Cardinality(Below(Listed', posts', seen, offset)) \in Nat
        /\ Cardinality(Below(Listed', posts', seen, offset))
             <= Cardinality(Below(Listed, posts, seen, offset)) + 1
    <3>1. Above(Listed \cup {r}, posts \cup {r}, since \ seen, offset)
             \subseteq Above(Listed, posts, since \ seen, offset)
      BY <1>2, <1>3, ComesIn
    <3>2. /\ Cardinality(Below(Listed \cup {r}, posts \cup {r}, seen, offset)) \in Nat
          /\ Cardinality(Below(Listed \cup {r}, posts \cup {r}, seen, offset))
               <= Cardinality(Below(Listed, posts, seen, offset)) + 1
      BY <1>2, <1>3, ComesIn
    <3> QED
      BY <3>1, <3>2, <2>1
  <2>5. Missed' \subseteq Missed /\ Shown' \subseteq Shown
    BY <1>1, <1>2, <2>3, <2>4, Views, NextViews
  <2>6. PagesInv'
    <3>1. CASE reading
      <4>1. /\ IsFiniteSet(Missed) /\ Cardinality(Missed) \in Nat
            /\ IsFiniteSet(Shown) /\ Cardinality(Shown) \in Nat
            /\ Cardinality(Back) \in Nat
        BY <1>3, Views, Finite DEF Back
      <4>2. Cardinality(Missed') <= Cardinality(Missed) /\ Cardinality(Missed') \in Nat
        BY <4>1, <2>5, FS_Subset, FS_CardinalityType
      <4>3. Cardinality(Shown') <= Cardinality(Shown) /\ Cardinality(Shown') \in Nat
        BY <4>1, <2>5, FS_Subset, FS_CardinalityType
      <4>4. Cardinality(Back') <= Cardinality(Back) + 1 /\ Cardinality(Back') \in Nat
        BY <1>1, <2>4, NextViews DEF Back
      <4>5. came' = came + 1 /\ gone' = gone
        BY <2>2, <3>1
      <4>6. /\ Cardinality(Missed) <= gone /\ Cardinality(Shown) <= came
            /\ Cardinality(Back) <= came
        BY <3>1 DEF PagesInv, PagesSlipOnlyByChanges
      <4>7. /\ Cardinality(Missed') <= gone' /\ Cardinality(Shown') <= came'
            /\ Cardinality(Back') <= came'
        BY <1>2, <4>1, <4>2, <4>3, <4>4, <4>5, <4>6
      <4> QED
        BY <4>7 DEF PagesInv, PagesSlipOnlyByChanges
    <3>2. CASE ~reading
      BY <3>2, <1>1, <1>2, <1>3, <2>2, <2>5, Fewer
    <3> QED
      BY <3>1, <3>2
  <2>7. came' \in Nat /\ gone' \in Nat
    BY <1>2, <2>2
  <2> QED
    BY <1>1, <1>4, <2>6, <2>7 DEF PagerInv
<1> QED
  BY <1>5, <1>6

\* A post is marked inactive: it goes from the lists it is on.
LEMMA PostGoes ==
  ASSUME PostsInv, PagerInv, PagesInv, Counting, NEW i \in 0..MaxPosts, Deactivate(i)
  PROVE  PagerInv' /\ PagesInv'
<1>1. /\ reading' = reading /\ offset' = offset /\ seen' = seen
      /\ again' = again /\ since' = since /\ authors' = authors
  BY DEF Counting
<1>2. offset \in Nat /\ gone \in Nat /\ came \in Nat
  BY DEF PagerInv
<1>3. /\ posts \in SUBSET Post /\ Listed \in SUBSET posts /\ IsFiniteSet(Listed)
      /\ IsFiniteSet(posts)
  BY FS_Subset DEF PostsInv, PostsTypeOK, Listed, Active
<1> DEFINE Off(q) == IF q.id = i THEN [q EXCEPT !.active = FALSE] ELSE q
<1>4. /\ posts' = {Off(q) : q \in posts}
      /\ \A q \in posts : Off(q).id = q.id /\ Off(q).created_at = q.created_at
  BY <1>3 DEF Deactivate, Post
<1> HIDE DEF Off
<1>ids. Ids(posts') = Ids(posts)
  BY <1>4 DEF Ids
<1>5. Listed' = {p \in Listed : p.id # i}
  BY <1>1, <1>3 DEF Listed, Active, Deactivate, Post
<1>6. UntiedIn(Listed', posts') \subseteq UntiedIn(Listed, posts)
  <2> SUFFICES ASSUME NEW p \in UntiedIn(Listed', posts')
               PROVE  p \in UntiedIn(Listed, posts)
    OBVIOUS
  <2>1. p \in Listed /\ p.id # i /\ p \in posts
    BY <1>3, <1>5 DEF UntiedIn
  <2>2. ASSUME NEW q \in posts, q.created_at = p.created_at
        PROVE  q = p
    <3>1. Off(q) \in posts' /\ Off(q).id = q.id /\ Off(q).created_at = q.created_at
      BY <1>4
    <3>2. Off(q) = p
      BY <3>1, <2>2 DEF UntiedIn
    <3> QED
      BY <3>1, <3>2, <2>1 DEF PostsInv, PostsTypeOK
  <2> QED
    BY <2>1, <2>2 DEF UntiedIn
<1>7. PagerInv' /\ came' = came /\ gone' \in Nat /\ gone' >= gone
  <2>1. Ids(Listed') \subseteq Ids(Listed)
    BY <1>5 DEF Ids
  <2>2. Ids(Listed') \ Ids(Listed) = {} /\ Cardinality({}) = 0
    BY <2>1, FS_EmptySet
  <2>3. Ids(Listed) \ Ids(Listed') \subseteq {i}
    BY <1>5 DEF Ids
  <2>4. Cardinality(Ids(Listed) \ Ids(Listed')) \in Nat
    BY <2>3, FS_Subset, FS_Singleton, FS_CardinalityType
  <2>5. came' = came /\ gone' \in Nat /\ gone' >= gone
    BY <1>2, <2>2, <2>4 DEF Counting
  <2> QED
    BY <2>5, <1>1, <1>ids, <1>2 DEF PagerInv
<1>8. Shown' \subseteq Shown /\ (~reading => Missed' \subseteq Missed)
  BY <1>1, <1>6, Views, NextViews DEF Of
<1>9. CASE reading /\ \E r \in Listed : r.id = i
  <2>1. PICK r \in Listed : r.id = i
    BY <1>9
  <2>2. Listed' = Listed \ {r}
    BY <1>3, <1>5, <2>1 DEF PostsInv, PostsTypeOK
  <2>3. gone' = gone + 1
    <3>1. Ids(Listed) \ Ids(Listed') = {i}
      BY <1>5, <2>1 DEF Ids
    <3>2. Cardinality({i}) = 1
      BY FS_Singleton
    <3> QED
      BY <1>9, <3>1, <3>2 DEF Counting
  <2>4. /\ Back' \subseteq Back
        /\ Cardinality(Missed') \in Nat
        /\ Cardinality(Missed') <= Cardinality(Missed) + 1
    <3>1. /\ Below(Listed', posts', seen, offset) \subseteq Below(Listed, posts, seen, offset)
          /\ Cardinality(Above(Listed', posts', since \ seen, offset)) \in Nat
          /\ Cardinality(Above(Listed', posts', since \ seen, offset))
               <= Cardinality(Above(Listed, posts, since \ seen, offset)) + 1
      BY <1>2, <1>3, <1>6, <2>1, <2>2, Goes
    <3> QED
      BY <3>1, <1>1, <1>9, Views, NextViews DEF Back
  <2>5. /\ IsFiniteSet(Shown) /\ Cardinality(Shown) \in Nat
        /\ IsFiniteSet(Back) /\ Cardinality(Back) \in Nat
        /\ Cardinality(Missed) \in Nat
    BY <1>3, Views, Finite DEF Back
  <2>6. Cardinality(Shown') <= Cardinality(Shown) /\ Cardinality(Shown') \in Nat
    BY <1>8, <2>5, FS_Subset, FS_CardinalityType
  <2>7. Cardinality(Back') <= Cardinality(Back) /\ Cardinality(Back') \in Nat
    BY <2>4, <2>5, FS_Subset, FS_CardinalityType
  <2>8. /\ Cardinality(Missed) <= gone /\ Cardinality(Shown) <= came
        /\ Cardinality(Back) <= came
    BY <1>9 DEF PagesInv, PagesSlipOnlyByChanges
  <2>9. /\ Cardinality(Missed') <= gone' /\ Cardinality(Shown') <= came'
        /\ Cardinality(Back') <= came'
    BY <1>2, <1>7, <2>3, <2>4, <2>5, <2>6, <2>7, <2>8
  <2> QED
    BY <1>7, <2>9 DEF PagesInv, PagesSlipOnlyByChanges
<1>10. CASE ~reading
  BY <1>1, <1>2, <1>3, <1>7, <1>8, <1>10, Fewer
<1>11. CASE ~(\E r \in Listed : r.id = i)
  <2>1. Listed' = Listed
    BY <1>5, <1>11
  <2>2. Missed' \subseteq Missed /\ Back' \subseteq Back
    BY <1>1, <1>6, <2>1, Views, NextViews DEF Back, Above, Below, Of
  <2> QED
    BY <1>1, <1>2, <1>3, <1>7, <1>8, <2>2, Fewer
<1> QED
  BY <1>9, <1>10, <1>11

-----------------------------------------------------------------------------
(* The posts *)

\* Rows are added and marked inactive; none is removed.
LEMMA PostsKept ==
  ASSUME PostsInv, Tick \/ Create \/ Remove
  PROVE  /\ PostsInv'
         /\ Ids(posts) \subseteq Ids(posts')
         /\ \/ posts' = posts
            \/ \E r : r.id \notin Ids(posts) /\ posts' = posts \cup {r}
            \/ \E i \in 0..MaxPosts : Deactivate(i)
<1> USE BoundsAssumption
<1>1. CASE Tick
  BY <1>1 DEF Tick, PostsInv, PostsTypeOK, Ids
<1>2. ASSUME NEW a \in Authors, InsertRuns(a)
      PROVE  PostsInv' /\ posts' = posts
  <2>1. nextPost \in PostIds /\ nextPost' = nextPost + 1 /\ clock \in 0..MaxTime
    BY <1>2 DEF InsertRuns, PostsInv, PostsTypeOK
  <2> DEFINE new == [id |-> nextPost, created_at |-> clock, author_id |-> a,
                     active |-> TRUE]
  <2>2. new \in Post /\ new.id = nextPost
    BY <2>1 DEF Post
  <2>3. \A p \in posts \cup inserting : p.id \in Int /\ p.id < nextPost
    BY DEF PostsInv, PostsTypeOK, Post, PostIds
  <2>4. inserting' = inserting \cup {new} /\ posts' = posts
    BY <1>2 DEF InsertRuns
  <2>5. nextPost \in Nat /\ clock' = clock /\ deleting' = deleting
    BY <1>2, <2>1 DEF InsertRuns, PostIds
  <2> HIDE DEF new
  <2>6. \A p, q \in posts \cup inserting \cup {new} : p.id = q.id => p = q
    BY <2>2, <2>3, <2>5 DEF PostsInv, PostsTypeOK
  <2>7. \A p \in posts \cup inserting \cup {new} : p.id < nextPost'
    BY <2>1, <2>2, <2>3, <2>5
  <2>8. PostsTypeOK'
    BY <2>1, <2>2, <2>4, <2>5, <2>6, <2>7 DEF PostsInv, PostsTypeOK
  <2>9. \A p \in inserting' : p.id \notin Ids(posts')
    BY <2>2, <2>3, <2>4, <2>5 DEF PostsInv, Ids
  <2> QED
    BY <2>4, <2>8, <2>9 DEF PostsInv
<1>3. ASSUME NEW p \in inserting, InsertCommits(p)
      PROVE  PostsInv' /\ p.id \notin Ids(posts) /\ posts' = posts \cup {p}
  <2>1. /\ posts' = posts \cup {p} /\ inserting' = inserting \ {p}
        /\ clock' = clock /\ nextPost' = nextPost /\ deleting' = deleting
    BY <1>3 DEF InsertCommits
  <2>2. PostsTypeOK'
    BY <2>1 DEF PostsInv, PostsTypeOK
  <2>3. IsFiniteSet(posts')
    BY <2>1, FS_AddElement DEF PostsInv
  <2>4. \A q \in inserting' : q.id \notin Ids(posts')
    BY <2>1 DEF PostsInv, PostsTypeOK, Ids
  <2> QED
    BY <2>1, <2>2, <2>3, <2>4 DEF PostsInv
<1>4. ASSUME NEW p \in inserting, InsertFails(p)
      PROVE  PostsInv' /\ posts' = posts
  BY <1>4 DEF InsertFails, PostsInv, PostsTypeOK, Ids
<1>5. ASSUME NEW t \in Threads, NEW a \in Authors, DeleteReads(t, a)
      PROVE  PostsInv' /\ posts' = posts
  <2>1. PICK p \in posts : deleting' = [deleting EXCEPT ![t] = p.id]
    BY <1>5 DEF DeleteReads
  <2>2. p.id \in 0..MaxPosts
    BY DEF PostsInv, PostsTypeOK, Post, PostIds
  <2>3. deleting' \in [Threads -> 0..MaxPosts]
    BY <2>1, <2>2 DEF PostsInv, PostsTypeOK
  <2> QED
    BY <2>3, <1>5 DEF DeleteReads, PostsInv, PostsTypeOK, Ids
<1>6. ASSUME NEW t \in Threads, DeleteWrites(t)
      PROVE  /\ PostsInv' /\ Ids(posts) \subseteq Ids(posts')
             /\ deleting[t] \in 0..MaxPosts /\ Deactivate(deleting[t])
  <2> DEFINE Off(q) == IF q.id = deleting[t] THEN [q EXCEPT !.active = FALSE] ELSE q
  <2>1. /\ deleting[t] \in 0..MaxPosts /\ Deactivate(deleting[t])
        /\ deleting' = [deleting EXCEPT ![t] = 0] /\ 0 \in 0..MaxPosts
        /\ clock' = clock /\ nextPost' = nextPost /\ inserting' = inserting
    BY <1>6 DEF DeleteWrites, PostsInv, PostsTypeOK
  <2>2. deleting' \in [Threads -> 0..MaxPosts]
    BY <2>1 DEF PostsInv, PostsTypeOK
  <2>3. /\ posts' = {Off(q) : q \in posts}
        /\ \A q \in posts : Off(q) \in Post /\ Off(q).id = q.id
    BY <2>1 DEF Deactivate, Post, PostsInv, PostsTypeOK
  <2>4. IsFiniteSet(posts')
    <3>1. PICK r : \A q \in posts : Off(q) = q \/ Off(q) = r
      BY DEF PostsInv, PostsTypeOK
    <3>2. IsFiniteSet(posts \cup {r})
      BY FS_AddElement DEF PostsInv
    <3>3. posts' \subseteq posts \cup {r}
      BY <3>1, <2>3
    <3> QED
      BY <3>2, <3>3, FS_Subset
  <2> HIDE DEF Off
  <2>5. Ids(posts') = Ids(posts)
    BY <2>3 DEF Ids
  <2>6. \A z \in posts' : \E q \in posts : z = Off(q) /\ z.id = q.id
    BY <2>3
  <2>7. \A p, q \in posts' \cup inserting : p.id = q.id => p = q
    BY <2>6 DEF PostsInv, PostsTypeOK, Ids
  <2>8. \A p \in posts' \cup inserting : p.id < nextPost
    BY <2>6 DEF PostsInv, PostsTypeOK
  <2>9. PostsTypeOK'
    BY <2>1, <2>2, <2>3, <2>7, <2>8 DEF PostsInv, PostsTypeOK
  <2> QED
    BY <2>1, <2>4, <2>5, <2>9 DEF PostsInv
<1>7. ASSUME NEW t \in Threads, DeleteFails(t)
      PROVE  PostsInv' /\ posts' = posts
  <2>1. deleting' = [deleting EXCEPT ![t] = 0] /\ 0 \in 0..MaxPosts
    BY <1>7 DEF DeleteFails
  <2>2. deleting' \in [Threads -> 0..MaxPosts]
    BY <2>1 DEF PostsInv, PostsTypeOK
  <2> QED
    BY <2>2, <1>7 DEF DeleteFails, PostsInv, PostsTypeOK, Ids
<1>8. \A r : posts' = posts \cup {r} => Ids(posts) \subseteq Ids(posts')
  BY DEF Ids
<1>9. CASE Create
  BY <1>2, <1>3, <1>4, <1>8, <1>9 DEF Create
<1>10. CASE Remove
  BY <1>5, <1>6, <1>7, <1>10 DEF Remove
<1> QED
  <2>1. Tick => posts' = posts
    BY DEF Tick
  <2> QED
    BY <1>1, <1>9, <1>10, <2>1

-----------------------------------------------------------------------------
(* A page *)

\* A page is in the list, and its ids tell its posts.
LEMMA PageListed ==
  ASSUME PostsInv, NEW P \in Pages(Listed, Limit, offset)
  PROVE  /\ P \subseteq Listed /\ Listed \in SUBSET posts /\ posts \in SUBSET Post
         /\ IsFiniteSet(Listed) /\ IsFiniteSet(posts)
         /\ Ids(P) \subseteq Ids(posts)
         /\ \A p \in posts : p.id \in Ids(P) <=> p \in P
<1>1. P \subseteq Listed /\ Listed \in SUBSET posts /\ posts \in SUBSET Post
  BY DEF Pages, Listed, Active, PostsInv, PostsTypeOK
<1>2. IsFiniteSet(posts) /\ IsFiniteSet(Listed)
  BY <1>1, FS_Subset DEF PostsInv
<1>3. \A p \in posts : p.id \in Ids(P) <=> p \in P
  BY <1>1 DEF Ids, PostsInv, PostsTypeOK
<1>4. Ids(P) \subseteq Ids(posts)
  BY <1>1 DEF Ids
<1> QED
  BY <1>1, <1>2, <1>3, <1>4

\* A page shows again only what was to come again, and misses nothing.
LEMMA PageRead ==
  ASSUME PostsInv, PagerInv, PagesInv, ReadPage
  PROVE  PagerInv' /\ PagesInv'
<1>1. PICK P \in Pages(Listed, Limit, offset) :
        /\ reading' = (Cardinality(P) = Limit)
        /\ seen' = seen \cup Ids(P)
        /\ again' = Ids(P) \cap seen
  BY DEF ReadPage
<1>2. /\ reading /\ posts' = posts /\ authors' = authors /\ since' = since
      /\ gone' = gone /\ came' = came
      /\ offset' = IF reading' THEN offset + Limit ELSE 0
  BY DEF ReadPage, postVars
<1>3. /\ P \subseteq Listed /\ Listed \in SUBSET posts /\ posts \in SUBSET Post
      /\ IsFiniteSet(Listed) /\ IsFiniteSet(posts)
      /\ Ids(P) \subseteq Ids(posts)
      /\ \A p \in posts : p.id \in Ids(P) <=> p \in P
  BY PageListed
<1>4. Listed' = Listed
  BY <1>2 DEF Listed, Active
<1>5. Limit \in Nat /\ offset \in Nat /\ gone \in Nat /\ came \in Nat
  BY LimitAssumption DEF PagerInv
<1>6. PagerInv'
  BY <1>1, <1>2, <1>3, <1>5 DEF PagerInv
<1>7. ASSUME NEW p \in UntiedIn(Listed, posts)
      PROVE  /\ p \in posts /\ RankIn(Listed, p) \in Nat
             /\ p \in P => /\ RankIn(Listed, p) >= offset
                           /\ RankIn(Listed, p) < offset + Limit
             /\ p \notin P /\ RankIn(Listed, p) >= offset =>
                  Cardinality(P) = Limit /\ RankIn(Listed, p) >= offset + Limit
  <2>1. p \in posts
    BY <1>3 DEF UntiedIn
  <2>2. IsFiniteSet(NewerIn(Listed, p))
    BY <1>3, FS_Subset DEF NewerIn
  <2>3. RankIn(Listed, p) \in Nat
    BY <2>2, FS_CardinalityType DEF RankIn
  <2> QED
    BY <1>3, <1>5, <2>1, <2>3, PageHasRanks
<1>8. Missed' \subseteq Missed
  <2> SUFFICES ASSUME NEW p \in UntiedIn(Listed, posts), p.id \in since \ seen',
                      reading' => RankIn(Listed, p) < offset'
               PROVE  RankIn(Listed, p) < offset
    BY <1>1, <1>2, <1>4, Views, NextViews DEF Above, Of
  <2>1. p \notin P
    BY <1>1, <1>3, <1>7
  <2>2. CASE reading'
    BY <2>1, <2>2, <1>2, <1>5, <1>7
  <2>3. CASE ~reading'
    <3>1. Cardinality(P) # Limit
      BY <2>3, <1>1
    <3>2. ~(RankIn(Listed, p) >= offset)
      BY <3>1, <2>1, <1>7
    <3> QED
      BY <3>2, <1>5, <1>7
  <2> QED
    BY <2>2, <2>3
<1>9. Cardinality(Shown') <= came
  <2>1. Shown' \subseteq Back
    <3> SUFFICES ASSUME NEW p \in UntiedIn(Listed, posts), p.id \in Ids(P) \cap seen
                 PROVE  RankIn(Listed, p) >= offset
      BY <1>1, <1>2, <1>4, NextViews DEF Back, Below, Of
    <3> QED
      BY <1>3, <1>7
  <2>2. IsFiniteSet(Back) /\ Cardinality(Back) \in Nat
    BY <1>3, Finite DEF Back
  <2>3. IsFiniteSet(Shown') /\ Cardinality(Shown') <= Cardinality(Back)
    BY <2>1, <2>2, FS_Subset
  <2>4. Cardinality(Shown') \in Nat
    BY <2>3, FS_CardinalityType
  <2> QED
    BY <2>2, <2>3, <2>4, <1>2, <1>5 DEF PagesInv
<1>10. reading' => Back' \subseteq Back
  <2> SUFFICES ASSUME reading', NEW p \in UntiedIn(Listed, posts), p.id \in seen',
                      RankIn(Listed, p) >= offset + Limit
               PROVE  p.id \in seen /\ RankIn(Listed, p) >= offset
    BY <1>2, <1>4, NextViews DEF Back, Below
  <2>1. p \notin P
    BY <1>5, <1>7
  <2> QED
    BY <2>1, <1>1, <1>3, <1>5, <1>7
<1>11. Cardinality(Missed') <= gone
  <2>1. IsFiniteSet(Missed) /\ Cardinality(Missed) \in Nat
    BY <1>3, Views, Finite
  <2>2. IsFiniteSet(Missed') /\ Cardinality(Missed') <= Cardinality(Missed)
    BY <1>8, <2>1, FS_Subset
  <2>3. Cardinality(Missed') \in Nat
    BY <2>2, FS_CardinalityType
  <2> QED
    BY <2>1, <2>2, <2>3, <1>5 DEF PagesInv, PagesSlipOnlyByChanges
<1>12. reading' => Cardinality(Back') <= came
  <2> SUFFICES ASSUME reading' PROVE Cardinality(Back') <= came
    OBVIOUS
  <2>1. IsFiniteSet(Back) /\ Cardinality(Back) \in Nat
    BY <1>3, Finite DEF Back
  <2>2. IsFiniteSet(Back') /\ Cardinality(Back') <= Cardinality(Back)
    BY <1>10, <2>1, FS_Subset
  <2>3. Cardinality(Back') \in Nat
    BY <2>2, FS_CardinalityType
  <2> QED
    BY <2>1, <2>2, <2>3, <1>2, <1>5 DEF PagesInv
<1> QED
  BY <1>2, <1>6, <1>9, <1>11, <1>12 DEF PagesInv, PagesSlipOnlyByChanges

\* A pager that begins has missed nothing and seen nothing.
LEMMA ReadingStarted ==
  ASSUME PostsInv, PagerInv, StartReading
  PROVE  PagerInv' /\ PagesInv'
<1>1. /\ reading' = TRUE /\ offset' = 0 /\ seen' = {} /\ again' = {} /\ gone' = 0
      /\ came' = 0 /\ posts' = posts /\ since' = Ids(Active(authors'))
      /\ authors' \subseteq Authors
  BY DEF StartReading, postVars
<1>2. PagerInv'
  BY <1>1 DEF PagerInv, Ids, Active
<1>3. \A p : RankIn(Listed', p) \in Nat
  <2>1. IsFiniteSet(Listed')
    BY <1>1, FS_Subset DEF PostsInv, Listed, Active
  <2> SUFFICES ASSUME NEW p PROVE RankIn(Listed', p) \in Nat
    OBVIOUS
  <2>2. IsFiniteSet(NewerIn(Listed', p))
    BY <2>1, FS_Subset DEF NewerIn
  <2> QED
    BY <2>2, FS_CardinalityType DEF RankIn
<1>4. Missed' = {}
  <2>1. Above(Listed', posts', since' \ seen', 0) = {}
    BY <1>3 DEF Above
  <2> QED
    BY <2>1, <1>1, NextViews
<1>5. Shown' = {} /\ Back' = {}
  BY <1>1, NextViews DEF Of, Below
<1> QED
  BY <1>1, <1>2, <1>4, <1>5, FS_EmptySet DEF PagesInv, PagesSlipOnlyByChanges

-----------------------------------------------------------------------------
(* The lister *)

\* Posts may come, and be marked inactive, while a call of list_likes runs.
LEMMA ListerWaits ==
  ASSUME ListerInv, UNCHANGED <<client, lister>>, Ids(posts) \subseteq Ids(posts')
  PROVE  ListerInv'
  BY DEF ListerInv, lister

\* What likes and a call of list_likes do.
LEMMA ListerMoves ==
  ASSUME PostsInv, ListerInv,
         \/ \E a \in Authors, i \in PostIds : Like(a, i)
         \/ \E l \in likes : Unlike(l)
         \/ FetchLikes
         \/ \E l \in todo : Expand(l)
         \/ AnswerLikes
  PROVE  ListerInv' /\ UNCHANGED <<postVars, pager>>
<1>1. ASSUME NEW a \in Authors, NEW i \in PostIds, Like(a, i)
      PROVE  ListerInv' /\ UNCHANGED <<postVars, pager>>
  BY <1>1 DEF Like, ListerInv, postVars, Ids
<1>2. ASSUME NEW l \in likes, Unlike(l)
      PROVE  ListerInv' /\ UNCHANGED <<postVars, pager>>
  BY <1>2 DEF Unlike, ListerInv, postVars, Ids
<1>3. CASE FetchLikes
  BY <1>3 DEF FetchLikes, ListerInv, postVars, Ids
<1>4. ASSUME NEW l \in todo, Expand(l)
      PROVE  ListerInv' /\ UNCHANGED <<postVars, pager>>
  <2>1. CASE l[2] \in Ids(posts) /\ todo' = todo \ {l} /\ UNCHANGED listing
    BY <1>4, <2>1 DEF Expand, ListerInv, postVars, Ids
  <2>2. CASE l[2] \notin Ids(posts) /\ todo' = {} /\ listing' = "error"
    BY <1>4, <2>2 DEF Expand, ListerInv, postVars, Ids
  <2> QED
    BY <1>4, <2>1, <2>2 DEF Expand
<1>5. CASE AnswerLikes
  BY <1>5 DEF AnswerLikes, ListerInv, postVars, Ids
<1> QED
  BY <1>1, <1>2, <1>3, <1>4, <1>5

-----------------------------------------------------------------------------
(* Every step *)

Inv == PostsInv /\ PagerInv /\ ListerInv /\ PagesInv

\* The invariant holds at first.
LEMMA InitInv == Init => Inv
<1> SUFFICES ASSUME Init PROVE Inv
  OBVIOUS
<1> USE BoundsAssumption
<1>1. PostsInv
  <2>1. 0 \in 0..MaxPosts /\ 0 \in 0..MaxTime
    OBVIOUS
  <2>2. deleting \in [Threads -> 0..MaxPosts]
    BY <2>1 DEF Init, PostsInit
  <2>3. PostsTypeOK
    BY <2>1, <2>2 DEF Init, PostsInit, PostsTypeOK
  <2> QED
    BY <2>3, FS_EmptySet DEF Init, PostsInit, PostsInv
<1>2. PagerInv /\ ListerInv
  BY DEF Init, PostsInit, PagerInv, ListerInv
<1>3. Listed = {}
  BY DEF Init, PostsInit, Listed, Active
<1>4. Missed = {} /\ Shown = {}
  BY <1>3 DEF Missed, Shown, Untied
<1>5. PagesInv
  BY <1>4, FS_EmptySet DEF Init, PagesInv, PagesSlipOnlyByChanges
<1> QED
  BY <1>1, <1>2, <1>5 DEF Inv

\* The posts change, and the pager's list with them.
LEMMA PostsStep ==
  ASSUME Inv, Tick \/ Create \/ Remove, Counting, UNCHANGED <<client, lister>>
  PROVE  Inv'
<1>1. /\ PostsInv' /\ Ids(posts) \subseteq Ids(posts')
      /\ \/ posts' = posts
         \/ \E r : r.id \notin Ids(posts) /\ posts' = posts \cup {r}
         \/ \E i \in 0..MaxPosts : Deactivate(i)
  BY PostsKept DEF Inv
<1>2. ListerInv'
  BY <1>1, ListerWaits DEF Inv
<1>3. ASSUME posts' = posts PROVE PagerInv' /\ PagesInv'
  BY <1>3, PostsStay DEF Inv
<1>4. ASSUME NEW r, r.id \notin Ids(posts), posts' = posts \cup {r}
      PROVE  PagerInv' /\ PagesInv'
  BY <1>1, <1>4, PostComes DEF Inv
<1>5. ASSUME NEW i \in 0..MaxPosts, Deactivate(i)
      PROVE  PagerInv' /\ PagesInv'
  BY <1>5, PostGoes DEF Inv
<1>6. PagerInv' /\ PagesInv'
  BY <1>1, <1>3, <1>4, <1>5
<1> QED
  BY <1>1, <1>2, <1>6 DEF Inv

\* What the posts and the pager have says, it says when both stay.
LEMMA PagesStay ==
  ASSUME PostsInv, PagerInv, PagesInv, UNCHANGED <<postVars, pager>>
  PROVE  PostsInv' /\ PagerInv' /\ PagesInv'
<1>1. /\ posts' = posts /\ reading' = reading /\ authors' = authors
      /\ offset' = offset /\ seen' = seen /\ again' = again /\ since' = since
      /\ gone' = gone /\ came' = came
  BY DEF postVars, pager
<1>2. PostsInv' /\ PagerInv'
  BY <1>1 DEF PostsInv, PostsTypeOK, PagerInv, Ids, postVars
<1>3. Listed' = Listed
  BY <1>1 DEF Listed, Active
<1>4. Missed' = Missed /\ Shown' = Shown /\ Back' = Back
  BY <1>1, <1>3, Views, NextViews DEF Back
<1> QED
  BY <1>1, <1>2, <1>4 DEF PagesInv, PagesSlipOnlyByChanges

\* Every step keeps the invariant.
LEMMA NextInv == Inv /\ [Next]_vars => Inv'
<1> SUFFICES ASSUME Inv, [Next]_vars PROVE Inv'
  OBVIOUS
<1>1. CASE Tick /\ UNCHANGED <<client, pager, lister>>
  <2>1. Counting
    <3>1. Listed' = Listed
      BY <1>1 DEF Tick, pager, Listed, Active
    <3>2. Ids(Listed') \ Ids(Listed) = {} /\ Ids(Listed) \ Ids(Listed') = {}
      BY <3>1
    <3> QED
      BY <1>1, <3>2, FS_EmptySet DEF Counting, pager, Inv, PagerInv
  <2> QED
    BY <1>1, <2>1, PostsStep
<1>2. CASE (Create \/ Remove) /\ Counting /\ UNCHANGED <<client, lister>>
  BY <1>2, PostsStep
<1>3. CASE StartReading
  <2>1. UNCHANGED <<client, lister>> /\ posts' = posts /\ UNCHANGED postVars
    BY <1>3 DEF StartReading, postVars
  <2>2. PostsInv' /\ Ids(posts) \subseteq Ids(posts')
    BY <2>1 DEF Inv, PostsInv, PostsTypeOK, Ids, postVars
  <2> QED
    BY <1>3, <2>1, <2>2, ReadingStarted, ListerWaits DEF Inv
<1>4. CASE ReadPage
  <2>1. UNCHANGED <<client, lister>> /\ posts' = posts /\ UNCHANGED postVars
    BY <1>4 DEF ReadPage, postVars
  <2>2. PostsInv' /\ Ids(posts) \subseteq Ids(posts')
    BY <2>1 DEF Inv, PostsInv, PostsTypeOK, Ids, postVars
  <2> QED
    BY <1>4, <2>1, <2>2, PageRead, ListerWaits DEF Inv
<1>5. CASE \/ \E a \in Authors, i \in PostIds : Like(a, i)
           \/ \E l \in likes : Unlike(l)
           \/ FetchLikes
           \/ \E l \in todo : Expand(l)
           \/ AnswerLikes
  BY <1>5, ListerMoves, PagesStay DEF Inv
<1>6. CASE UNCHANGED vars
  BY <1>6, ListerWaits, PagesStay DEF Inv, vars, postVars, Ids
<1> QED
  BY <1>1, <1>2, <1>3, <1>4, <1>5, <1>6 DEF Next

\* The invariant holds of every behaviour.
LEMMA Invariance == Spec => []Inv
  BY InitInv, NextInv, PTL DEF Spec

-----------------------------------------------------------------------------
(* The theorems *)

\* The types, and the ids of posts: unique, and drawn in order.
THEOREM TypeCorrect == Spec => []TypeOK
<1>1. Inv => TypeOK
  <2> SUFFICES ASSUME Inv PROVE TypeOK
    OBVIOUS
  <2>1. Ids(posts) \subseteq PostIds
    BY DEF Inv, PostsInv, PostsTypeOK, Ids, Post
  <2> QED
    BY <2>1 DEF Inv, PostsInv, PagerInv, ListerInv, TypeOK
<1> QED
  BY <1>1, Invariance, PTL

\* Pages slip past posts only when others go, and repeat them only when others
\* come in: whatever the page size and however many posts change.
THEOREM PagesSlipOnlyByChangesHolds == Spec => []PagesSlipOnlyByChanges
<1>1. Inv => PagesSlipOnlyByChanges
  BY DEF Inv, PagesInv
<1> QED
  BY <1>1, Invariance, PTL

\* A list of likes fails only on a like of a post that did not exist.
THEOREM FailsOnlyOnDanglingHolds == Spec => []FailsOnlyOnDangling
<1>1. Inv => FailsOnlyOnDangling
  BY DEF Inv, ListerInv, FailsOnlyOnDangling
<1> QED
  BY <1>1, Invariance, PTL

\* Paging by offsets is sound while the list stands still: with no post gone
\* from it and none come in since its client began, every post it had then that
\* shares its second with no other and lies above the next page has been in a
\* page, and the latest page repeated none of them. Any number of likes, of
\* deleted or new posts of other authors, and of pages make no difference.
THEOREM QuietListIsReadInFull ==
  Spec => [](gone = 0 /\ came = 0 =>
               \A p \in Untied : /\ p.id \in since /\ Passed(p) => p.id \in seen
                                 /\ p.id \notin again)
<1>1. ASSUME Inv, gone = 0, came = 0, NEW p \in Untied
      PROVE  /\ p.id \in since /\ Passed(p) => p.id \in seen
             /\ p.id \notin again
  <2>1. Missed \subseteq posts /\ Shown \subseteq posts
    BY DEF Missed, Shown, Untied, Listed, Active
  <2>2. IsFiniteSet(Missed) /\ IsFiniteSet(Shown)
    BY <1>1, <2>1, FS_Subset DEF Inv, PostsInv
  <2>3. Cardinality(Missed) \in Nat /\ Cardinality(Shown) \in Nat
    BY <2>2, FS_CardinalityType
  <2>4. Cardinality(Missed) = 0 /\ Cardinality(Shown) = 0
    BY <1>1, <2>3 DEF Inv, PagesInv, PagesSlipOnlyByChanges
  <2>5. Missed = {} /\ Shown = {}
    BY <2>2, <2>4, FS_EmptySet
  <2> QED
    BY <1>1, <2>5 DEF Missed, Shown
<1>2. Inv => (gone = 0 /\ came = 0 =>
               \A p \in Untied : /\ p.id \in since /\ Passed(p) => p.id \in seen
                                 /\ p.id \notin again)
  BY <1>1
<1> QED
  BY <1>2, Invariance, PTL
=============================================================================
