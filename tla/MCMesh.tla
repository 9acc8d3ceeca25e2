------------------------------- MODULE MCMesh -------------------------------
(* A TLC instance of Mesh: the gateway calls list_likes and list_follows,  *)
(* both lists have one row, on pools of one connection each. Of the two    *)
(* accounts of a follow only the follower is retrieved, and whether the    *)
(* post's author is followed is not looked up.                             *)
EXTENDS Mesh

\* Each call: the one it is made for (0: none), the method, the phase.
MCCalls == <<
  <<0, "list_likes", 0>>,
    <<1, "fetch", 1>>,
    <<1, "retrieve_standard_account", 2>>,
      <<3, "check_follow", 1>>,
        <<4, "find", 1>>,
    <<1, "retrieve_expanded_post", 2>>,
      <<6, "retrieve_standard_account", 1>>,
      <<6, "count_likes_of_post", 1>>,
        <<8, "count", 1>>,
  <<0, "list_follows", 0>>,
    <<10, "fetch", 1>>,
    <<10, "retrieve_standard_account", 2>>,
      <<12, "check_follow", 1>>,
        <<13, "find", 1>> >>

MCNodes  == 1..Len(MCCalls)
MCRoots  == {n \in MCNodes : MCCalls[n][1] = 0}
MCParent == [n \in MCNodes |-> IF n \in MCRoots THEN n ELSE MCCalls[n][1]]
MCMethod == [n \in MCNodes |-> MCCalls[n][2]]
MCPhase  == [n \in MCNodes |-> MCCalls[n][3]]

\* One connection for each pool there is a use for.
MCPoolOf == <<
  <<"apigateway", "like">>, <<"apigateway", "follow">>,
  <<"like", "uniquepair">>, <<"like", "account">>, <<"like", "post">>,
  <<"post", "account">>, <<"post", "like">>,
  <<"account", "follow">>, <<"follow", "account">>, <<"follow", "uniquepair">> >>
MCConns  == 1..Len(MCPoolOf)

\* A thread for each connection a server may be opened; and one too few at the
\* uniquepair service, which the like and the follow service connect to.
Enough   == [s \in Services |->
               LET Opened == {c \in MCConns : MCPoolOf[c][2] = s}
               IN  IF Opened = {} THEN 1 ELSE Cardinality(Opened)]
MCLimits == {Enough, [Enough EXCEPT !["uniquepair"] = 1]}
=============================================================================
