------------------------------ MODULE CallGraph -----------------------------
(***************************************************************************)
(* Which handler calls which: for each method of each service, the RPCs    *)
(* its handler makes, phase after phase. The calls of one phase are made   *)
(* concurrently, each in a thread of its own (or are one call); a phase    *)
(* begins when the one before it has been answered.                        *)
(*                                                                         *)
(* Services call one another both ways (account and follow, account and    *)
(* post, post and like, account and like); their methods do not.           *)
(***************************************************************************)
EXTENDS Integers, Sequences

\* account_server.cpp
retrieve_standard_account == <<{"check_follow"}>>
retrieve_expanded_account ==
  retrieve_standard_account \o
  <<{"check_follow", "count_followers", "count_followees",
     "count_posts_by_author", "count_likes_by_account"}>>
list_accounts == <<{"check_follow", "count_followers", "count_followees",
                    "count_posts_by_author", "count_likes_by_account"}>>

\* follow_server.cpp
follow_account           == <<{"add"}>>
retrieve_standard_follow == <<{"get"}>>
retrieve_expanded_follow ==
  retrieve_standard_follow \o <<{"retrieve_standard_account"}>>
delete_follow   == <<{"get"}, {"remove"}>>
list_follows    == <<{"fetch"}, {"retrieve_standard_account"}>>
check_follow    == <<{"find"}>>
count_followers == <<{"count"}>>
count_followees == <<{"count"}>>

\* like_server.cpp
like_post              == <<{"add"}>>
retrieve_standard_like == <<{"get"}>>
retrieve_expanded_like ==
  retrieve_standard_like \o
  <<{"retrieve_standard_account", "retrieve_expanded_post"}>>
delete_like            == <<{"get"}, {"remove"}>>
list_likes ==
  <<{"fetch"}, {"retrieve_standard_account", "retrieve_expanded_post"}>>
count_likes_by_account == <<{"count"}>>
count_likes_of_post    == <<{"count"}>>

\* post_server.cpp
create_post            == <<{"process_post"}>>
retrieve_expanded_post == <<{"retrieve_standard_account", "count_likes_of_post"}>>
list_posts             == <<{"retrieve_standard_account", "count_likes_of_post"}>>

\* trending_server.cpp
\* A call per hashtag, one after the other; a text of 200 characters has room
\* for 67 words of two.
MaxHashtags  == 67
process_post == [i \in 1..MaxHashtags |-> {"is_valid_word"}]

\* Methods that call no other service.
Leaf == <<>>

Calls == [
  authenticate_user         |-> Leaf,
  create_account            |-> Leaf,
  retrieve_standard_account |-> retrieve_standard_account,
  retrieve_expanded_account |-> retrieve_expanded_account,
  update_account            |-> Leaf,
  delete_account            |-> Leaf,
  list_accounts             |-> list_accounts,
  follow_account            |-> follow_account,
  retrieve_standard_follow  |-> retrieve_standard_follow,
  retrieve_expanded_follow  |-> retrieve_expanded_follow,
  delete_follow             |-> delete_follow,
  list_follows              |-> list_follows,
  check_follow              |-> check_follow,
  count_followers           |-> count_followers,
  count_followees           |-> count_followees,
  like_post                 |-> like_post,
  retrieve_standard_like    |-> retrieve_standard_like,
  retrieve_expanded_like    |-> retrieve_expanded_like,
  delete_like               |-> delete_like,
  list_likes                |-> list_likes,
  count_likes_by_account    |-> count_likes_by_account,
  count_likes_of_post       |-> count_likes_of_post,
  create_post               |-> create_post,
  retrieve_standard_post    |-> Leaf,
  retrieve_expanded_post    |-> retrieve_expanded_post,
  delete_post               |-> Leaf,
  list_posts                |-> list_posts,
  count_posts_by_author     |-> Leaf,
  process_post              |-> process_post,
  fetch_trending_hashtags   |-> Leaf,
  is_valid_word             |-> Leaf,
  get |-> Leaf, add |-> Leaf, remove |-> Leaf,
  find |-> Leaf, fetch |-> Leaf, count |-> Leaf ]

Methods == DOMAIN Calls

AccountMethods == {"authenticate_user", "create_account", "update_account",
  "delete_account", "retrieve_standard_account", "retrieve_expanded_account",
  "list_accounts"}
FollowMethods == {"follow_account", "retrieve_standard_follow",
  "retrieve_expanded_follow", "delete_follow", "list_follows", "check_follow",
  "count_followers", "count_followees"}
LikeMethods == {"like_post", "retrieve_standard_like", "retrieve_expanded_like",
  "delete_like", "list_likes", "count_likes_by_account", "count_likes_of_post"}
PostMethods == {"create_post", "retrieve_standard_post", "retrieve_expanded_post",
  "delete_post", "list_posts", "count_posts_by_author"}
UniquepairMethods == {"get", "add", "remove", "find", "fetch", "count"}
TrendingMethods == {"process_post", "fetch_trending_hashtags"}

ServiceOf(m) ==
  CASE m \in AccountMethods    -> "account"
    [] m \in FollowMethods     -> "follow"
    [] m \in LikeMethods       -> "like"
    [] m \in PostMethods       -> "post"
    [] m \in UniquepairMethods -> "uniquepair"
    [] m \in TrendingMethods   -> "trending"
    [] OTHER                   -> "wordfilter"

Services == {"account", "follow", "like", "post", "uniquepair", "trending",
             "wordfilter"}
=============================================================================
