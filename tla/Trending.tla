------------------------------ MODULE Trending ------------------------------
(***************************************************************************)
(* The trending service: process_post counts the hashtags of a text in a   *)
(* Redis sorted set, each after the wordfilter service let it pass, and    *)
(* fetch_trending_hashtags reads the set by rank.                          *)
(* app/trending/service/server/src/trending_server.cpp                     *)
(* app/wordfilter/service/server/src/wordfilter_server.cpp                 *)
(* app/common/include/redis_connected_server.h                             *)
(*                                                                         *)
(* A text is a sequence of words; a word is a hashtag (its letters without *)
(* the '#', an integer here so that hashtags are ordered like Redis orders *)
(* members of equal score) or Plain.                                       *)
(***************************************************************************)
EXTENDS Integers, Sequences, FiniteSets

CONSTANTS
  Tags,          \* hashtags
  InvalidWords,  \* the wordfilter's list
  Plain,         \* a word that is no hashtag, or the lone "#"
  Jobs           \* one for each call of process_post that may be made

ASSUME TagsAssumption == Tags \subseteq Int /\ Plain \notin Tags

VARIABLES
  score,  \* the sorted set: the score of each hashtag, 0 when not a member
  text,   \* text[j]: the text of the post job j is for
  job,    \* job[j]: "none", "words", "scoring", "done" or "failed"
  word    \* word[j]: the position of the word the job is at

trendingVars == <<score, text, job, word>>

TrendingInit ==
  /\ score = [t \in Tags |-> 0]
  /\ text = [j \in Jobs |-> <<>>]
  /\ job = [j \in Jobs |-> "none"]
  /\ word = [j \in Jobs |-> 1]

-----------------------------------------------------------------------------
(* process_post, as the trending server runs it *)

is_valid_word(t) == t \notin InvalidWords

Goto(j, state) == job' = [job EXCEPT ![j] = state]
NextWord(j)    == word' = [word EXCEPT ![j] = @ + 1]

SkipPlainWord(j) ==
  /\ job[j] = "words" /\ word[j] <= Len(text[j])
  /\ text[j][word[j]] = Plain
  /\ NextWord(j)
  /\ UNCHANGED <<score, text, job>>

\* rpc_is_valid_word, which may throw.
FilterHashtag(j) ==
  LET t == text[j][word[j]] IN
  /\ job[j] = "words" /\ word[j] <= Len(text[j]) /\ t # Plain
  /\ \/ is_valid_word(t) /\ Goto(j, "scoring") /\ UNCHANGED word
     \/ ~is_valid_word(t) /\ NextWord(j) /\ UNCHANGED job
     \/ Goto(j, "failed") /\ UNCHANGED word
  /\ UNCHANGED <<score, text>>

\* mutant: the increment may be sent again after it was applied
ScoreTwice(j) ==
  /\ job[j] = "scoring"
  /\ \E k \in 1..2 : score' = [score EXCEPT ![text[j][word[j]]] = @ + k]
  /\ Goto(j, "words") /\ NextWord(j)
  /\ UNCHANGED text

\* zincrby
ScoreHashtag(j) ==
  /\ job[j] = "scoring"
  /\ score' = [score EXCEPT ![text[j][word[j]]] = @ + 1]
  /\ Goto(j, "words") /\ NextWord(j)
  /\ UNCHANGED text

\* zincrby throws, before the increment or after it.
ScoreFails(j) ==
  /\ job[j] = "scoring"
  /\ score' \in {score, [score EXCEPT ![text[j][word[j]]] = @ + 1]}
  /\ Goto(j, "failed")
  /\ UNCHANGED <<text, word>>

LastWord(j) ==
  /\ job[j] = "words" /\ word[j] > Len(text[j])
  /\ Goto(j, "done")
  /\ UNCHANGED <<score, text, word>>

Job(j) == \/ SkipPlainWord(j) \/ FilterHashtag(j)
          \/ ScoreHashtag(j) \/ ScoreFails(j) \/ LastWord(j)

-----------------------------------------------------------------------------
(* fetch_trending_hashtags: ZRANGE 0 limit, ranks from the lowest score up, *)
(* both ends included                                                       *)

Members == {t \in Tags : score[t] > 0}

RanksBefore(s, t) == score[s] < score[t] \/ (score[s] = score[t] /\ s < t)

\* The rank of a member is the number of members before it.
Rank(t) == Cardinality({s \in Members : RanksBefore(s, t)})

Ranked == [k \in 1..Cardinality(Members) |-> CHOOSE t \in Members : Rank(t) = k - 1]

zrange(start, stop) ==
  SubSeq(Ranked, start + 1, IF stop < Len(Ranked) THEN stop + 1 ELSE Len(Ranked))

fetch_trending_hashtags(limit) == zrange(0, limit)
=============================================================================
