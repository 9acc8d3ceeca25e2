----------------------------- MODULE CreatePost -----------------------------
(***************************************************************************)
(* create_post of the post service, composed with the trending service it  *)
(* calls from a thread of its own while it inserts the post.  Each call of *)
(* create_post is served once; several are served concurrently.            *)
(* app/post/service/server/src/post_server.cpp                             *)
(*                                                                         *)
(* The thread's RPC may fail while the trending server is still at work on *)
(* it: the thread is over and the job is not.                              *)
(***************************************************************************)
EXTENDS Trending

CONSTANTS
  Calls,   \* calls of create_post; call c is what trending job c is for
  Texts,   \* the texts posted
  MaxSize  \* the longest text accepted (200 characters; counted in words here)

ASSUME CallsAssumption ==
  Calls = Jobs /\ Texts \subseteq Seq(Tags \cup {Plain}) /\ MaxSize \in Nat

VARIABLES
  main,    \* main[c]: where the server thread of the call is
  thread,  \* thread[c]: "none", "running", "ok" or "failed"
  answer,  \* answer[c]: "none", "ok", "invalid" or "error"
  posts    \* the calls whose post is in the table

vars == <<score, text, job, word, main, thread, answer, posts>>

Init ==
  /\ TrendingInit
  /\ main = [c \in Calls |-> "idle"]
  /\ thread = [c \in Calls |-> "none"]
  /\ answer = [c \in Calls |-> "none"]
  /\ posts = {}

validate_attributes(t) == Len(t) > 0 /\ Len(t) <= MaxSize

MainGoes(c, state)  == main' = [main EXCEPT ![c] = state]
ThreadGoes(c, state) == thread' = [thread EXCEPT ![c] = state]
Answers(c, a)       == answer' = [answer EXCEPT ![c] = a]

-----------------------------------------------------------------------------
(* The server thread *)

\* mutant: the trending thread is started before the text is validated
CallUnvalidated(c) ==
  /\ main[c] = "idle"
  /\ \E t \in Texts :
       /\ text' = [text EXCEPT ![c] = t]
       /\ ThreadGoes(c, "running")
       /\ \/ validate_attributes(t) /\ MainGoes(c, "insert") /\ UNCHANGED answer
          \/ /\ ~validate_attributes(t)
             /\ MainGoes(c, "unwind") /\ Answers(c, "invalid")
  /\ UNCHANGED <<score, job, word, posts>>

\* The call arrives; its text is validated and the thread started (std::async
\* throws when it cannot).
Call(c) ==
  /\ main[c] = "idle"
  /\ \E t \in Texts :
       /\ text' = [text EXCEPT ![c] = t]
       /\ \/ /\ ~validate_attributes(t)
             /\ MainGoes(c, "answered") /\ Answers(c, "invalid")
             /\ UNCHANGED thread
          \/ /\ validate_attributes(t)
             /\ MainGoes(c, "insert") /\ ThreadGoes(c, "running")
             /\ UNCHANGED answer
          \/ /\ validate_attributes(t)
             /\ MainGoes(c, "answered") /\ Answers(c, "error")
             /\ UNCHANGED thread
  /\ UNCHANGED <<score, job, word, posts>>

Insert(c) ==
  /\ main[c] = "insert"
  /\ posts' = posts \cup {c}
  /\ MainGoes(c, "sync")
  /\ UNCHANGED <<score, text, job, word, thread, answer>>

\* run_query throws, before the INSERT is committed or after.
InsertFails(c) ==
  /\ main[c] = "insert"
  /\ posts' \in {posts, posts \cup {c}}
  /\ MainGoes(c, "unwind") /\ Answers(c, "error")
  /\ UNCHANGED <<score, text, job, word, thread>>

\* mutants: the thread's exception is dropped; it is not caught
SyncIgnoring(c) ==
  /\ main[c] = "sync" /\ thread[c] \in {"ok", "failed"}
  /\ MainGoes(c, "answered") /\ Answers(c, "ok")
  /\ UNCHANGED <<score, text, job, word, thread, posts>>
SyncOk(c) ==
  /\ main[c] = "sync" /\ thread[c] = "ok"
  /\ MainGoes(c, "answered") /\ Answers(c, "ok")
  /\ UNCHANGED <<score, text, job, word, thread, posts>>

\* trending_future.get() returns, or rethrows what the thread threw.
Sync(c) ==
  /\ main[c] = "sync" /\ thread[c] \in {"ok", "failed"}
  /\ MainGoes(c, "answered")
  /\ Answers(c, IF thread[c] = "ok" THEN "ok" ELSE "error")
  /\ UNCHANGED <<score, text, job, word, thread, posts>>

\* On the way out of an exception the future's destructor waits for the thread.
Unwind(c) ==
  /\ main[c] = "unwind" /\ thread[c] # "running"
  /\ MainGoes(c, "answered")
  /\ UNCHANGED <<score, text, job, word, thread, answer, posts>>

-----------------------------------------------------------------------------
(* The thread: rpc_process_post *)

Send(c) ==
  /\ thread[c] = "running" /\ job[c] = "none"
  /\ Goto(c, "words")
  /\ UNCHANGED <<score, text, word, main, thread, answer, posts>>

\* mutant: the server's failure is taken for a success
ReceiveAsOk(c) ==
  /\ thread[c] = "running" /\ job[c] \in {"done", "failed"}
  /\ ThreadGoes(c, "ok")
  /\ UNCHANGED <<score, text, job, word, main, answer, posts>>

Receive(c) ==
  /\ thread[c] = "running" /\ job[c] \in {"done", "failed"}
  /\ ThreadGoes(c, IF job[c] = "done" THEN "ok" ELSE "failed")
  /\ UNCHANGED <<score, text, job, word, main, answer, posts>>

\* No connection, or the connection breaks before the reply.
RpcFails(c) ==
  /\ thread[c] = "running"
  /\ ThreadGoes(c, "failed")
  /\ UNCHANGED <<score, text, job, word, main, answer, posts>>

JobStep(c) == Job(c) /\ UNCHANGED <<main, thread, answer, posts>>

Server(c) == Call(c) \/ Insert(c) \/ InsertFails(c) \/ Sync(c) \/ Unwind(c)
Thread(c) == Send(c) \/ Receive(c) \/ RpcFails(c)

Next == \E c \in Calls : Server(c) \/ Thread(c) \/ JobStep(c)

Spec == Init /\ [][Next]_vars

\* A call that arrived is served; threads run; the trending server, the
\* wordfilter, Redis and the database answer or fail.
Serve(c) == Insert(c) \/ InsertFails(c) \/ Sync(c) \/ Unwind(c)
Fairness ==
  \A c \in Calls :
    WF_vars(Serve(c)) /\ WF_vars(Send(c) \/ Receive(c)) /\ WF_vars(JobStep(c))
FairSpec == Spec /\ Fairness

-----------------------------------------------------------------------------
(* Properties *)

\* The occurrences of t in the texts of the calls cs: the call and the position
\* (a text that was accepted has MaxSize words at most).
Occurrences(t, cs) ==
  {o \in cs \X (1..MaxSize) :
     o[2] \in DOMAIN text[o[1]] /\ text[o[1]][o[2]] = t}

Total(t, cs) == Cardinality(Occurrences(t, cs))

Answered(a) == {c \in Calls : main[c] = "answered" /\ answer[c] = a}

\* The types, and how the three activities of a call hang together: no thread
\* before the call arrived, no job without a thread, and an answer at the end.
TypeOK ==
  /\ score \in [Tags -> Nat]
  /\ text \in [Calls -> Texts \cup {<<>>}]
  /\ job \in [Calls -> {"none", "words", "scoring", "done", "failed"}]
  /\ \A c \in Calls : word[c] \in 1..(Len(text[c]) + 1)
  /\ main \in [Calls -> {"idle", "insert", "sync", "unwind", "answered"}]
  /\ thread \in [Calls -> {"none", "running", "ok", "failed"}]
  /\ answer \in [Calls -> {"none", "ok", "invalid", "error"}]
  /\ posts \subseteq Calls
  /\ \A c \in Calls : /\ main[c] = "answered" => answer[c] # "none"
                      /\ thread[c] = "none" => job[c] = "none"
                      /\ thread[c] = "ok" => job[c] = "done"
                      /\ main[c] = "idle" => thread[c] = "none"

\* A post that was answered "ok" is stored, and each hashtag in it that the
\* filter lets pass is among the trending hashtags a fetch without a limit
\* returns, whatever other calls do and whichever of them fail.
OkMeansStoredAndTrending ==
  \A c \in Answered("ok") :
    /\ c \in posts
    /\ \A i \in DOMAIN text[c] :
         text[c][i] \notin InvalidWords \cup {Plain} =>
           \E k \in DOMAIN fetch_trending_hashtags(Cardinality(Members)) :
             fetch_trending_hashtags(Cardinality(Members))[k] = text[c][i]

\* Scores count: every occurrence in a post answered "ok" counts, none counts
\* twice, nothing counts for a call the trending server never heard of, and a
\* word on the filter's list never trends.
ScoreBounds ==
  /\ \A t \in Tags \ InvalidWords :
       /\ Total(t, Answered("ok")) <= score[t]
       /\ score[t] <= Total(t, {c \in Calls : job[c] # "none"})
  /\ \A t \in Tags \cap InvalidWords : score[t] = 0

\* A rejected text leaves no trace: no post, and no job for the trending server,
\* now or later.
RejectedLeavesNoTrace ==
  \A c \in Answered("invalid") :
    c \notin posts /\ job[c] = "none" /\ thread[c] = "none"

\* Every call that arrives is answered, though it waits for a thread that waits
\* for another server.
EveryCallAnswered ==
  \A c \in Calls : main[c] # "idle" ~> main[c] = "answered"

\* test_trending.py: "Fetch top 10 trending hashtags." What is fetched is what
\* scores highest: nothing left out has a higher score than what is in.
FetchesTheTop ==
  \A limit \in 1..Cardinality(Tags) :
    LET fetched == fetch_trending_hashtags(limit) IN
    \A k \in DOMAIN fetched : \A t \in Tags :
      (\A m \in DOMAIN fetched : fetched[m] # t) => score[t] <= score[fetched[k]]
=============================================================================
