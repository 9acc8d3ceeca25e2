------------------------- MODULE CreatePost_proofs --------------------------
(***************************************************************************)
(* Theorems about CreatePost with Trending, for any number of calls, any   *)
(* texts and any filter: what an answer of create_post promises.           *)
(*                                                                         *)
(* The invariant follows a job through its text: every hashtag behind the  *)
(* position it is at is on the filter's list or has a score. Scores never  *)
(* fall, so other calls cannot undo what a job counted.                    *)
(*                                                                         *)
(* The sums: a score is at least the number of occurrences the jobs have   *)
(* behind them, and at most that number and the occurrences at which a job *)
(* failed. The order: the members are finitely many, a member's rank is    *)
(* the number of members before it, so that the ranks are 0 to n - 1 and   *)
(* each is held by one member.                                             *)
(***************************************************************************)
EXTENDS CreatePost, FiniteSetTheorems, TLAPS

States == {"none", "words", "scoring", "done", "failed"}
Places == {"idle", "insert", "sync", "unwind", "answered"}

Types ==
  /\ score \in [Tags -> Nat]
  /\ text \in [Calls -> Texts \cup {<<>>}]
  /\ job \in [Calls -> States]
  /\ word \in [Calls -> Nat \ {0}]
  /\ main \in [Calls -> Places]
  /\ thread \in [Calls -> {"none", "running", "ok", "failed"}]
  /\ answer \in [Calls -> {"none", "ok", "invalid", "error"}]
  /\ posts \subseteq Calls

Valid(c, i) == text[c][i] \notin InvalidWords \cup {Plain}

\* The trending server's job for call c.
JobInv(c) ==
  /\ word[c] <= Len(text[c]) + 1
  /\ job[c] = "none" => word[c] = 1
  /\ job[c] = "scoring" => word[c] <= Len(text[c]) /\ Valid(c, word[c])
  /\ job[c] = "done" => word[c] = Len(text[c]) + 1
  /\ \A i \in 1..(word[c] - 1) : Valid(c, i) => score[text[c][i]] > 0

\* The call's server thread and its trending thread.
CallInv(c) ==
  /\ thread[c] = "none" => job[c] = "none"
  /\ thread[c] = "ok" => job[c] = "done"
  /\ main[c] = "idle" => thread[c] = "none" /\ c \notin posts /\ answer[c] = "none"
  /\ main[c] \in {"insert", "sync"} => answer[c] = "none" /\ thread[c] # "none"
  /\ main[c] = "sync" => c \in posts
  /\ main[c] = "unwind" => answer[c] = "error"
  /\ main[c] = "answered" => answer[c] # "none"
  /\ answer[c] = "ok" => c \in posts /\ thread[c] = "ok"
  /\ answer[c] = "invalid" =>
       main[c] = "answered" /\ c \notin posts /\ thread[c] = "none"

FilterInv == \A t \in Tags \cap InvalidWords : score[t] = 0

Inv == Types /\ FilterInv /\ \A c \in Calls : JobInv(c) /\ CallInv(c)

\* A text is a sequence of hashtags and plain words.
LEMMA TextType ==
  ASSUME Types, NEW c \in Calls
  PROVE  text[c] \in Seq(Tags \cup {Plain})
<1>1. text[c] \in Texts \/ text[c] = <<>>
  BY DEF Types
<1>2. <<>> \in Seq(Tags \cup {Plain})
  OBVIOUS
<1> QED
  BY <1>1, <1>2, CallsAssumption

\* Its words, by position.
LEMMA Words ==
  ASSUME Types, NEW c \in Calls, NEW i \in 1..Len(text[c])
  PROVE  Len(text[c]) \in Nat /\ text[c][i] \in Tags \cup {Plain}
BY TextType

\* Its length.
LEMMA Lengths ==
  ASSUME Types, NEW c \in Calls
  PROVE  Len(text[c]) \in Nat
BY TextType

\* A step of another call leaves this one's job where it is; scores only grow.
LEMMA OtherJob ==
  ASSUME Types, NEW c \in Calls, JobInv(c),
         text'[c] = text[c], job'[c] = job[c], word'[c] = word[c],
         \A t \in Tags : score'[t] >= score[t], score' \in [Tags -> Nat]
  PROVE  JobInv(c)'
<1>1. ASSUME NEW i \in 1..(word[c] - 1), Valid(c, i)
      PROVE  score'[text[c][i]] > 0
  <2>1. Len(text[c]) \in Nat /\ word[c] \in Nat /\ i \in 1..Len(text[c])
    BY Lengths DEF Types, JobInv
  <2>2. text[c][i] \in Tags
    BY <2>1, <1>1, Words DEF Valid
  <2>3. score[text[c][i]] > 0
    BY <1>1 DEF JobInv
  <2> QED
    BY <2>2, <2>3 DEF Types
<1> QED
  BY <1>1 DEF JobInv, Valid

\* What the server thread of a call and its trending thread do.
LEMMA CallStep ==
  ASSUME Inv, NEW c \in Calls, Server(c) \/ Thread(c)
  PROVE  Inv'
<1> USE CallsAssumption DEF MainGoes, ThreadGoes, Answers, Goto
<1>1. CASE Call(c)
  <2>1. PICK t \in Texts :
          /\ text' = [text EXCEPT ![c] = t]
          /\ \/ /\ MainGoes(c, "answered") /\ Answers(c, "invalid")
                /\ UNCHANGED thread
             \/ /\ MainGoes(c, "insert") /\ ThreadGoes(c, "running")
                /\ UNCHANGED answer
             \/ /\ MainGoes(c, "answered") /\ Answers(c, "error")
                /\ UNCHANGED thread
    BY <1>1 DEF Call
  <2>2. main[c] = "idle" /\ UNCHANGED <<score, job, word, posts>>
    BY <1>1 DEF Call
  <2>3. Types'
    BY <2>1, <2>2 DEF Inv, Types, Places
  <2>4. /\ text'[c] = t /\ Len(t) \in Nat /\ word[c] = 1 /\ job[c] = "none"
        /\ thread[c] = "none" /\ c \notin posts /\ answer[c] = "none"
    BY <2>1, <2>2 DEF Inv, Types, JobInv, CallInv
  <2>5. JobInv(c)'
    BY <2>2, <2>4 DEF JobInv
  <2>6. ASSUME NEW d \in Calls \ {c}
        PROVE  JobInv(d)'
    <3>1. text'[d] = text[d]
      BY <2>1 DEF Inv, Types
    <3> QED
      BY <3>1, <2>2 DEF Inv, JobInv, Valid
  <2>7. CallInv(c)'
    BY <2>1, <2>2, <2>4 DEF Inv, Types, CallInv
  <2>8. \A d \in Calls \ {c} : CallInv(d)'
    BY <2>1, <2>2 DEF Inv, Types, CallInv
  <2> QED
    BY <2>2, <2>3, <2>5, <2>6, <2>7, <2>8 DEF Inv, FilterInv
<1>2. CASE Send(c)
  <2>1. /\ thread[c] = "running" /\ job[c] = "none" /\ job' = [job EXCEPT ![c] = "words"]
        /\ UNCHANGED <<score, text, word, main, thread, answer, posts>>
    BY <1>2 DEF Send
  <2>2. Types'
    BY <2>1 DEF Inv, Types, States
  <2>3. \A d \in Calls : JobInv(d)'
    BY <2>1 DEF Inv, Types, JobInv, Valid
  <2>4. \A d \in Calls : CallInv(d)'
    BY <2>1 DEF Inv, Types, CallInv
  <2> QED
    BY <2>1, <2>2, <2>3, <2>4 DEF Inv, FilterInv
<1>3. CASE Insert(c) \/ InsertFails(c) \/ Sync(c) \/ Unwind(c) \/ Receive(c) \/ RpcFails(c)
  <2>1. UNCHANGED <<score, text, job, word>>
    BY <1>3 DEF Insert, InsertFails, Sync, Unwind, Receive, RpcFails
  <2>2. \A d \in Calls : JobInv(d)'
    BY <2>1 DEF Inv, JobInv, Valid
  <2>3. CASE Insert(c)
    BY <2>1, <2>2, <2>3 DEF Insert, Inv, Types, Places, CallInv, FilterInv
  <2>4. CASE InsertFails(c)
    BY <2>1, <2>2, <2>4 DEF InsertFails, Inv, Types, Places, CallInv, FilterInv
  <2>5. CASE Sync(c)
    BY <2>1, <2>2, <2>5 DEF Sync, Inv, Types, Places, CallInv, FilterInv
  <2>6. CASE Unwind(c)
    BY <2>1, <2>2, <2>6 DEF Unwind, Inv, Types, Places, CallInv, FilterInv
  <2>7. CASE Receive(c)
    BY <2>1, <2>2, <2>7 DEF Receive, Inv, Types, CallInv, FilterInv
  <2>8. CASE RpcFails(c)
    BY <2>1, <2>2, <2>8 DEF RpcFails, Inv, Types, CallInv, FilterInv
  <2> QED
    BY <1>3, <2>3, <2>4, <2>5, <2>6, <2>7, <2>8
<1> QED
  BY <1>1, <1>2, <1>3 DEF Server, Thread

\* A hashtag that is counted.
LEMMA Counting ==
  ASSUME Inv, NEW c \in Calls, job[c] = "scoring",
         score' \in {score, [score EXCEPT ![text[c][word[c]]] = @ + 1]}
  PROVE  /\ score' \in [Tags -> Nat] /\ FilterInv'
         /\ \A t \in Tags : score'[t] >= score[t]
<1>1. word[c] \in 1..Len(text[c]) /\ Valid(c, word[c])
  BY Lengths DEF Inv, Types, JobInv
<1>2. text[c][word[c]] \in Tags /\ text[c][word[c]] \notin InvalidWords
  BY <1>1, Words DEF Inv, Valid
<1>3. score \in [Tags -> Nat]
  BY DEF Inv, Types
<1>4. /\ score' \in [Tags -> Nat]
      /\ \A t \in Tags : score'[t] = score[t]
                       \/ (t \notin InvalidWords /\ score'[t] = score[t] + 1)
  BY <1>2, <1>3
<1> QED
  BY <1>3, <1>4 DEF Inv, FilterInv

\* A job that moves on from a word, which is not valid or has its score by now.
LEMMA MovesOn ==
  ASSUME Inv, NEW c \in Calls, word' = [word EXCEPT ![c] = @ + 1],
         text' = text, word[c] <= Len(text[c]),
         job'[c] = "words", \A t \in Tags : score'[t] >= score[t],
         score' \in [Tags -> Nat],
         Valid(c, word[c]) => score'[text[c][word[c]]] > 0
  PROVE  JobInv(c)'
<1>1. /\ Len(text[c]) \in Nat /\ word[c] \in Nat \ {0} /\ word'[c] = word[c] + 1
      /\ score \in [Tags -> Nat]
  BY Lengths DEF Inv, Types
<1>2. ASSUME NEW i \in 1..word[c], Valid(c, i)
      PROVE  score'[text[c][i]] > 0
  <2>1. CASE i = word[c]
    BY <2>1, <1>2
  <2>2. CASE i # word[c]
    <3>1. i \in 1..(word[c] - 1) /\ i \in 1..Len(text[c])
      BY <2>2, <1>1
    <3>2. score[text[c][i]] > 0
      BY <3>1, <1>2 DEF Inv, JobInv
    <3>3. text[c][i] \in Tags
      BY <3>1, <1>2, Words DEF Inv, Valid
    <3> QED
      BY <3>2, <3>3, <1>1
  <2> QED
    BY <2>1, <2>2
<1> QED
  BY <1>1, <1>2 DEF JobInv, Valid

\* A step of the job of a call.
LEMMA JobKeeps ==
  ASSUME Inv, NEW c \in Calls, JobStep(c)
  PROVE  Inv'
<1> USE DEF Goto, NextWord
<1>1. /\ UNCHANGED <<text, main, thread, answer, posts>>
      /\ job[c] \in {"words", "scoring"}
  BY DEF JobStep, Job, SkipPlainWord, FilterHashtag, ScoreHashtag, ScoreFails, LastWord
<1>2. Types /\ Len(text[c]) \in Nat /\ word[c] \in Nat \ {0} /\ JobInv(c)
  BY Lengths DEF Inv, Types
<1>3. /\ job' \in [Calls -> States] /\ word' \in [Calls -> Nat \ {0}]
      /\ job'[c] # "none"
      /\ \A d \in Calls \ {c} : job'[d] = job[d] /\ word'[d] = word[d]
      /\ score' \in [Tags -> Nat] /\ FilterInv'
      /\ \A t \in Tags : score'[t] >= score[t]
      /\ JobInv(c)'
  <2>1. CASE SkipPlainWord(c)
    <3>1. /\ job[c] = "words" /\ word[c] <= Len(text[c]) /\ ~Valid(c, word[c])
          /\ word' = [word EXCEPT ![c] = @ + 1] /\ UNCHANGED <<score, text, job>>
      BY <2>1 DEF SkipPlainWord, Valid
    <3>2. score' \in [Tags -> Nat] /\ \A t \in Tags : score'[t] >= score[t]
      BY <3>1, <1>2 DEF Types
    <3>3. JobInv(c)'
      BY <3>1, <3>2, MovesOn
    <3> QED
      BY <3>1, <3>2, <3>3, <1>2 DEF Types, Inv, FilterInv
  <2>2. CASE FilterHashtag(c)
    <3>1. /\ job[c] = "words" /\ word[c] <= Len(text[c])
          /\ UNCHANGED <<score, text>>
          /\ \/ /\ Valid(c, word[c])
                /\ job' = [job EXCEPT ![c] = "scoring"] /\ UNCHANGED word
             \/ /\ ~Valid(c, word[c])
                /\ word' = [word EXCEPT ![c] = @ + 1] /\ UNCHANGED job
             \/ job' = [job EXCEPT ![c] = "failed"] /\ UNCHANGED word
      BY <2>2 DEF FilterHashtag, is_valid_word, Valid
    <3>2. score' \in [Tags -> Nat] /\ \A t \in Tags : score'[t] >= score[t]
      BY <3>1, <1>2 DEF Types
    <3>3. job \in [Calls -> States] /\ word \in [Calls -> Nat \ {0}] /\ FilterInv'
      BY <3>1, <1>2 DEF Types, Inv, FilterInv
    <3>4. CASE Valid(c, word[c]) /\ job' = [job EXCEPT ![c] = "scoring"] /\ UNCHANGED word
      <4>1. JobInv(c)'
        BY <3>1, <3>3, <3>4, <1>2 DEF JobInv, Valid
      <4> QED
        BY <4>1, <3>2, <3>3, <3>4 DEF States
    <3>5. CASE ~Valid(c, word[c]) /\ word' = [word EXCEPT ![c] = @ + 1] /\ UNCHANGED job
      <4>1. JobInv(c)'
        BY <3>1, <3>2, <3>5, MovesOn
      <4> QED
        BY <4>1, <3>1, <3>2, <3>3, <3>5
    <3>6. CASE job' = [job EXCEPT ![c] = "failed"] /\ UNCHANGED word
      <4>1. JobInv(c)'
        BY <3>1, <3>3, <3>6, <1>2 DEF JobInv, Valid
      <4> QED
        BY <4>1, <3>2, <3>3, <3>6 DEF States
    <3> QED
      BY <3>1, <3>4, <3>5, <3>6
  <2>3. CASE ScoreHashtag(c)
    <3>1. /\ job[c] = "scoring" /\ score' = [score EXCEPT ![text[c][word[c]]] = @ + 1]
          /\ job' = [job EXCEPT ![c] = "words"]
          /\ word' = [word EXCEPT ![c] = @ + 1] /\ text' = text
      BY <2>3 DEF ScoreHashtag
    <3>2. /\ score' \in [Tags -> Nat] /\ FilterInv'
          /\ \A t \in Tags : score'[t] >= score[t]
      BY <3>1, Counting
    <3>3. word[c] \in 1..Len(text[c]) /\ Valid(c, word[c]) /\ word[c] <= Len(text[c])
      BY <3>1, <1>2 DEF JobInv
    <3>4. text[c][word[c]] \in Tags
      BY <3>3, <1>2, Words DEF Valid
    <3>5. score'[text[c][word[c]]] > 0
      BY <3>1, <3>4, <1>2 DEF Types
    <3>6. job'[c] = "words"
      BY <3>1, <1>2 DEF Types
    <3>7. JobInv(c)'
      BY <3>1, <3>2, <3>3, <3>5, <3>6, MovesOn
    <3> QED
      BY <3>1, <3>2, <3>7, <1>2 DEF Types, States
  <2>4. CASE ScoreFails(c)
    <3>1. /\ job[c] = "scoring" /\ job' = [job EXCEPT ![c] = "failed"]
          /\ score' \in {score, [score EXCEPT ![text[c][word[c]]] = @ + 1]}
          /\ word' = word /\ text' = text
      BY <2>4 DEF ScoreFails
    <3>2. /\ score' \in [Tags -> Nat] /\ FilterInv'
          /\ \A t \in Tags : score'[t] >= score[t]
      BY <3>1, Counting
    <3>3. ASSUME NEW i \in 1..(word[c] - 1), Valid(c, i)
          PROVE  score'[text[c][i]] > 0
      <4>1. i \in 1..Len(text[c]) /\ score[text[c][i]] > 0
        BY <3>3, <1>2 DEF JobInv
      <4>2. text[c][i] \in Tags
        BY <4>1, <3>3, <1>2, Words DEF Valid
      <4> QED
        BY <4>1, <4>2, <3>2, <1>2 DEF Types
    <3>4. job'[c] = "failed"
      BY <3>1, <1>2 DEF Types
    <3>5. JobInv(c)'
      BY <3>1, <3>3, <3>4, <1>2 DEF JobInv, Valid
    <3> QED
      BY <3>1, <3>2, <3>5, <1>2 DEF Types, States
  <2>5. CASE LastWord(c)
    <3>1. /\ job[c] = "words" /\ word[c] > Len(text[c])
          /\ job' = [job EXCEPT ![c] = "done"] /\ UNCHANGED <<score, text, word>>
      BY <2>5 DEF LastWord
    <3>2. word[c] = Len(text[c]) + 1
      BY <3>1, <1>2 DEF JobInv
    <3> QED
      BY <3>1, <3>2, <1>2 DEF Types, States, JobInv, Valid, Inv, FilterInv
  <2> QED
    BY <2>1, <2>2, <2>3, <2>4, <2>5 DEF JobStep, Job
<1>4. Types'
  BY <1>1, <1>2, <1>3 DEF Types
<1>5. \A d \in Calls \ {c} : JobInv(d)'
  BY <1>1, <1>2, <1>3, OtherJob DEF Inv
<1>6. ASSUME NEW d \in Calls
      PROVE  CallInv(d)'
  <2>1. CallInv(d)
    BY DEF Inv
  <2>2. CASE d # c
    BY <2>1, <2>2, <1>1, <1>3 DEF CallInv
  <2>3. CASE d = c
    <3>1. thread[c] \notin {"none", "ok"}
      BY <2>1, <2>3, <1>1 DEF CallInv
    <3> QED
      BY <3>1, <2>1, <2>3, <1>1 DEF CallInv
  <2> QED
    BY <2>2, <2>3
<1> QED
  BY <1>3, <1>4, <1>5, <1>6 DEF Inv

\* The invariant, of every behaviour.
LEMMA Invariance == Spec => []Inv
<1>1. Init => Inv
  BY CallsAssumption
     DEF Init, TrendingInit, Inv, Types, States, Places, FilterInv, JobInv, CallInv
<1>2. Inv /\ UNCHANGED vars => Inv'
  BY DEF vars, Inv, Types, FilterInv, JobInv, Valid, CallInv
<1>3. Inv /\ [Next]_vars => Inv'
  BY <1>2, CallStep, JobKeeps DEF Next
<1> QED
  BY <1>1, <1>3, PTL DEF Spec

\* Type correctness, and that no job runs without a thread that asked for it.
THEOREM TypeCorrect == Spec => []TypeOK
<1>1. ASSUME Inv
      PROVE  TypeOK
  <2>1. \A c \in Calls : word[c] \in 1..(Len(text[c]) + 1)
    BY <1>1, Lengths DEF Inv, Types, JobInv
  <2> QED
    BY <1>1, <2>1 DEF Inv, Types, States, Places, CallInv, TypeOK
<1> QED
  BY Invariance, <1>1, PTL

\* A text that was rejected leaves no post and no job.
THEOREM RejectedLeavesNoTraceHolds == Spec => []RejectedLeavesNoTrace
<1>1. Inv => RejectedLeavesNoTrace
  BY DEF Inv, CallInv, RejectedLeavesNoTrace, Answered
<1> QED
  BY Invariance, <1>1, PTL

\* Each hashtag of a post that was answered "ok" is a member of the sorted set,
\* if the filter lets it pass.
LEMMA OkCounted ==
  ASSUME Inv, NEW c \in Answered("ok"), NEW i \in DOMAIN text[c],
         text[c][i] \notin InvalidWords \cup {Plain}
  PROVE  text[c][i] \in Members
<1>1. c \in Calls /\ answer[c] = "ok"
  BY DEF Answered
<1>2. word[c] = Len(text[c]) + 1 /\ JobInv(c)
  BY <1>1 DEF Inv, CallInv, JobInv
<1>3. text[c] \in Seq(Tags \cup {Plain})
  BY <1>1, TextType DEF Inv
<1>4. i \in 1..Len(text[c]) /\ i \in 1..(word[c] - 1) /\ text[c][i] \in Tags
  BY <1>2, <1>3
<1>5. score[text[c][i]] > 0
  BY <1>2, <1>4 DEF JobInv, Valid
<1> QED
  BY <1>4, <1>5 DEF Members

-----------------------------------------------------------------------------
(* What a score counts: the invariant of the sums *)

\* The jobs the trending server heard of, and the places of their texts.
Working == {c \in Calls : job[c] # "none"}
Slots == Working \X (1..MaxSize)

\* An occurrence of t that a job has behind it was counted; one that a failed
\* job stopped at may have been.
Behind(t, c, i) == i < word[c] /\ text[c][i] = t
StoppedAt(t, c, i) ==
  /\ i = word[c] /\ i <= Len(text[c])
  /\ job[c] = "failed" /\ text[c][i] = t

Sure(t) == {o \in Slots : Behind(t, o[1], o[2])}
Possible(t) ==
  {o \in Slots : Behind(t, o[1], o[2]) \/ StoppedAt(t, o[1], o[2])}

ShortTexts == \A c \in Calls : thread[c] # "none" => Len(text[c]) <= MaxSize

Counted(t) == Cardinality(Sure(t)) <= score[t] /\ score[t] <= Cardinality(Possible(t))

SumInv ==
  /\ IsFiniteSet(Working)
  /\ ShortTexts
  /\ \A t \in Tags \ InvalidWords : Counted(t)

\* The occurrences are finitely many.
LEMMA OccurrencesFinite ==
  ASSUME IsFiniteSet(Working)
  PROVE  /\ IsFiniteSet(Slots)
         /\ \A t : /\ IsFiniteSet(Sure(t)) /\ IsFiniteSet(Possible(t))
                   /\ Cardinality(Sure(t)) \in Nat
                   /\ Cardinality(Possible(t)) \in Nat
<1>1. IsFiniteSet(1..MaxSize)
  BY FS_Interval, CallsAssumption
<1>2. IsFiniteSet(Slots)
  BY <1>1, FS_Product DEF Slots
<1>3. ASSUME NEW t
      PROVE  /\ IsFiniteSet(Sure(t)) /\ IsFiniteSet(Possible(t))
             /\ Cardinality(Sure(t)) \in Nat
             /\ Cardinality(Possible(t)) \in Nat
  <2>1. Sure(t) \in SUBSET Slots /\ Possible(t) \in SUBSET Slots
    BY DEF Sure, Possible
  <2>2. IsFiniteSet(Sure(t)) /\ IsFiniteSet(Possible(t))
    BY <1>2, <2>1, FS_Subset
  <2> QED
    BY <2>2, FS_CardinalityType
<1> QED
  BY <1>2, <1>3

\* A step of a job changes no other job.
LEMMA JobAlone ==
  ASSUME Inv, NEW c \in Calls, JobStep(c)
  PROVE  /\ text' = text /\ UNCHANGED <<main, thread, answer, posts>>
         /\ job[c] \in {"words", "scoring"} /\ job'[c] # "none"
         /\ \A d \in Calls \ {c} : job'[d] = job[d] /\ word'[d] = word[d]
         /\ Working' = Working /\ Slots' = Slots
<1>1. /\ text' = text /\ UNCHANGED <<main, thread, answer, posts>>
      /\ job[c] \in {"words", "scoring"}
  BY DEF JobStep, Job, SkipPlainWord, FilterHashtag, ScoreHashtag, ScoreFails, LastWord
<1>2. job \in [Calls -> States] /\ word \in [Calls -> Nat \ {0}]
  BY DEF Inv, Types
<1>3. /\ job'[c] # "none"
      /\ \A d \in Calls \ {c} : job'[d] = job[d] /\ word'[d] = word[d]
  BY <1>1, <1>2
     DEF JobStep, Job, SkipPlainWord, FilterHashtag, ScoreHashtag, ScoreFails,
         LastWord, Goto, NextWord
<1>4. Working' = Working
  BY <1>1, <1>3 DEF Working
<1> QED
  BY <1>1, <1>3, <1>4 DEF Slots

\* What a step of a job does to the counting of t: nothing; or the job stops at
\* an occurrence, counted or not; or it counts one and has it behind it.
LEMMA JobCounts ==
  ASSUME Inv, NEW c \in Calls, JobStep(c), NEW t \in Tags \ InvalidWords,
         ShortTexts
  PROVE  LET o == <<c, word[c]>> IN
         \/ /\ Sure(t)' = Sure(t) /\ Possible(t)' = Possible(t)
            /\ score'[t] = score[t]
         \/ /\ o \notin Possible(t)
            /\ Sure(t)' = Sure(t) /\ Possible(t)' = Possible(t) \cup {o}
            /\ score'[t] \in {score[t], score[t] + 1}
         \/ /\ o \notin Possible(t) /\ o \notin Sure(t)
            /\ Sure(t)' = Sure(t) \cup {o} /\ Possible(t)' = Possible(t) \cup {o}
            /\ score'[t] = score[t] + 1
<1> USE DEF Goto, NextWord
<1>1. /\ text' = text /\ job[c] \in {"words", "scoring"} /\ job'[c] # "none"
      /\ \A d \in Calls \ {c} : job'[d] = job[d] /\ word'[d] = word[d]
      /\ Working' = Working /\ Slots' = Slots
  BY JobAlone
<1>2. /\ job \in [Calls -> States] /\ word \in [Calls -> Nat \ {0}]
      /\ score \in [Tags -> Nat] /\ Len(text[c]) \in Nat /\ JobInv(c)
      /\ word[c] \in Nat \ {0}
  BY Lengths DEF Inv, Types
<1>3. \A o \in Slots : o \in Working \X (1..MaxSize) /\ o[1] \in Calls /\ o[2] \in Nat
  BY DEF Slots, Working
<1>4. \A o \in Slots : o[1] # c =>
        /\ Behind(t, o[1], o[2])' <=> Behind(t, o[1], o[2])
        /\ StoppedAt(t, o[1], o[2])' <=> StoppedAt(t, o[1], o[2])
  BY <1>1, <1>3 DEF Behind, StoppedAt
<1>5. Sure(t)' = {o \in Slots : Behind(t, o[1], o[2])'}
  BY <1>1 DEF Sure, Behind
<1>6. Possible(t)' =
        {o \in Slots : Behind(t, o[1], o[2])' \/ StoppedAt(t, o[1], o[2])'}
  BY <1>1 DEF Possible, Behind, StoppedAt
<1>7. ASSUME word[c] <= Len(text[c])
      PROVE  /\ <<c, word[c]>> \in Slots
             /\ \A o \in Slots : o[1] = c /\ o[2] = word[c] <=> o = <<c, word[c]>>
  <2>1. thread[c] # "none"
    BY <1>1 DEF Inv, CallInv
  <2>2. word[c] \in 1..MaxSize /\ c \in Working
    BY <1>1, <1>2, <1>7, <2>1, CallsAssumption DEF ShortTexts, Working
  <2> QED
    BY <2>2, <1>3 DEF Slots
<1>8. <<c, word[c]>> \notin Possible(t)
  <2>1. ~Behind(t, c, word[c]) /\ ~StoppedAt(t, c, word[c])
    BY <1>1, <1>2 DEF Behind, StoppedAt
  <2> QED
    BY <2>1 DEF Possible
<1>9. <<c, word[c]>> \notin Sure(t)
  BY <1>8 DEF Sure, Possible
\* The job leaves a word behind that is not t, or stays.
<1>10. ASSUME score' = score, job'[c] # "failed",
              \/ word'[c] = word[c]
              \/ /\ word'[c] = word[c] + 1 /\ text[c][word[c]] # t
       PROVE  /\ Sure(t)' = Sure(t) /\ Possible(t)' = Possible(t)
              /\ score'[t] = score[t]
  <2>1. \A o \in Slots : o[1] = c =>
          /\ Behind(t, o[1], o[2])' <=> Behind(t, o[1], o[2])
          /\ ~StoppedAt(t, o[1], o[2])' /\ ~StoppedAt(t, o[1], o[2])
    BY <1>1, <1>2, <1>3, <1>10 DEF Behind, StoppedAt
  <2> QED
    BY <2>1, <1>4, <1>5, <1>6, <1>10 DEF Sure, Possible
\* The job stops.
<1>11. ASSUME score'[t] \in {score[t], score[t] + 1}, word' = word,
              word[c] <= Len(text[c]), job'[c] = "failed", 
              text[c][word[c]] # t => score'[t] = score[t]
       PROVE  \/ /\ Sure(t)' = Sure(t) /\ Possible(t)' = Possible(t)
                 /\ score'[t] = score[t]
              \/ /\ Sure(t)' = Sure(t)
                 /\ Possible(t)' = Possible(t) \cup {<<c, word[c]>>}
                 /\ score'[t] \in {score[t], score[t] + 1}
  <2>1. \A o \in Slots : o[1] = c =>
          /\ Behind(t, o[1], o[2])' <=> Behind(t, o[1], o[2])
          /\ ~StoppedAt(t, o[1], o[2])
          /\ StoppedAt(t, o[1], o[2])' <=> (o[2] = word[c] /\ text[c][word[c]] = t)
    BY <1>1, <1>2, <1>3, <1>11 DEF Behind, StoppedAt
  <2>2. Sure(t)' = Sure(t)
    BY <2>1, <1>4, <1>5 DEF Sure
  <2>3. CASE text[c][word[c]] # t
    BY <2>1, <2>2, <2>3, <1>4, <1>6, <1>11 DEF Possible
  <2>4. CASE text[c][word[c]] = t
    <3>1. \A o \in Slots :
            (Behind(t, o[1], o[2])' \/ StoppedAt(t, o[1], o[2])')
              <=> (Behind(t, o[1], o[2]) \/ StoppedAt(t, o[1], o[2])
                   \/ o = <<c, word[c]>>)
      BY <2>1, <2>4, <1>4, <1>7, <1>11
    <3>2. Possible(t)' = Possible(t) \cup {<<c, word[c]>>}
      BY <3>1, <1>6, <1>7, <1>11 DEF Possible
    <3> QED
      BY <2>2, <3>2, <1>11
  <2> QED
    BY <2>3, <2>4
\* The job counts a hashtag and goes on.
<1>12. ASSUME score' = [score EXCEPT ![text[c][word[c]]] = @ + 1],
              text[c][word[c]] \in Tags, word'[c] = word[c] + 1,
              word[c] <= Len(text[c]), job'[c] = "words"
       PROVE  \/ /\ Sure(t)' = Sure(t) /\ Possible(t)' = Possible(t)
                 /\ score'[t] = score[t]
              \/ /\ Sure(t)' = Sure(t) \cup {<<c, word[c]>>}
                 /\ Possible(t)' = Possible(t) \cup {<<c, word[c]>>}
                 /\ score'[t] = score[t] + 1
  <2>1. \A o \in Slots : o[1] = c =>
          /\ Behind(t, o[1], o[2])' <=>
               Behind(t, o[1], o[2]) \/ (o[2] = word[c] /\ text[c][word[c]] = t)
          /\ ~StoppedAt(t, o[1], o[2])' /\ ~StoppedAt(t, o[1], o[2])
    BY <1>1, <1>2, <1>3, <1>12 DEF Behind, StoppedAt
  <2>2. CASE text[c][word[c]] # t
    <3>1. score'[t] = score[t]
      BY <2>2, <1>2, <1>12
    <3> QED
      BY <2>1, <2>2, <3>1, <1>4, <1>5, <1>6 DEF Sure, Possible
  <2>3. CASE text[c][word[c]] = t
    <3>1. score'[t] = score[t] + 1
      BY <2>3, <1>2, <1>12
    <3>2. \A o \in Slots :
            /\ Behind(t, o[1], o[2])' <=>
                 Behind(t, o[1], o[2]) \/ o = <<c, word[c]>>
            /\ (Behind(t, o[1], o[2])' \/ StoppedAt(t, o[1], o[2])')
                 <=> (Behind(t, o[1], o[2]) \/ StoppedAt(t, o[1], o[2])
                      \/ o = <<c, word[c]>>)
      BY <2>1, <2>3, <1>4, <1>7, <1>12
    <3>3. Sure(t)' = Sure(t) \cup {<<c, word[c]>>}
      BY <3>2, <1>5, <1>7, <1>12 DEF Sure
    <3>4. Possible(t)' = Possible(t) \cup {<<c, word[c]>>}
      BY <3>2, <1>6, <1>7, <1>12 DEF Possible
    <3> QED
      BY <3>1, <3>3, <3>4
  <2> QED
    BY <2>2, <2>3
<1>13. CASE SkipPlainWord(c)
  <2>1. /\ score' = score /\ job'[c] # "failed" /\ word'[c] = word[c] + 1
        /\ text[c][word[c]] # t
    BY <1>13, <1>2, TagsAssumption DEF SkipPlainWord
  <2> QED
    BY <2>1, <1>10
<1>14. CASE FilterHashtag(c)
  <2>1. /\ job[c] = "words" /\ word[c] <= Len(text[c]) /\ score' = score
        /\ \/ job'[c] = "scoring" /\ word' = word
           \/ /\ job'[c] = "words" /\ text[c][word[c]] \in InvalidWords
              /\ word'[c] = word[c] + 1
           \/ job'[c] = "failed" /\ word' = word
    BY <1>14, <1>2 DEF FilterHashtag, is_valid_word
  <2>2. CASE job'[c] = "failed" /\ word' = word
    BY <2>1, <2>2, <1>8, <1>11
  <2>3. CASE job'[c] # "failed"
    BY <2>1, <2>3, <1>10
  <2> QED
    BY <2>1, <2>2, <2>3
<1>15. CASE ScoreHashtag(c) \/ ScoreFails(c)
  <2>1. job[c] = "scoring"
    BY <1>15 DEF ScoreHashtag, ScoreFails
  <2>2. word[c] <= Len(text[c]) /\ Valid(c, word[c]) /\ word[c] \in 1..Len(text[c])
    BY <2>1, <1>2 DEF JobInv
  <2>3. text[c][word[c]] \in Tags
    BY <2>2, Words DEF Inv, Valid
  <2>4. CASE ScoreHashtag(c)
    <3>1. /\ score' = [score EXCEPT ![text[c][word[c]]] = @ + 1]
          /\ word'[c] = word[c] + 1 /\ job'[c] = "words"
      BY <2>4, <1>2 DEF ScoreHashtag
    <3> QED
      BY <3>1, <2>2, <2>3, <1>8, <1>9, <1>12
  <2>5. CASE ScoreFails(c)
    <3>1. /\ score' \in {score, [score EXCEPT ![text[c][word[c]]] = @ + 1]}
          /\ word' = word /\ job'[c] = "failed"
      BY <2>5, <1>2 DEF ScoreFails
    <3>2. /\ score'[t] \in {score[t], score[t] + 1}
          /\ text[c][word[c]] # t => score'[t] = score[t]
      BY <3>1, <2>3, <1>2
    <3> QED
      BY <3>1, <3>2, <2>2, <1>8, <1>11
  <2> QED
    BY <1>15, <2>4, <2>5
<1>16. CASE LastWord(c)
  <2>1. score' = score /\ job'[c] # "failed" /\ word'[c] = word[c]
    BY <1>16, <1>2 DEF LastWord
  <2> QED
    BY <2>1, <1>10
<1> QED
  BY <1>13, <1>14, <1>15, <1>16 DEF JobStep, Job

\* A step of a job keeps the sums right.
LEMMA JobKeepsSums ==
  ASSUME Inv, SumInv, NEW c \in Calls, JobStep(c)
  PROVE  SumInv'
<1>1. /\ text' = text /\ thread' = thread /\ Working' = Working
  BY JobAlone
<1>2. ASSUME NEW t \in Tags \ InvalidWords
      PROVE  Counted(t)'
  <2>1. /\ Counted(t) /\ score[t] \in Nat
        /\ Cardinality(Sure(t)) \in Nat /\ Cardinality(Possible(t)) \in Nat
        /\ IsFiniteSet(Sure(t)) /\ IsFiniteSet(Possible(t))
    BY OccurrencesFinite DEF SumInv, Inv, Types
  <2>2. /\ Cardinality(Sure(t) \cup {<<c, word[c]>>}) =
             IF <<c, word[c]>> \in Sure(t) THEN Cardinality(Sure(t))
                                           ELSE Cardinality(Sure(t)) + 1
        /\ Cardinality(Possible(t) \cup {<<c, word[c]>>}) =
             IF <<c, word[c]>> \in Possible(t) THEN Cardinality(Possible(t))
                                               ELSE Cardinality(Possible(t)) + 1
    BY <2>1, FS_AddElement
  <2>3. LET o == <<c, word[c]>> IN
         \/ /\ Sure(t)' = Sure(t) /\ Possible(t)' = Possible(t)
            /\ score'[t] = score[t]
         \/ /\ o \notin Possible(t)
            /\ Sure(t)' = Sure(t) /\ Possible(t)' = Possible(t) \cup {o}
            /\ score'[t] \in {score[t], score[t] + 1}
         \/ /\ o \notin Possible(t) /\ o \notin Sure(t)
            /\ Sure(t)' = Sure(t) \cup {o} /\ Possible(t)' = Possible(t) \cup {o}
            /\ score'[t] = score[t] + 1
    BY JobCounts DEF SumInv
  <2>4. /\ Cardinality(Sure(t)) <= score[t] /\ score[t] <= Cardinality(Possible(t))
        /\ score[t] \in Nat
        /\ Cardinality(Sure(t)) \in Nat /\ Cardinality(Possible(t)) \in Nat
    BY <2>1 DEF Counted
  <2>5. \/ /\ Cardinality(Sure(t)') = Cardinality(Sure(t))
           /\ Cardinality(Possible(t)') = Cardinality(Possible(t))
           /\ score'[t] = score[t]
        \/ /\ Cardinality(Sure(t)') = Cardinality(Sure(t))
           /\ Cardinality(Possible(t)') = Cardinality(Possible(t)) + 1
           /\ score'[t] \in {score[t], score[t] + 1}
        \/ /\ Cardinality(Sure(t)') = Cardinality(Sure(t)) + 1
           /\ Cardinality(Possible(t)') = Cardinality(Possible(t)) + 1
           /\ score'[t] = score[t] + 1
    BY <2>2, <2>3, ZenonT(30)
  <2>6. /\ Cardinality(Sure(t)') <= score'[t]
        /\ score'[t] <= Cardinality(Possible(t)')
    BY <2>4, <2>5
  <2> QED
    BY <2>6 DEF Counted
<1> QED
  BY <1>1, <1>2 DEF SumInv, ShortTexts

\* A step of a call's two threads starts a job at most, with nothing counted.
LEMMA CallKeepsSums ==
  ASSUME Inv, SumInv, NEW c \in Calls, Server(c) \/ Thread(c)
  PROVE  SumInv'
<1> USE CallsAssumption DEF MainGoes, ThreadGoes, Answers, Goto
<1>1. /\ job \in [Calls -> States] /\ thread \in [Calls -> {"none", "running", "ok", "failed"}]
      /\ text \in [Calls -> Texts \cup {<<>>}]
      /\ word \in [Calls -> Nat \ {0}]
  BY DEF Inv, Types
<1>2. score' = score /\ word' = word
  BY DEF Server, Thread, Call, Insert, InsertFails, Sync, Unwind, Send, Receive, RpcFails
<1>3. ASSUME Working' = Working, ShortTexts',
             \A d \in Working : text'[d] = text[d] /\ job'[d] = job[d]
      PROVE  SumInv'
  <2>1. \A t : Sure(t)' = Sure(t) /\ Possible(t)' = Possible(t)
    BY <1>2, <1>3 DEF Sure, Possible, Slots, Behind, StoppedAt
  <2> QED
    BY <2>1, <1>2, <1>3 DEF SumInv, Counted
<1>4. CASE Call(c)
  <2>1. PICK t \in Texts :
          /\ text' = [text EXCEPT ![c] = t]
          /\ \/ Len(t) <= MaxSize /\ thread' = [thread EXCEPT ![c] = "running"]
             \/ thread' = thread
    BY <1>4 DEF Call, validate_attributes
  <2>2. main[c] = "idle" /\ job' = job
    BY <1>4 DEF Call
  <2>3. thread[c] = "none" /\ c \notin Working
    BY <2>2 DEF Inv, CallInv, Working
  <2>4. ShortTexts'
    BY <2>1, <2>3, <1>1 DEF SumInv, ShortTexts
  <2>5. \A d \in Working : text'[d] = text[d]
    BY <2>1, <2>3, <1>1 DEF Working
  <2> QED
    BY <2>2, <2>4, <2>5, <1>3 DEF Working
<1>5. CASE Send(c)
  <2>1. /\ thread[c] = "running" /\ job[c] = "none" /\ job' = [job EXCEPT ![c] = "words"]
        /\ text' = text /\ thread' = thread
    BY <1>5 DEF Send
  <2>2. /\ Working' = Working \cup {c} /\ c \notin Working
        /\ \A d \in Working : job'[d] = job[d]
        /\ job'[c] = "words" /\ word[c] = 1
    BY <2>1, <1>1 DEF Working, Inv, JobInv
  <2>3. ASSUME NEW t
        PROVE  Sure(t)' = Sure(t) /\ Possible(t)' = Possible(t)
    <3>1. \A i \in 1..MaxSize : ~Behind(t, c, i)' /\ ~StoppedAt(t, c, i)'
      BY <2>2, <1>2 DEF Behind, StoppedAt
    <3>2. \A d \in Working : \A i \in 1..MaxSize :
            /\ Behind(t, d, i)' <=> Behind(t, d, i)
            /\ StoppedAt(t, d, i)' <=> StoppedAt(t, d, i)
      BY <2>1, <2>2, <1>2 DEF Behind, StoppedAt
    <3>3. Sure(t)' = {o \in (Working \cup {c}) \X (1..MaxSize) : Behind(t, o[1], o[2])'}
      BY <2>2 DEF Sure, Slots, Behind
    <3>4. Possible(t)' = {o \in (Working \cup {c}) \X (1..MaxSize) :
                            Behind(t, o[1], o[2])' \/ StoppedAt(t, o[1], o[2])'}
      BY <2>2 DEF Possible, Slots, Behind, StoppedAt
    <3> QED
      BY <3>1, <3>2, <3>3, <3>4 DEF Sure, Possible, Slots
  <2>4. IsFiniteSet(Working')
    BY <2>2, FS_AddElement DEF SumInv
  <2>5. ShortTexts'
    BY <2>1 DEF SumInv, ShortTexts
  <2>6. \A t \in Tags \ InvalidWords : Counted(t)'
    BY <2>3, <1>2 DEF SumInv, Counted
  <2> QED
    BY <2>4, <2>5, <2>6 DEF SumInv
<1>6. CASE Insert(c) \/ InsertFails(c) \/ Sync(c) \/ Unwind(c) \/ Receive(c) \/ RpcFails(c)
  <2>1. text' = text /\ job' = job
    BY <1>6 DEF Insert, InsertFails, Sync, Unwind, Receive, RpcFails
  <2>2. \A d \in Calls : thread'[d] # "none" => thread[d] # "none"
    BY <1>6, <1>1 DEF Insert, InsertFails, Sync, Unwind, Receive, RpcFails
  <2>3. ShortTexts'
    BY <2>1, <2>2 DEF SumInv, ShortTexts
  <2> QED
    BY <2>1, <2>3, <1>3 DEF Working
<1> QED
  BY <1>4, <1>5, <1>6 DEF Server, Thread

\* The sums, of every behaviour.
LEMMA SumInvariance == Spec => [](Inv /\ SumInv)
<1>1. ASSUME Init
      PROVE  SumInv
  <2>1. Working = {} /\ ShortTexts
    BY <1>1, CallsAssumption DEF Init, TrendingInit, Working, ShortTexts
  <2>2. IsFiniteSet(Working)
    BY <2>1, FS_EmptySet
  <2>3. \A t : Sure(t) = {} /\ Possible(t) = {}
    BY <2>1 DEF Sure, Possible, Slots
  <2>4. Cardinality({}) = 0
    BY FS_EmptySet
  <2>5. \A t \in Tags : score[t] = 0
    BY <1>1 DEF Init, TrendingInit
  <2> QED
    BY <2>1, <2>2, <2>3, <2>4, <2>5 DEF SumInv, Counted
<1>2. ASSUME SumInv, UNCHANGED vars
      PROVE  SumInv'
  <2>1. /\ UNCHANGED <<score, text, job, word, thread>> /\ Working' = Working
        /\ Slots' = Slots
    BY <1>2 DEF vars, Working, Slots
  <2>2. \A t : Sure(t)' = Sure(t) /\ Possible(t)' = Possible(t)
    BY <2>1 DEF Sure, Possible, Behind, StoppedAt
  <2> QED
    BY <1>2, <2>1, <2>2 DEF SumInv, ShortTexts, Counted
<1>3. Inv /\ SumInv /\ [Next]_vars => SumInv'
  BY <1>2, JobKeepsSums, CallKeepsSums DEF Next
<1> QED
  BY <1>1, <1>3, Invariance, PTL DEF Spec

\* The bounds the run checks. A call answered "ok" has its whole text behind it;
\* a job counts what is in its text and nothing else.
THEOREM ScoreBoundsHolds == Spec => []ScoreBounds
<1>1. ASSUME Inv, SumInv, NEW t \in Tags \ InvalidWords
      PROVE  /\ Total(t, Answered("ok")) <= score[t]
             /\ score[t] <= Total(t, {c \in Calls : job[c] # "none"})
  <2>1. /\ Counted(t) /\ score[t] \in Nat
        /\ Cardinality(Sure(t)) \in Nat /\ Cardinality(Possible(t)) \in Nat
        /\ IsFiniteSet(Sure(t)) /\ IsFiniteSet(Slots)
    BY <1>1, OccurrencesFinite DEF SumInv, Inv, Types
  <2>2. ASSUME NEW o \in Occurrences(t, Answered("ok"))
        PROVE  o \in Sure(t)
    <3>1. /\ o \in Calls \X (1..MaxSize) /\ answer[o[1]] = "ok"
          /\ o[2] \in DOMAIN text[o[1]] /\ text[o[1]][o[2]] = t
      BY DEF Occurrences, Answered
    <3>2. job[o[1]] = "done" /\ word[o[1]] = Len(text[o[1]]) + 1
      BY <3>1, <1>1 DEF Inv, CallInv, JobInv
    <3>3. text[o[1]] \in Seq(Tags \cup {Plain})
      BY <3>1, <1>1, TextType DEF Inv
    <3>4. o[2] < word[o[1]]
      BY <3>1, <3>2, <3>3
    <3> QED
      BY <3>1, <3>2, <3>4 DEF Sure, Slots, Working, Behind
  <2>3. Occurrences(t, Answered("ok")) \in SUBSET Sure(t)
    BY <2>2
  <2>4. /\ IsFiniteSet(Occurrences(t, Answered("ok")))
        /\ Cardinality(Occurrences(t, Answered("ok"))) <= Cardinality(Sure(t))
    BY <2>1, <2>3, FS_Subset
  <2>5. ASSUME NEW o \in Possible(t)
        PROVE  o \in Occurrences(t, Working)
    <3>1. /\ o \in Slots /\ o[1] \in Calls /\ o[2] \in 1..MaxSize
          /\ text[o[1]][o[2]] = t
          /\ o[2] < word[o[1]] \/ o[2] <= Len(text[o[1]])
      BY DEF Possible, Slots, Working, Behind, StoppedAt
    <3>2. word[o[1]] \in Nat /\ word[o[1]] <= Len(text[o[1]]) + 1
      BY <3>1, <1>1 DEF Inv, Types, JobInv
    <3>3. text[o[1]] \in Seq(Tags \cup {Plain})
      BY <3>1, <1>1, TextType DEF Inv
    <3>4. o[2] \in DOMAIN text[o[1]]
      BY <3>1, <3>2, <3>3
    <3> QED
      BY <3>1, <3>4 DEF Occurrences, Slots
  <2>6. IsFiniteSet(Occurrences(t, Working))
    <3>1. Occurrences(t, Working) \in SUBSET Slots
      BY DEF Occurrences, Slots
    <3> QED
      BY <3>1, <2>1, FS_Subset
  <2>7. Possible(t) \in SUBSET Occurrences(t, Working)
    BY <2>5
  <2>8. Cardinality(Possible(t)) <= Cardinality(Occurrences(t, Working))
    BY <2>6, <2>7, FS_Subset
  <2>9. /\ Cardinality(Occurrences(t, Answered("ok"))) \in Nat
        /\ Cardinality(Occurrences(t, Working)) \in Nat
    BY <2>4, <2>6, FS_CardinalityType
  <2>10. /\ Cardinality(Occurrences(t, Answered("ok"))) <= score[t]
         /\ score[t] <= Cardinality(Occurrences(t, Working))
    BY <2>1, <2>4, <2>8, <2>9 DEF Counted
  <2> QED
    BY <2>10 DEF Total, Working
<1>2. Inv => \A t \in Tags \cap InvalidWords : score[t] = 0
  BY DEF Inv, FilterInv
<1>3. Inv /\ SumInv => ScoreBounds
  BY <1>1, <1>2 DEF ScoreBounds
<1> QED
  BY SumInvariance, <1>3, PTL

-----------------------------------------------------------------------------
(* The sorted set, read by rank *)

\* The members are finitely many: each of them occurs in the text of a job.
LEMMA MembersFinite ==
  ASSUME Inv, SumInv
  PROVE  IsFiniteSet(Members)
<1> DEFINE S == {o \in Slots : text[o[1]][o[2]] \in Members}
           f == [o \in S |-> text[o[1]][o[2]]]
<1>1. ASSUME NEW t \in Members
      PROVE  \E o \in S : f[o] = t
  <2>1. t \in Tags \ InvalidWords /\ score[t] > 0 /\ score[t] \in Nat
    BY DEF Members, Inv, FilterInv, Types
  <2>2. Cardinality(Possible(t)) \in Nat /\ score[t] <= Cardinality(Possible(t))
    BY <2>1, OccurrencesFinite DEF SumInv, Counted
  <2>3. Possible(t) # {}
    <3>1. Cardinality(Possible(t)) # 0
      BY <2>1, <2>2
    <3> QED
      BY <3>1, FS_EmptySet
  <2>4. PICK o \in Possible(t) : TRUE
    BY <2>3
  <2> QED
    BY <2>4 DEF Possible, Behind, StoppedAt
<1>2. f \in Surjection(S, Members)
  BY <1>1 DEF Surjection
<1>3. S \in SUBSET Slots /\ IsFiniteSet(Slots)
  BY OccurrencesFinite DEF SumInv
<1>4. IsFiniteSet(S)
  BY <1>3, FS_Subset
<1> HIDE DEF S, f
<1> QED
  BY <1>2, <1>4, FS_Surjection

\* The order of the ranks is a strict total order of the members.
LEMMA RankOrder ==
  ASSUME Types, NEW r \in Members, NEW s \in Members, NEW t \in Members
  PROVE  /\ ~RanksBefore(s, s)
         /\ RanksBefore(r, s) /\ RanksBefore(s, t) => RanksBefore(r, t)
         /\ s # t => RanksBefore(s, t) \/ RanksBefore(t, s)
<1>1. /\ r \in Int /\ s \in Int /\ t \in Int
      /\ score[r] \in Nat /\ score[s] \in Nat /\ score[t] \in Nat
  BY TagsAssumption DEF Types, Members
<1> QED
  BY <1>1 DEF RanksBefore

\* Who is before another has the lower rank, and ranks are below the number of
\* members.
LEMMA RanksIncrease ==
  ASSUME Types, IsFiniteSet(Members), NEW s \in Members
  PROVE  /\ Rank(s) \in 0..(Cardinality(Members) - 1)
         /\ \A t \in Members : RanksBefore(s, t) => Rank(s) < Rank(t)
<1> DEFINE Before(x) == {m \in Members : RanksBefore(m, x)}
<1>1. ASSUME NEW x \in Members
      PROVE  IsFiniteSet(Before(x)) /\ Cardinality(Before(x)) \in Nat
  <2>1. Before(x) \in SUBSET Members
    OBVIOUS
  <2>2. IsFiniteSet(Before(x))
    BY <2>1, FS_Subset
  <2> QED
    BY <2>2, FS_CardinalityType
<1>2. ASSUME NEW x \in Members
      PROVE  /\ IsFiniteSet(Before(x) \cup {x})
             /\ Cardinality(Before(x) \cup {x}) = Cardinality(Before(x)) + 1
  <2>1. x \notin Before(x)
    BY RankOrder
  <2>2. IsFiniteSet(Before(x))
    BY <1>1
  <2> HIDE DEF Before
  <2> QED
    BY <2>1, <2>2, FS_AddElement
<1>3. Rank(s) \in 0..(Cardinality(Members) - 1)
  <2>1. Before(s) \cup {s} \in SUBSET Members
    OBVIOUS
  <2>2. Cardinality(Before(s) \cup {s}) <= Cardinality(Members)
    BY <2>1, FS_Subset
  <2>3. Cardinality(Members) \in Nat
    BY FS_CardinalityType
  <2>4. Cardinality(Before(s)) \in Nat
    BY <1>1
  <2>5. Cardinality(Before(s) \cup {s}) = Cardinality(Before(s)) + 1
    BY <1>2
  <2>6. Rank(s) = Cardinality(Before(s))
    BY DEF Rank
  <2> HIDE DEF Before
  <2> QED
    BY <2>2, <2>3, <2>4, <2>5, <2>6
<1>4. ASSUME NEW t \in Members, RanksBefore(s, t)
      PROVE  Rank(s) < Rank(t)
  <2>1. Before(s) \cup {s} \in SUBSET Before(t)
    BY <1>4, RankOrder
  <2>2. IsFiniteSet(Before(t)) /\ Cardinality(Before(t)) \in Nat
    BY <1>1
  <2>3. Cardinality(Before(s)) \in Nat
    BY <1>1
  <2>4. Cardinality(Before(s) \cup {s}) = Cardinality(Before(s)) + 1
    BY <1>2
  <2>5. Rank(s) = Cardinality(Before(s)) /\ Rank(t) = Cardinality(Before(t))
    BY DEF Rank
  <2> HIDE DEF Before
  <2>6. Cardinality(Before(s) \cup {s}) <= Cardinality(Before(t))
    BY <2>1, <2>2, FS_Subset
  <2> QED
    BY <2>2, <2>3, <2>4, <2>5, <2>6
<1> QED
  BY <1>3, <1>4

\* Each rank is held by exactly one member.
LEMMA OneOfEachRank ==
  ASSUME Types, IsFiniteSet(Members), NEW k \in 1..Cardinality(Members)
  PROVE  \E t \in Members :
           Rank(t) = k - 1 /\ \A s \in Members : Rank(s) = k - 1 => s = t
<1> DEFINE f == [t \in Members |-> Rank(t)]
           n == Cardinality(Members)
<1>1. n \in Nat
  BY FS_CardinalityType
<1>2. ASSUME NEW s \in Members, NEW t \in Members, Rank(s) = Rank(t)
      PROVE  s = t
  <2>1. Rank(s) \in Int /\ Rank(t) \in Int
    BY RanksIncrease, <1>1
  <2>2. ~(Rank(s) < Rank(t)) /\ ~(Rank(t) < Rank(s))
    BY <1>2, <2>1
  <2>3. ~RanksBefore(s, t) /\ ~RanksBefore(t, s)
    BY <2>2, RanksIncrease
  <2> QED
    BY <2>3, RankOrder
<1>3. f \in [Members -> 0..(n - 1)]
  BY RanksIncrease
<1>4. f \in Injection(Members, 0..(n - 1))
  BY <1>2, <1>3 DEF Injection, IsInjective
<1>5. IsFiniteSet(0..(n - 1)) /\ Cardinality(0..(n - 1)) = n
  <2>1. n - 1 \in Int /\ 0 \in Int
    BY <1>1
  <2>2. /\ IsFiniteSet(0..(n - 1))
        /\ Cardinality(0..(n - 1)) = IF 0 > n - 1 THEN 0 ELSE (n - 1) - 0 + 1
    BY <2>1, FS_Interval
  <2>3. (IF 0 > n - 1 THEN 0 ELSE (n - 1) - 0 + 1) = n
    BY <1>1
  <2> QED
    BY <2>2, <2>3
<1>6. f \in Surjection(Members, 0..(n - 1))
  <2> HIDE DEF f
  <2> QED
    BY <1>4, <1>5, FS_Injection
<1>7. k - 1 \in 0..(n - 1)
  BY <1>1
<1>8. PICK t \in Members : f[t] = k - 1
  BY <1>6, <1>7 DEF Surjection
<1> QED
  BY <1>2, <1>8

\* So the sorted set is a sequence of its members, each at its rank.
LEMMA RankedMembers ==
  ASSUME Types, IsFiniteSet(Members)
  PROVE  /\ Cardinality(Members) \in Nat
         /\ Ranked \in Seq(Members) /\ Len(Ranked) = Cardinality(Members)
         /\ \A k \in 1..Cardinality(Members) :
              Ranked[k] \in Members /\ Rank(Ranked[k]) = k - 1
         /\ \A t \in Members : /\ Rank(t) + 1 \in 1..Cardinality(Members)
                               /\ Ranked[Rank(t) + 1] = t
<1>1. Cardinality(Members) \in Nat
  BY FS_CardinalityType
<1>2. ASSUME NEW k \in 1..Cardinality(Members)
      PROVE  /\ Ranked[k] \in Members /\ Rank(Ranked[k]) = k - 1
             /\ \A s \in Members : Rank(s) = k - 1 => s = Ranked[k]
  <2>1. Ranked[k] = CHOOSE t \in Members : Rank(t) = k - 1
    BY DEF Ranked
  <2>2. PICK t \in Members :
          Rank(t) = k - 1 /\ \A s \in Members : Rank(s) = k - 1 => s = t
    BY OneOfEachRank
  <2> QED
    BY <2>1, <2>2
<1>3. Ranked \in [1..Cardinality(Members) -> Members]
  BY <1>2 DEF Ranked
<1>4. Ranked \in Seq(Members) /\ Len(Ranked) = Cardinality(Members)
  BY <1>1, <1>3
<1>5. ASSUME NEW t \in Members
      PROVE  /\ Rank(t) + 1 \in 1..Cardinality(Members)
             /\ Ranked[Rank(t) + 1] = t
  <2>1. Rank(t) \in 0..(Cardinality(Members) - 1)
    BY RanksIncrease
  <2>2. Rank(t) + 1 \in 1..Cardinality(Members) /\ (Rank(t) + 1) - 1 = Rank(t)
    BY <1>1, <2>1
  <2> QED
    BY <2>2, <1>2
<1> QED
  BY <1>1, <1>2, <1>4, <1>5

\* What a fetch returns, place by place.
LEMMA FetchedPlaces ==
  ASSUME Types, IsFiniteSet(Members), NEW limit \in Nat
  PROVE  LET n == Cardinality(Members)
             m == IF limit < n THEN limit + 1 ELSE n IN
         /\ fetch_trending_hashtags(limit) \in Seq(Members)
         /\ Len(fetch_trending_hashtags(limit)) = m
         /\ \A k \in 1..m : fetch_trending_hashtags(limit)[k] = Ranked[k]
<1> DEFINE n == Cardinality(Members)
           m == IF limit < n THEN limit + 1 ELSE n
<1>1. n \in Nat /\ Ranked \in Seq(Members) /\ Len(Ranked) = n
  BY RankedMembers
<1>2. fetch_trending_hashtags(limit) = SubSeq(Ranked, 1, m)
  BY <1>1 DEF fetch_trending_hashtags, zrange
<1>3. m \in Nat /\ m <= n
  BY <1>1
<1> HIDE DEF n, m
<1>4. /\ SubSeq(Ranked, 1, m) \in Seq(Members)
      /\ Len(SubSeq(Ranked, 1, m)) = m
      /\ \A k \in 1..m : SubSeq(Ranked, 1, m)[k] = Ranked[k]
  BY <1>1, <1>3
<1>5. /\ fetch_trending_hashtags(limit) \in Seq(Members)
      /\ Len(fetch_trending_hashtags(limit)) = m
      /\ \A k \in 1..m : fetch_trending_hashtags(limit)[k] = Ranked[k]
  BY <1>2, <1>4
<1> QED
  BY <1>5 DEF m, n

\* What a post answered "ok" promises: it is stored, and a fetch without a limit
\* shows its hashtags.
THEOREM OkMeansStoredAndTrendingHolds == Spec => []OkMeansStoredAndTrending
<1>1. ASSUME Inv, SumInv, NEW c \in Answered("ok"), NEW i \in DOMAIN text[c],
             text[c][i] \notin InvalidWords \cup {Plain}
      PROVE  \E k \in DOMAIN fetch_trending_hashtags(Cardinality(Members)) :
               fetch_trending_hashtags(Cardinality(Members))[k] = text[c][i]
  <2> DEFINE n == Cardinality(Members)
             t == text[c][i]
  <2>1. t \in Members
    BY <1>1, OkCounted
  <2>2. IsFiniteSet(Members) /\ Types
    BY <1>1, MembersFinite DEF Inv
  <2>3. n \in Nat /\ Rank(t) + 1 \in 1..n /\ Ranked[Rank(t) + 1] = t
    BY <2>1, <2>2, RankedMembers
  <2>4. /\ fetch_trending_hashtags(n) \in Seq(Members)
        /\ Len(fetch_trending_hashtags(n)) = n
        /\ \A k \in 1..n : fetch_trending_hashtags(n)[k] = Ranked[k]
    BY <2>2, <2>3, FetchedPlaces
  <2> HIDE DEF n, t
  <2>5. /\ Rank(t) + 1 \in DOMAIN fetch_trending_hashtags(n)
        /\ fetch_trending_hashtags(n)[Rank(t) + 1] = t
    BY <2>3, <2>4
  <2> QED
    BY <2>5 DEF n, t
<1>2. Inv => \A c \in Answered("ok") : c \in posts
  BY DEF Inv, CallInv, Answered
<1>3. Inv /\ SumInv => OkMeansStoredAndTrending
  BY <1>1, <1>2 DEF OkMeansStoredAndTrending
<1> QED
  BY SumInvariance, <1>3, PTL

\* What a fetch with a limit returns: the members of the ranks 0 to limit, both
\* included, each once and in the order of the ranks. (So one more than asked
\* for, from the lowest score up, as the run TrendingTop shows.)
THEOREM FetchListsLowestRanks ==
  Spec => [](\A limit \in Nat :
               LET fetched == fetch_trending_hashtags(limit) IN
               /\ \A t : (\E k \in DOMAIN fetched : fetched[k] = t)
                            <=> (t \in Members /\ Rank(t) <= limit)
               /\ \A j, k \in DOMAIN fetched :
                    j < k => RanksBefore(fetched[j], fetched[k]))
<1>1. ASSUME Inv, SumInv, NEW limit \in Nat
      PROVE  /\ \A t : (\E k \in DOMAIN fetch_trending_hashtags(limit) :
                          fetch_trending_hashtags(limit)[k] = t)
                         <=> (t \in Members /\ Rank(t) <= limit)
             /\ \A j, k \in DOMAIN fetch_trending_hashtags(limit) :
                  j < k => RanksBefore(fetch_trending_hashtags(limit)[j],
                                       fetch_trending_hashtags(limit)[k])
  <2> DEFINE F == fetch_trending_hashtags(limit)
             n == Cardinality(Members)
             m == IF limit < n THEN limit + 1 ELSE n
  <2>1. IsFiniteSet(Members) /\ Types
    BY <1>1, MembersFinite DEF Inv
  <2>2. F \in Seq(Members) /\ Len(F) = m /\ \A k \in 1..m : F[k] = Ranked[k]
    BY <2>1, FetchedPlaces
  <2>3. /\ n \in Nat
        /\ \A k \in 1..n : Ranked[k] \in Members /\ Rank(Ranked[k]) = k - 1
        /\ \A t \in Members : Rank(t) + 1 \in 1..n /\ Ranked[Rank(t) + 1] = t
    BY <2>1, RankedMembers
  <2>4. m \in 0..n /\ m <= limit + 1 /\ (m < n => m = limit + 1)
    BY <2>3
  <2>5. DOMAIN F = 1..m
    BY <2>2
  <2> HIDE DEF F, n, m
  <2>6. ASSUME NEW t, NEW k \in DOMAIN F, F[k] = t
        PROVE  t \in Members /\ Rank(t) <= limit
    <3>1. k \in 1..m /\ k \in 1..n /\ t = Ranked[k]
      BY <2>2, <2>3, <2>4, <2>5, <2>6
    <3>2. t \in Members /\ Rank(t) = k - 1
      BY <3>1, <2>3
    <3> QED
      BY <3>1, <3>2, <2>3, <2>4
  <2>7. ASSUME NEW t \in Members, Rank(t) <= limit
        PROVE  \E k \in DOMAIN F : F[k] = t
    <3>1. Rank(t) + 1 \in 1..n /\ Ranked[Rank(t) + 1] = t
      BY <2>3
    <3>2. Rank(t) \in Int
      BY <2>1, <2>3, RanksIncrease DEF n
    <3>3. Rank(t) + 1 \in 1..m
      BY <3>1, <3>2, <2>3, <2>4, <2>7
    <3> QED
      BY <3>1, <3>3, <2>2, <2>5
  <2>8. ASSUME NEW j \in DOMAIN F, NEW k \in DOMAIN F, j < k
        PROVE  RanksBefore(F[j], F[k])
    <3>1. j \in 1..m /\ k \in 1..m
      BY <2>5
    <3>2. j \in 1..n /\ k \in 1..n
      BY <3>1, <2>3, <2>4
    <3>3. /\ j \in 1..m /\ k \in 1..m /\ j \in 1..n /\ k \in 1..n
          /\ F[j] = Ranked[j] /\ F[k] = Ranked[k]
      BY <3>1, <3>2, <2>2
    <3>4. /\ F[j] \in Members /\ F[k] \in Members
          /\ Rank(F[j]) = j - 1 /\ Rank(F[k]) = k - 1
      BY <3>3, <2>3
    <3>5. Rank(F[j]) < Rank(F[k]) /\ ~(Rank(F[k]) < Rank(F[j])) /\ F[j] # F[k]
      BY <3>3, <3>4, <2>3, <2>8
    <3>6. ~RanksBefore(F[k], F[j])
      BY <2>1, <3>4, <3>5, RanksIncrease
    <3> QED
      BY <2>1, <3>4, <3>5, <3>6, RankOrder
  <2> QED
    BY <2>6, <2>7, <2>8 DEF F
<1>2. Inv /\ SumInv =>
        \A limit \in Nat :
          LET fetched == fetch_trending_hashtags(limit) IN
          /\ \A t : (\E k \in DOMAIN fetched : fetched[k] = t)
                       <=> (t \in Members /\ Rank(t) <= limit)
          /\ \A j, k \in DOMAIN fetched :
               j < k => RanksBefore(fetched[j], fetched[k])
  BY <1>1
<1> QED
  BY SumInvariance, <1>2, PTL

-----------------------------------------------------------------------------
(* What the liveness rests on: steps run out, and until the end there is one *)

\* The server thread of the call, its trending thread or its job can go on.
CallGoesOn(c) ==
  \/ main[c] = "insert"
  \/ main[c] = "sync" /\ thread[c] \in {"ok", "failed"}
  \/ main[c] = "unwind" /\ thread[c] # "running"
  \/ thread[c] = "running" /\ job[c] \in {"none", "done", "failed"}
  \/ job[c] \in {"words", "scoring"}

\* A call waits for nothing but its own thread, and that for its own job: until
\* it is answered, one of the three can go on, whatever became of other calls.
THEOREM NeverStuck ==
  Spec => [](\A c \in Calls : main[c] \notin {"idle", "answered"} => CallGoesOn(c))
<1>1. Inv => \A c \in Calls : main[c] \notin {"idle", "answered"} => CallGoesOn(c)
  BY DEF Inv, Types, States, Places, CallInv, CallGoesOn
<1> QED
  BY Invariance, <1>1, PTL

\* The steps a call has left, once it has arrived: its server thread's, its
\* trending thread's and its job's, two for each word of the text.
MainSteps   == [idle |-> 0, insert |-> 3, sync |-> 2, unwind |-> 1, answered |-> 0]
ThreadSteps == [none |-> 0, running |-> 1, ok |-> 0, failed |-> 0]
PlaceSteps  == [none |-> 3, words |-> 2, scoring |-> 1]
JobSteps(c) == IF job[c] \in {"done", "failed"} THEN 0
               ELSE 2 * (Len(text[c]) + 1 - word[c]) + PlaceSteps[job[c]]

StepsLeft(c) == MainSteps[main[c]] + ThreadSteps[thread[c]] + JobSteps(c)

\* The numbers of the tables.
LEMMA StepTables ==
  /\ MainSteps["idle"] = 0 /\ MainSteps["insert"] = 3 /\ MainSteps["sync"] = 2
  /\ MainSteps["unwind"] = 1 /\ MainSteps["answered"] = 0
  /\ ThreadSteps["none"] = 0 /\ ThreadSteps["running"] = 1
  /\ ThreadSteps["ok"] = 0 /\ ThreadSteps["failed"] = 0
  /\ PlaceSteps["none"] = 3 /\ PlaceSteps["words"] = 2 /\ PlaceSteps["scoring"] = 1
BY DEF MainSteps, ThreadSteps, PlaceSteps

\* They are natural numbers.
LEMMA StepsType ==
  ASSUME Inv, NEW c \in Calls
  PROVE  /\ MainSteps[main[c]] \in Nat /\ ThreadSteps[thread[c]] \in Nat
         /\ JobSteps(c) \in Nat
<1>1. MainSteps[main[c]] \in Nat
  <2>1. main[c] \in {"idle", "insert", "sync", "unwind", "answered"}
    BY DEF Inv, Types, Places
  <2> QED
    BY <2>1, StepTables
<1>2. ThreadSteps[thread[c]] \in Nat
  <2>1. thread[c] \in {"none", "running", "ok", "failed"}
    BY DEF Inv, Types
  <2> QED
    BY <2>1, StepTables
<1>3. JobSteps(c) \in Nat
  <2>1. /\ Len(text[c]) \in Nat /\ word[c] \in Nat /\ word[c] <= Len(text[c]) + 1
        /\ job[c] \in States
    BY Lengths DEF Inv, Types, JobInv
  <2>2. job[c] \notin {"done", "failed"} => PlaceSteps[job[c]] \in Nat
    BY <2>1, StepTables DEF States
  <2> QED
    BY <2>1, <2>2 DEF JobSteps
<1> QED
  BY <1>1, <1>2, <1>3

\* A step of the job of a call.
LEMMA JobFalls ==
  ASSUME Inv, NEW c \in Calls, JobStep(c)
  PROVE  StepsLeft(c)' < StepsLeft(c)
<1> USE DEF Goto, NextWord
<1>1. /\ Len(text[c]) \in Nat /\ word[c] \in Nat /\ JobInv(c)
      /\ job \in [Calls -> States] /\ word \in [Calls -> Nat \ {0}]
  BY Lengths DEF Inv, Types
<1>2. text' = text /\ main' = main /\ thread' = thread
  BY JobAlone
<1>3. \/ job[c] = "words" /\ job'[c] = "words" /\ word'[c] = word[c] + 1
      \/ job[c] = "words" /\ job'[c] = "scoring" /\ word'[c] = word[c]
      \/ job[c] = "words" /\ job'[c] \in {"done", "failed"}
      \/ job[c] = "scoring" /\ job'[c] = "words" /\ word'[c] = word[c] + 1
      \/ job[c] = "scoring" /\ job'[c] = "failed"
  BY <1>1 DEF JobStep, Job, SkipPlainWord, FilterHashtag, ScoreHashtag, ScoreFails,
     LastWord
<1>4. JobSteps(c)' =
        IF job'[c] \in {"done", "failed"} THEN 0
        ELSE 2 * (Len(text[c]) + 1 - word'[c]) + PlaceSteps[job'[c]]
  BY <1>2 DEF JobSteps, PlaceSteps
<1>5. JobSteps(c)' < JobSteps(c) /\ JobSteps(c)' \in Int /\ JobSteps(c) \in Int
  <2>1. word[c] <= Len(text[c]) + 1
    BY <1>1 DEF JobInv
  <2>2. PlaceSteps["words"] = 2 /\ PlaceSteps["scoring"] = 1
    BY StepTables
  <2>3. \/ job'[c] = "words" /\ JobSteps(c)' = 2 * (Len(text[c]) + 1 - word'[c]) + 2
        \/ job'[c] = "scoring" /\ JobSteps(c)' = 2 * (Len(text[c]) + 1 - word'[c]) + 1
        \/ job'[c] \in {"done", "failed"} /\ JobSteps(c)' = 0
    BY <1>3, <1>4, <2>2
  <2>4. \/ job[c] = "words" /\ JobSteps(c) = 2 * (Len(text[c]) + 1 - word[c]) + 2
        \/ job[c] = "scoring" /\ JobSteps(c) = 2 * (Len(text[c]) + 1 - word[c]) + 1
    BY <1>3, <2>2 DEF JobSteps
  <2>5. CASE job[c] = "words" /\ job'[c] = "words" /\ word'[c] = word[c] + 1
    BY <1>1, <2>1, <2>3, <2>4, <2>5
  <2>6. CASE job[c] = "words" /\ job'[c] = "scoring" /\ word'[c] = word[c]
    BY <1>1, <2>1, <2>3, <2>4, <2>6
  <2>7. CASE job[c] = "scoring" /\ job'[c] = "words" /\ word'[c] = word[c] + 1
    BY <1>1, <2>1, <2>3, <2>4, <2>7
  <2>8. CASE job'[c] \in {"done", "failed"}
    BY <1>1, <2>1, <2>3, <2>4, <2>8
  <2> QED
    BY <1>3, <2>5, <2>6, <2>7, <2>8
<1>6. /\ MainSteps[main[c]] \in Nat /\ ThreadSteps[thread[c]] \in Nat
  BY StepsType
<1>7. StepsLeft(c)' = MainSteps[main[c]] + ThreadSteps[thread[c]] + JobSteps(c)'
  BY <1>2 DEF StepsLeft, MainSteps, ThreadSteps
<1> QED
  BY <1>5, <1>6, <1>7 DEF StepsLeft

\* A step of one of the two threads of a call that has arrived.
LEMMA CallFalls ==
  ASSUME Inv, NEW c \in Calls, main[c] # "idle", Server(c) \/ Thread(c)
  PROVE  StepsLeft(c)' < StepsLeft(c)
<1> USE DEF MainGoes, ThreadGoes, Goto
<1>1. /\ main \in [Calls -> Places] /\ job \in [Calls -> States]
      /\ thread \in [Calls -> {"none", "running", "ok", "failed"}]
  BY DEF Inv, Types
<1>2. text' = text /\ word' = word
  BY DEF Server, Thread, Call, Insert, InsertFails, Sync, Unwind, Send, Receive, RpcFails
<1>3. StepsLeft(c)' =
        MainSteps[main'[c]] + ThreadSteps[thread'[c]] + JobSteps(c)'
  BY DEF StepsLeft, MainSteps, ThreadSteps
<1>4. /\ MainSteps[main[c]] \in Nat /\ ThreadSteps[thread[c]] \in Nat
      /\ JobSteps(c) \in Nat
  BY StepsType
<1>5. CASE Server(c)
  <2>1. thread' = thread /\ job' = job
    BY <1>5 DEF Server, Call, Insert, InsertFails, Sync, Unwind
  <2>2. \/ main[c] = "insert" /\ main'[c] \in {"sync", "unwind"}
        \/ main[c] \in {"sync", "unwind"} /\ main'[c] = "answered"
    BY <1>1, <1>5 DEF Server, Call, Insert, InsertFails, Sync, Unwind
  <2>3. MainSteps[main'[c]] < MainSteps[main[c]] /\ MainSteps[main'[c]] \in Nat
    BY <2>2, StepTables
  <2>4. JobSteps(c)' = JobSteps(c)
    BY <1>2, <2>1 DEF JobSteps
  <2> QED
    BY <1>3, <1>4, <2>1, <2>3, <2>4 DEF StepsLeft
<1>6. CASE Receive(c) \/ RpcFails(c)
  <2>1. main' = main /\ job' = job
    BY <1>6 DEF Receive, RpcFails
  <2>2. thread[c] = "running" /\ thread'[c] \in {"ok", "failed"}
    BY <1>1, <1>6 DEF Receive, RpcFails
  <2>3. ThreadSteps[thread[c]] = 1 /\ ThreadSteps[thread'[c]] = 0
    BY <2>2, StepTables
  <2>4. JobSteps(c)' = JobSteps(c)
    BY <1>2, <2>1 DEF JobSteps
  <2> QED
    BY <1>3, <1>4, <2>1, <2>3, <2>4 DEF StepsLeft
<1>7. CASE Send(c)
  <2>1. main' = main /\ thread' = thread /\ job[c] = "none" /\ job'[c] = "words"
    BY <1>1, <1>7 DEF Send
  <2>2. JobSteps(c)' = 2 * (Len(text[c]) + 1 - word[c]) + PlaceSteps[job'[c]]
    BY <1>2, <2>1 DEF JobSteps, PlaceSteps
  <2>3. JobSteps(c) = 2 * (Len(text[c]) + 1 - word[c]) + 3
    BY <2>1, StepTables DEF JobSteps
  <2>4. JobSteps(c)' = 2 * (Len(text[c]) + 1 - word[c]) + 2
    BY <2>1, <2>2, StepTables
  <2>5. Len(text[c]) \in Nat /\ word[c] \in Nat
    BY Lengths DEF Inv, Types
  <2>6. JobSteps(c)' < JobSteps(c) /\ JobSteps(c)' \in Int
    BY <2>3, <2>4, <2>5
  <2>7. main'[c] = main[c] /\ thread'[c] = thread[c]
    BY <2>1
  <2> QED
    BY <1>3, <1>4, <2>6, <2>7 DEF StepsLeft
<1> QED
  BY <1>5, <1>6, <1>7 DEF Thread

\* A step of one call is no step of another.
LEMMA OthersStay ==
  ASSUME Inv, NEW c \in Calls, NEW d \in Calls, d # c,
         Server(d) \/ Thread(d) \/ JobStep(d)
  PROVE  StepsLeft(c)' = StepsLeft(c)
<1>1. /\ text'[c] = text[c] /\ main'[c] = main[c] /\ thread'[c] = thread[c]
      /\ job'[c] = job[c] /\ word'[c] = word[c]
  <2>1. CASE Server(d) \/ Thread(d)
    BY <2>1 DEF Inv, Types, Server, Thread, Call, Insert, InsertFails, Sync, Unwind, Send,
       Receive, RpcFails, MainGoes, ThreadGoes, Goto
  <2>2. CASE JobStep(d)
    BY <2>2, JobAlone
  <2> QED
    BY <2>1, <2>2
<1>2. JobSteps(c)' = JobSteps(c)
  BY <1>1 DEF JobSteps, PlaceSteps
<1> QED
  BY <1>1, <1>2 DEF StepsLeft, MainSteps, ThreadSteps

\* A call that has arrived takes finitely many steps: each of its own brings its
\* answer nearer, and no other call's takes it further away.
THEOREM StepsRunOut ==
  Spec => /\ [](\A c \in Calls : StepsLeft(c) \in Nat)
          /\ [][\A c \in Calls : main[c] # "idle" =>
                  /\ StepsLeft(c)' <= StepsLeft(c)
                  /\ Server(c) \/ Thread(c) \/ JobStep(c) =>
                       StepsLeft(c)' < StepsLeft(c)]_vars
<1>1. Inv => \A c \in Calls : StepsLeft(c) \in Nat
  BY StepsType DEF StepsLeft
<1>a. Inv' => (\A c \in Calls : StepsLeft(c) \in Nat)'
  BY <1>1, PTL
<1>2. ASSUME Inv, Inv', Next, NEW c \in Calls, main[c] # "idle"
      PROVE  /\ StepsLeft(c)' <= StepsLeft(c)
             /\ Server(c) \/ Thread(c) \/ JobStep(c) => StepsLeft(c)' < StepsLeft(c)
  <2>1. Server(c) \/ Thread(c) \/ JobStep(c) => StepsLeft(c)' < StepsLeft(c)
    BY <1>2, CallFalls, JobFalls
  <2>2. StepsLeft(c) \in Nat
    BY <1>1, <1>2
  <2>3. ~(Server(c) \/ Thread(c) \/ JobStep(c)) => StepsLeft(c)' = StepsLeft(c)
    BY <1>2, OthersStay DEF Next
  <2>4. StepsLeft(c)' \in Int
    BY <1>a, <1>2
  <2> QED
    BY <2>1, <2>2, <2>3, <2>4
<1>3. Inv /\ Inv' /\ [Next]_vars =>
        [\A c \in Calls : main[c] # "idle" =>
           /\ StepsLeft(c)' <= StepsLeft(c)
           /\ Server(c) \/ Thread(c) \/ JobStep(c) =>
                StepsLeft(c)' < StepsLeft(c)]_vars
  BY <1>2
<1> QED
  BY Invariance, <1>1, <1>3, PTL DEF Spec
=============================================================================
