# A verification of BuzzBlog

BuzzBlog is a microblogging application built from small services that call one
another over Thrift. This directory holds TLA+ specifications of its core logic,
TLC configurations that check them, and TLAPS proofs. Every definition is
translated from the source; `PROJECT.json` maps each one to its lines.

Contents: [1 the system](#1-the-system), [2 the modules](#2-the-modules-and-the-code),
[3 what is checked](#3-what-the-runs-check), [4 what is proved](#4-what-is-proved),
[5 divergences](#5-where-code-and-documentation-disagree),
[6 what is not modelled](#6-what-is-only-checked-and-what-is-not-modelled),
[7 the plan](#7-plan).

## 1. The system

```
 client -HTTP-> apigateway -+-> account ----> (account db)   account -> follow, like, post
  (Python,      (Flask,     +-> follow  ----> uniquepair --> (uniquepair db)  follow -> account
   tests)       Gunicorn    +-> like    ----> uniquepair     like -> account, post
                threads)    +-> post    ----> (post db)      post -> account, like, trending
                            +-> trending ---> (Redis)        trending -> wordfilter
```

Every arrow between services is a synchronous RPC made on a connection taken from
a pool. A C++ service runs a thread per connection. Handlers that need several
facts start `std::async` threads, one RPC in each.

| component | state | operations | hard behaviour | what makes it correct |
|---|---|---|---|---|
| connection pools (`microservice_connection_pool.h`, `.py`, `postgres_connection_pool.h`) | queue of idle connections, `_pool_current_size`, `_backlog_len`, mutex and condition variable | `get_client`, `release_client` | woken waiters race arrivals; `connect` outside the mutex may throw; trimming on release | exclusive connections, exact counters, no lost wake-up, waiters are served |
| clients and RPC wrappers (`base_client`, `microservice_connected_server`, `postgres_connected_server`) | a stream per connection, a time-out (Python reads only) | open, call, put back | late replies; broken connections put back as whole | a call reads its own reply |
| uniquepair | table of (id, domain, first, second, created_at), SERIAL ids | `get`, `add`, `remove`, `find`, `fetch`, `count` | concurrent adds of one pair; commit whose outcome is lost | a pair is there once, ids are never reused |
| follow, like | none of their own (rows of uniquepair) | create, retrieve, delete, list, check, count | deletion is get, check, remove in separate calls; threads of lists | atomic for callers; only the owner deletes; counts agree with the relation |
| post | table of posts | `create_post`, retrieve, `delete_post`, list, count | insert runs beside the trending RPC; either may fail; pages are offsets into a list that changes | an "ok" means stored and counted; pages slip only by what changed; posts are deactivated, never removed |
| accept loops (`main` of each server) | a thread per open connection, up to `--threads` | accept, serve | connections are idle in pools and keep their thread; calls hold connections while they wait for others | calls never wait in a circle; they stop only at a limit that is too small |
| trending, wordfilter | Redis sorted set of scores; fixed word list | `process_post`, `fetch_trending_hashtags`, `is_valid_word` | a job goes on after its caller gave up | each occurrence counts once; invalid words never |
| account | table of accounts, never deleted, only deactivated | `authenticate_user`, create, retrieve, update, delete, list | concurrent creations | usernames unique for ever |
| API gateway | none | one HTTP endpoint per operation | login and operation are two RPCs; a read that gave up leaves its call to be served and its reply to be read | acts only for who logged in; deletion is final |

The hazards, each at its line and with the properties that cover it, are in
`PROJECT.json`.

## 2. The modules and the code

| module | models | state and steps |
|---|---|---|
| `ConnectionPool` | the three pools | one critical section under the mutex is one action. `GetNew`, `GetIdle`, `GetBlock`, `GetUnpooled` are the branches of `get_client`; `Connect`/`ConnectFails` the constructor call outside the mutex; `SpuriousWake`, `WokenFindsNone`, `WokenTakes` the wait loop; `ReleaseCloses`, `ReleasePushes` (with `NotifyOne`), `ReleaseUnpooled` the branches of `release_client`. `backlog` and `poolSize` are the code's counters, `failures` is history |
| `ConnectionLease` | abstract specification of a pool | exclusive leases within a capacity that never grows |
| `PooledRpc` | RPCs on pooled connections | extends `ConnectionPool`: its actions are the pool's with the wire left alone, plus `OpenSocket`, `Send`, `Serve`, `Receive`, `TimeOut`, `CallFails`, `Break`, and `EndCall`, which is the pool's `Release`. A connection is two counters: requests sent and not read for, and how many of them are answered |
| `CallGraph` | which handler makes which RPCs | for each method, the phases of its handler; the calls of one phase are made at once, each in a thread |
| `Mesh` | calls across several pools, and the servers' accept loops | a call leases a connection (`Lease`), its server accepts the connection (`Accept`) if it has a thread left, its handler makes its calls in turn and answers (`Return`), or throws with calls still to make (`Throw`); both put the connection back. The servers' limits are chosen at the start. A pool is the set of its connections: `ConnectionPool` has the detail |
| `Uniquepairs` | the table and the SQL statements on it | operators `Insert`, `InsertRefused`, `Delete`, `find`, `count` used by `Relations`. A refused insert may consume an id, as SERIAL does, and be refused for any SQL error: the code answers each as a pair that exists |
| `Relations` | follow and like services over the table | per server thread: `Call`, one action per RPC to uniquepair, `Return`; `FailBefore`, `FailAfterCreate`, `FailAfterRemove` are RPCs that throw before or after they took effect |
| `AtomicRelations` | abstract specification of both services | a request begins, takes effect at one instant (`Create`, `Delete`, `Decline`), ends |
| `ListFanOut` | `list_follows`, `list_likes`, `list_posts`, `list_accounts`, and `retrieve_expanded_*` as lists of one row | the handler's loops that start threads, the loop that collects them, the threads. A thread reads the loop variable it captured by reference when it runs: a choice over what the variable's place can hold by then |
| `Trending` | trending, wordfilter and the Redis set | `process_post` word by word, each RPC and each ZINCRBY a step that may fail before or after its effect |
| `CreatePost` | `create_post` composed with `Trending` | the server thread (`Call`, `Insert`, `Sync`, `Unwind`), its trending thread (`Send`, `Receive`, `RpcFails`), the trending server's job |
| `Posts` | the table of posts | an INSERT draws its id and its second when it runs and is seen when it commits (`InsertRuns`, `InsertCommits`, `InsertFails`); `delete_post` reads, checks and deactivates (`DeleteReads`, `DeleteWrites`, `DeleteFails`); `Tick` is the clock of `now()` |
| `Timeline` | readers of `Posts` | one client that pages through `list_posts` (`StartReading`, `ReadPage`), or likes (`Like`, `Unlike`) and a call of `list_likes` that expands its rows (`FetchLikes`, `Expand`, `AnswerLikes`). `seen`, `since`, `gone`, `came`, `dangling` are history |
| `Accounts` | the account table and the statements on it | `InsertAccount`, `RefuseAccount`, `UpdatePassword`, `Deactivate`, `authenticate_user` |
| `Gateway` | the gateway's endpoints on accounts, and whom those on follows, likes and posts act for | `Receive`, `VerifyPassword`, then `Act` (an operation on accounts, which may fail before or after its effect) or `End` (anything else). A call whose read gives up (`GiveUp`) stays in `asked` until it is served (`ServeLate`), and its reply in `told` until the connection's next call takes it for its own (`HearAnother`) or the connection is closed (`Close`). A connection that is in step has nothing to remember, and a call on it is one step. `named`, `gone`, `before` are history |

`MC*` modules hold the symmetry sets, the texts, the pool configurations and the
calls used by the `.cfg` files; `*_proofs` hold theorems. Operators under a comment
that begins "mutant" are faulty variants of the definition that follows them; the
properties are tested against them and the specifications do not use them.

What is abstracted: names, texts, passwords and post bodies are members of small
sets; a text is a sequence of hashtags and plain words; the sizes `validate_
attributes` tests are a choice (`Gateway`) or a number of words
(`CreatePost`); which of several server addresses a pool connects to, logging and
latency measurement are left out.

## 3. What the runs check

| run | instance | properties and what they show |
|---|---|---|
| `Pool` | 6 threads, 3 connections, 3 failing connects; sizes 1..3, or 2..2 with ephemeral connections as `docs/MANUAL.md` deploys (with larger numbers), or 0 (the servers' default), chosen at the start; fair | `Accounting` (the counters are the connections there are, plus every failed connect: that unit is never given back), `ExclusiveUse`, `SizeBound` (a bounded pool keeps to its maximum; what exceeds it is never idle; the queue stays short), `NoLostWakeup`, `WaiterHasSupplier` (a wait is in vain only when `MaxSize` connects have failed), `TrimSparesWaiters`, `ImplementsLease`, `EveryWaiterServed` (once calls stop arriving, the waiters come to an end, again and again, unless `MaxSize` connects have failed) |
| `PooledRpc` | 4 threads, 2 connections, time-outs, breaks | `OutOfStep`: a connection is behind by exactly the reads that gave up on it, for good; `OwnReplyUnlessLate`: a call reads its own reply exactly when that number is 0; `PoolStaysSpoiled`: a pool of fixed size never heals |
| `Mesh` | `list_likes` and `list_follows` at once: 14 calls on 10 pools of one connection each; limits that are just large enough, or one less at uniquepair; fair | `SomeCallGoesOn`: calls that hold connections and wait for others never wait in a circle, though services call one another both ways, and all stop only where a connection waits for a server whose limit is less than its clients' connections (which the run reaches); `EveryCallAnswered`, where no limit is |
| `RelationsSafety` | 2 threads, 2 accounts, 1 post, 3 ids | `CheckedStillOwned`, `OwnerRemoves`, `CountsAgree`, `ImplementsAtomic` |
| `RelationsDelete` | violation | `delete_follow` deletes a like (section 5) |
| `FanOut` | 2 rows, 3 loops, the second loop's futures waited for first as in `list_accounts`, fair | `AllOrError`; `ReadsForward`: a thread reads an earlier row than its own only once its loop is over and another has begun, so a row can embed a later row's account, and an earlier one's only through a place on the stack that is used again; `CallReturns` |
| `FanOutRows` | violation | a row embeds another row's account (section 5) |
| `Post` | 2 calls, texts with repeated, invalid, no and too many words, fair | `OkMeansStoredAndTrending`, `ScoreBounds` (a score is at least the occurrences in the posts that were answered "ok", at most those in all jobs that were begun; 0 for words on the filter's list), `RejectedLeavesNoTrace`, `EveryCallAnswered` |
| `TrendingTop` | violation | the fetched hashtags are the lowest (section 5) |
| `Timeline` | 2 authors, 3 posts in up to 3 seconds, pages of one, one like | `PagesSlipOnlyByChanges`: a client misses at most as many posts as went from its list meanwhile, and one page shows it again at most as many as came in; `FailsOnlyOnDangling`: deleting posts never makes `list_likes` fail, only a like of a post that never was does |
| `NewPostLiked` | violation | a post appears with likes (section 5) |
| `GatewaySafety` | 2 threads, 2 usernames, 2 passwords, 2 accounts, a connection that can be a reply behind | `UsernamesUnique` and `IdentitiesLast`, of all calls, those given up on included; `DeletionIsFinal` and `ChangedByOwnerOnly`, of requests whose login read its own reply (section 5) and of what calls given up on do later |

Each run also has its module's type invariant.

`PagesSlipOnlyByChanges` speaks of posts that share their second with no other:
`ORDER BY created_at` leaves the order of the others open, and they may change
places between two pages with nothing having changed at all.

**Bounds.** `MaxFailures`, `MaxUnread` (of `PooledRpc` and of `Gateway`), `MaxId`,
`MaxAccounts`, `MaxRows`, `MaxPosts`, `MaxTime`, `MaxLikes`, the sets of calls and
texts. They are large
enough for the cases that matter: more threads than connections, a sleeper and a
woken thread beside one that arrives, a release that trims the pool while a
thread sleeps (three threads are asleep while three others hold the connections,
of which two are put back before the third is closed: with fewer threads it does
not happen), as many failed connects as the pool has units, connections that fall
behind more than once; two handlers on one row, an id of a follow that is also the
id of a like, a refused insert between two others; two rows and more loops than a handler's two,
so that a thread can read a later row, a later loop's variable or the collecting
loop's; a hashtag in one text twice and in two texts; a username created, deleted
and asked for again, a deletion and a login that are served after they were given
up on, a login that reads the reply to another user's; a post that commits after a
newer one, one that comes in and one that goes between two pages. In `Mesh` the two requests of the gateway
meet on the pools from account to follow and from follow to uniquepair, where
calls of three handlers wait for one connection (of the two accounts of a
follow only one is retrieved, and whether the post's author is followed is not
looked up). The proofs of section 4 remove the
bounds.

**Deadlock** is checked except where calls are made once (`FanOut`, `Post`, `Mesh`,
and the violation runs on the modules of the first two): there, the system stops
when all have returned, which is a liveness property of each of these runs, or in
`Mesh` at a limit that is too small.

**Fairness**, where liveness is checked:

- pool: a thread inside the pool runs (`LeaveWait`, `Open`) and the call made on a
  connection ends and releases it (`Release`, which every wrapper does on every
  path): weak fairness of the three together, per thread. No fairness on arrivals
  or spurious wake-ups. That a call ends is an assumption: the gateway's reads give up after 30 s, but between the services
  only *connecting* has a time-out. `Mesh` looks at what the assumption takes.
- `Mesh`: some thread that can run does (weak fairness of `Step`, which is `Next`
  without `Throw`: nothing makes a handler throw). Each call takes finitely many
  steps and is made once, so nothing more is needed.
- `ListFanOut`: the handler's thread and each thread it started run, and the
  services they call answer or fail.
- `CreatePost`: the server thread of a call that arrived, its trending thread and
  the trending server's job run. Nothing makes a call arrive or an RPC fail.

## 4. What is proved

The theorems hold for every value of the constants that meets the `ASSUME`s:
parameters are of the types the constructors' asserts state, sets are finite
where they are counted, bounds are natural numbers; in `Mesh`, calls are made as
`CallGraph` says and no pool is empty (the servers' limits are any). Every invariant and every action property that a
passing run checks is also stated by a theorem, and so are both refinements.

**`ConnectionPool_proofs`**: `TypeOK`, `Accounting`, `SizeBound`, `NoLostWakeup`,
`WaiterHasSupplier`, `ExclusiveUse`, `TrimSparesWaiters` and `PoolImplementsLease`.
None is inductive alone. The argument has two halves.
Counting: `Numbers` states all facts about how many threads are where, the queue's
length and the two counters as one arithmetic invariant; each action moves one or
two threads (lemma `NumbersMove`, `NumbersNotify`) and the rest is arithmetic.
For `WaiterHasSupplier` it needs one fact more than the property says: a waiter
came when the counter was at its maximum, and since then either it stayed there or
a trim left two idle connections. Identity: `ExclusiveUse` is carried by what
taking from the front and appending to the queue do. The refinement maps leases
to held connections, and the capacity to `MaxSize - failures`.

**`PooledRpc_proofs`**: `CallsUseThePool` shows that `PooledRpc` implements
`ConnectionPool`, so all of the above holds under calls. With `ExclusiveUse`, the
invariant is `Behind` (the connection of a waiting call is behind by the reads
that gave up and by one) and `Level` (any other whole connection is behind by the
reads that gave up): nobody else moves the counters while a call is under way.
From it: `RpcTypeOK`, `OutOfStep`, `OwnReplyUnlessLate`, and `RepliesAreOwn`: where
reads never give up, as between the C++ services, no call reads another's
reply. `PoolStaysSpoiled` follows because a full pool of fixed size opens and
closes nothing (`FullPoolStep`). `LateForGood`: while a connection stays open, in
whatever hands, no step makes up for a read that gave up on it. `CallsKeepThePool`
collects what the pool's theorems say of a pool whose callers fail, give up and
meet broken connections.

**`Mesh_proofs`**: `TypeOK` is inductive. `SomeCallGoesOn` ranks the pools from 1 (to uniquepair and wordfilter) to
5 (the gateway's) so that a call made on one makes calls on pools of lower rank
only (`RanksFall`, from the table of `CallGraph`): a call that waits for a
connection waits for one whose call waits, if at all, at a lower rank, and at the
lowest there is nothing left to wait for but a server that accepts no more, and
then its limit is less than the connections to it. Hence `NeverStuck`: where no
limit is, some call can go on until the gateway's requests are answered. `StepsRunOut`: with finitely many
calls, every step lowers a natural number (two for each call not made yet and one
for each under way, two for each connection not opened yet and one for each
pending). `PoolsLeaseConnections` links the two models of a pool: each pool of
`Mesh`, seen from the calls made on it, implements `ConnectionLease`, which
`ConnectionPool` implements with its queue and its counters; what `Mesh` assumes of
a pool is what a pool does.

**`Relations_proofs`**: the invariant is `TableInv` (ids and pairs are unique, every
id is below `nextId`), the handlers' types, and `CheckedStillOwned`. The last is
preserved because every step gives the table only new ids (`OnlyNewIds`): a row of
an id already checked can go but not come back as another's. From it: `TypeOK`,
`CheckedStillOwned`, `OwnerRemoves`, `CountsAgree` (a pair is there once, so the
rows of an account are in bijection with those it is related to), and
`RelationsImplementAtomic`: the check of a deletion is a stutter of
`AtomicRelations`, the remove is the effect if the row is still there and a
refusal if not. Of a creation that is refused `AtomicRelations` says only that it
stores nothing: uniquepair answers every SQL error of its INSERT as a pair that
exists, so a caller who is told so learns nothing of the pair.

**`ListFanOut_proofs`**: the invariant says which threads have been started (those
of the iterations passed), that the rows answered are those whose threads
succeeded, and that an outcome is decided only on the way out. From it: `TypeOK`
and `AllOrError`, for any number of rows and loops. `ReadsForward` needs what the
loop variables hold while threads are started (`Variables`). `NeverStuck` and `StepsRunOut` are the two halves of `CallReturns` that
need no fairness. Until the handler has returned, it or a thread it started can go
on: a started thread always finds a row in the loop variable it captured, its own or
a later one (`SlotsFilled`), and when all threads have finished, the handler collects
them all or rethrows for the first loop that failed (`Least`). And every step lowers a
natural number.

**`CreatePost_proofs`**: the invariant follows a job through its text: every hashtag
behind the position it is at is on the filter's list or has a score, and scores
never fall. From it: `TypeOK` and `RejectedLeavesNoTrace`. The sums of `ScoreBounds`
are cardinalities of sets of occurrences (a call and a position in its text), so
that no induction over texts is needed. `ScoreBounds` is not inductive: it speaks of
whole texts. `SumInv` says, for a hashtag off the list, that its score is at least
the occurrences that jobs have behind them (`Sure`) and at most these and the ones
failed jobs stopped at (`Possible`): a ZINCRBY that throws may or may not have
counted. A step moves one job past one word, or stops it there, and so changes each
set by that occurrence or not at all. A call answered "ok" has its whole text
behind it, and a job has nothing else than its text.
`OkMeansStoredAndTrending` needs the order of the sorted set: `RanksBefore` is a
strict total order (`RankOrder`), so ranks of members are all different, below
their number (`RanksIncrease`) and, by counting, each one is taken
(`OneOfEachRank`); the member of each rank is what stands at its place.
`FetchListsLowestRanks` then says what a fetch with a limit returns: exactly the
members of the ranks 0 to `limit`, one more than asked for. `NeverStuck` and
`StepsRunOut` are the halves of `EveryCallAnswered` that need no fairness: until a
call is answered its server thread, its trending thread or its job can go on,
and each of their steps lowers a natural number that no other call's step raises
(a failed step included: it drops what was left of the text).

**`Timeline_proofs`**: the rank of a post is how many listed posts are newer. Posts
of a second of their own have ranks of their own, and one is on a page exactly
when its rank is in the page's range (`PageHasRanks`); a post that comes in or
goes moves ranks by one, so at most one of them crosses the offset of the next
page (`ComesIn`, `Goes`). `PagesSlipOnlyByChanges` is not inductive: it needs that
the seen posts that are *still to come again* are at most as many as came in
(`Back`). `FailsOnlyOnDangling` needs that ids of posts stay. Of the bound,
`QuietListIsReadInFull` is the case a client counts on: while nothing enters or
leaves its list, it misses no post (of a second of its own) that it has passed
and its latest page repeats none.

**`Gateway_proofs`**: every operation on the table, at once or late, keeps the
accounts there are, under their ids and usernames, and revives none (`Kept`);
the ids in `gone` are of inactive accounts, so no login yields one by its own
reply; and whomever a thread acts for, or a call given up on was made for, is an
account there is, with the username of the login if that read its own reply
(`Known`). What the connections hold is carried along as sequences of such calls
and replies, however long. From it: `TypeOK`, `UsernamesUnique`,
`DeletionIsFinal`, `IdentitiesLast`, `ChangedByOwnerOnly`.

## 5. Where code and documentation disagree

Shown by a violation run:

- `delete_follow` takes the id of any uniquepair: with the id of one of the
  requester's likes it removes the like and answers success (`delete_like`
  likewise). `RelationsDelete`.
- The lambdas of `list_follows`, `list_likes`, `list_posts` and `list_accounts`
  capture their loop variable by reference and run in another thread, so a row of
  the answer can embed the account of another row (undefined behaviour).
  `FanOutRows`.
- `fetch_trending_hashtags` uses ZRANGE, which ranks from the lowest score up.
  `TrendingTop`.
- `like_post` looks no post up, so a post that has just been created may have likes
  (accounts and followers likewise). Until it is created, every list that
  reaches the like fails. `NewPostLiked`.

Read in the code and not given a run of their own:

- `docs/MANUAL.md` deploys pools of 8 or 16 connections with ephemeral ones allowed,
  and servers with a limit of 1024. A pool may then exceed its size without bound,
  so no limit is large enough: with enough calls at a time, the connections to
  a server exceed it, calls wait for one another's connections to be closed, and
  between the services no read gives up. `Mesh` shows the stop with a limit that is
  one too small. The default of `--threads` is no limit.
- `fetch_trending_hashtags(limit)` returns up to `limit + 1` hashtags: the ends of
  ZRANGE are inclusive.
- `verify_password` takes any exception, a failing account service included, for
  wrong credentials (401). A follow of oneself is answered 500.
- The gateway's GET endpoints need no login, though API.md lists 401 for them, and
  leave `requester_id` at its default, so `followed_by_you` is always false.
- `retrieve_standard_follow` and `retrieve_standard_like` ignore the row's domain.
- `create_account` takes every SQL error for a username that exists, and uniquepair's
  `add` every one for a pair that exists: on a full disk, or when the statement is
  cancelled, callers of `follow_account` and `like_post` are told that they follow
  or like already.
- `count_posts_by_author` counts deleted posts, and `retrieve_standard_post` returns
  them (with `active` false).
- A connect that throws loses a unit of the pool for good (`Accounting` states by
  how much; after `MaxSize` failures a bounded pool only waits).
- In the gateway, a call that times out leaves its connection one reply behind
  in the pool. From then on a call on it returns the previous call's reply, or
  an exception when that is of another type. With ephemeral connections allowed,
  such a connection may be closed when the pool is above its maximum; nothing
  else removes it.
- That reply may be to a login: `verify_password` then takes the account in it,
  and the request is served as another user's, or as an account that has been
  deleted. (A reply to the creation, the retrieval or the update of an account
  serves as well; one without an account is an exception, and a 401.)
  `DeletionIsFinal` and `ChangedByOwnerOnly` are therefore stated of logins that
  read their own reply; without that condition (`named[h] # None`, and `None` in
  `ServedAs`) TLC violates both on the run's instance, in 8 and 6 states. When a
  login reads its own reply is `OwnReplyUnlessLate` of `PooledRpc`.

## 6. What is only checked, and what is not modelled

Only model-checked: the four liveness properties, `EveryWaiterServed`, `CallReturns`
and `EveryCallAnswered` of `CreatePost` and of `Mesh`. Fairness is stated with
ENABLED, about which nothing can be proved here. For the last three, what is left
to the runs is that step alone: that some step can be taken until the end, and that
steps run out, are theorems (`NeverStuck`, `StepsRunOut`). For `EveryWaiterServed`
the theorems are `NoLostWakeup` and `WaiterHasSupplier`; nothing runs out in a pool,
where calls go on arriving and waiters may be overtaken. That fairness gives the
step which `NeverStuck` finds is checked on the instances of section 3.

In `PooledRpc` a time-out falls between two replies; one in the middle of a reply
would leave the stream out of step within a message, which the counters do
not show. A stale reply of the wrong type is an exception in the code and is
counted here as stale.

`Mesh` has each call made once and pools of fixed size; pools that grow, connects
that fail, and pools of connections to databases (none is held across a call), are
`ConnectionPool`'s, and connections that break are `PooledRpc`'s. `process_post`
filters its hashtags one after another; `CallGraph` has as many phases as a text
of 200 characters can have hashtags.

`Gateway` has no queue for a connection: which threads wait for which is
`ConnectionPool`'s, and that only one uses it at a time is `ExclusiveUse`. A
connection that is in step is not represented, and one that is not may be the
one any call gets.

Not modelled: start-up, option parsing, logging and latency measurement; pages of
follows, likes and accounts (the query is that of `list_posts`; a page of likes is
any set of rows in `Timeline`); the Thrift transport and the databases beyond what
the code relies on (a stream per connection; statements that are atomic and
committed, with the commit's outcome possibly lost).

## 7. Plan

Built first, because everything else runs on it: the pool and its proofs; then the
relations and their abstract specification; list fan-out; posts and trending; the
gateway; calls on pooled connections; posts and their readers; the mesh of calls.
What is left, in this order:

1. Ephemeral connections in `Mesh`, with the limits of `docs/MANUAL.md` scaled down:
   the smallest load at which calls wait for one another for ever.
2. Pages of relations, and lists of accounts whose counters are read one by one.
3. A server that goes down and comes back: its connections in pools are broken,
   and pools of fixed size keep them (`PooledRpc` has a connection break alone).
