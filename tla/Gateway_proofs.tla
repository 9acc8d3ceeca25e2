--------------------------- MODULE Gateway_proofs ---------------------------
(***************************************************************************)
(* Theorems about Gateway: what a login and a deletion mean, for any       *)
(* number of gateway threads, accounts, usernames and passwords, and of    *)
(* connections out of step, however far behind.                            *)
(*                                                                         *)
(* Every operation on the table keeps the accounts there are, under their  *)
(* ids and usernames, and revives none (Kept); ids in gone are of accounts *)
(* that are not active, so no login yields one of them by its own reply;   *)
(* and whoever a thread acts for, or a call given up on was made for, is   *)
(* an account with the username it logged in with, if it did by its own    *)
(* reply (Known).                                                          *)
(***************************************************************************)
EXTENDS Gateway, TLAPS

TableInv ==
  /\ accounts \subseteq Account
  /\ nextAccount \in 1..(MaxAccounts + 1)
  /\ \A a \in accounts : a.id < nextAccount
  /\ UsernamesUnique

\* b is what has become of a.
Same(a, b) == b.id = a.id /\ b.username = a.username /\ (~a.active => ~b.active)

Kept ==
  /\ \A a \in accounts : \E b \in accounts' : Same(a, b)
  /\ \A b \in accounts' : b.id = nextAccount \/ \E a \in accounts : Same(a, b)

\* An account that an operation changes is the one it is asked to change.
OnlyWith(i) == \A a \in accounts \ accounts' : a.id = i

\* An INSERT keeps the table in order; it changes no account.
LEMMA InsertKeeps ==
  ASSUME TableInv, NEW u \in Usernames, NEW p \in Passwords, InsertAccount(u, p)
  PROVE  /\ TableInv' /\ Kept /\ accounts \subseteq accounts'
         /\ \E b \in accounts' : b.id = nextAccount
<1> USE MaxAccountsAssumption DEF AccountIds
<1>1. PICK n : /\ n = [id |-> nextAccount, username |-> u, password |-> p, active |-> TRUE]
               /\ accounts' = accounts \cup {n}
  BY DEF InsertAccount
<1>2. n \in Account /\ n.id = nextAccount /\ n.username = u
  BY <1>1 DEF InsertAccount, Account
<1>3. \A a \in accounts : a.username # u /\ a.id # n.id /\ a.id \in Nat
  BY <1>2 DEF InsertAccount, Named, TableInv, Account
<1>4. nextAccount' = nextAccount + 1 /\ nextAccount' \in 1..(MaxAccounts + 1)
  BY DEF InsertAccount
<1>5. UsernamesUnique'
  <2> SUFFICES ASSUME NEW a \in accounts', NEW b \in accounts',
                      a.username = b.username \/ a.id = b.id
               PROVE  a = b
    BY DEF UsernamesUnique
  <2>1. a \in accounts \cup {n} /\ b \in accounts \cup {n}
    BY <1>1
  <2>2. a \in accounts /\ b \in accounts => a = b
    BY DEF TableInv, UsernamesUnique
  <2> QED
    BY <2>1, <2>2, <1>2, <1>3
<1>6. \A a \in accounts' : a.id < nextAccount'
  BY <1>1, <1>2, <1>3, <1>4 DEF TableInv
<1>7. Kept
  BY <1>1, <1>2 DEF Kept, Same
<1> QED
  BY <1>1, <1>2, <1>4, <1>5, <1>6, <1>7 DEF TableInv

\* A refused INSERT uses up an id, or none.
LEMMA RefuseKeeps ==
  ASSUME TableInv, RefuseAccount
  PROVE  TableInv' /\ Kept /\ accounts' = accounts
<1> USE MaxAccountsAssumption DEF AccountIds
<1>1. nextAccount' \in 1..(MaxAccounts + 1) /\ nextAccount' >= nextAccount
  BY DEF RefuseAccount, TableInv
<1>2. accounts' = accounts /\ \A a \in accounts : a.id \in Nat
  BY DEF RefuseAccount, TableInv, Account
<1>3. \A a \in accounts' : a.id < nextAccount'
  BY <1>1, <1>2 DEF TableInv
<1> QED
  BY <1>1, <1>2, <1>3 DEF TableInv, UsernamesUnique, Kept, Same

\* A new password keeps every account, and changes one.
LEMMA UpdateKeeps ==
  ASSUME TableInv, NEW i, NEW p \in Passwords, UpdatePassword(i, p)
  PROVE  TableInv' /\ Kept /\ OnlyWith(i)
<1> DEFINE f(a) == IF a.id = i THEN [a EXCEPT !.password = p] ELSE a
<1>1. accounts' = {f(a) : a \in accounts} /\ nextAccount' = nextAccount
  BY DEF UpdatePassword
<1>2. \A a \in accounts : /\ f(a) \in Account /\ f(a).id = a.id
                          /\ f(a).username = a.username /\ f(a).active = a.active
  BY DEF TableInv, Account
<1>3. \A a \in accounts : a.id # i => f(a) = a
  OBVIOUS
<1> HIDE DEF f
<1>4. UsernamesUnique'
  BY <1>1, <1>2 DEF TableInv, UsernamesUnique
<1>5. TableInv'
  BY <1>1, <1>2, <1>4 DEF TableInv
<1>6. Kept
  BY <1>1, <1>2 DEF Kept, Same
<1> QED
  BY <1>1, <1>3, <1>5, <1>6 DEF OnlyWith

\* A deletion keeps every account, and changes one.
LEMMA DeactivateKeeps ==
  ASSUME TableInv, NEW i, Deactivate(i)
  PROVE  /\ TableInv' /\ Kept /\ OnlyWith(i)
         /\ \A b \in accounts' : b.id = i => ~b.active
<1> DEFINE f(a) == IF a.id = i THEN [a EXCEPT !.active = FALSE] ELSE a
<1>1. accounts' = {f(a) : a \in accounts} /\ nextAccount' = nextAccount
  BY DEF Deactivate
<1>2. \A a \in accounts : /\ f(a) \in Account /\ f(a).id = a.id
                          /\ f(a).username = a.username
                          /\ ~a.active => ~f(a).active
                          /\ a.id = i => ~f(a).active
  BY DEF TableInv, Account
<1>3. \A a \in accounts : a.id # i => f(a) = a
  OBVIOUS
<1> HIDE DEF f
<1>4. UsernamesUnique'
  BY <1>1, <1>2 DEF TableInv, UsernamesUnique
<1>5. TableInv'
  BY <1>1, <1>2, <1>4 DEF TableInv
<1>6. Kept
  BY <1>1, <1>2 DEF Kept, Same
<1>7. \A b \in accounts' : b.id = i => ~b.active
  BY <1>1, <1>2
<1> QED
  BY <1>1, <1>3, <1>5, <1>6, <1>7 DEF OnlyWith

\* A step that leaves the table alone keeps it.
LEMMA SameTable ==
  ASSUME TableInv, UNCHANGED accountVars
  PROVE  TableInv' /\ Kept /\ accounts' = accounts
BY DEF TableInv, UsernamesUnique, Kept, Same, accountVars

Jobs == Creations \cup Retrievals \cup Updates \cup Deletions

\* j.arg has been deleted.
Dead(j) ==
  /\ \E b \in accounts' : b.id = j.arg
  /\ \A b \in accounts' : b.id = j.arg => ~b.active

\* What serving an operation does, whatever it answers: it changes no account but
\* its requester's, and its reply names an account there is.
Effect(id, j, k, i) ==
  /\ TableInv' /\ Kept /\ OnlyWith(id)
  /\ i # 0 => \E b \in accounts' : b.id = i
  /\ j \in Deletions /\ k = 200 => Dead(j)

LEMMA RefusedEffect ==
  ASSUME TableInv, NEW id, NEW j, NEW k, NEW i, NEW code, code # 200,
         Refused(k, i, code)
  PROVE  Effect(id, j, k, i)
BY SameTable DEF Refused, Effect, OnlyWith

LEMMA UpdateEffect ==
  ASSUME TableInv, NEW id, NEW j \in Updates, NEW k, NEW i, Owns(id, j),
         UpdatePassword(j.arg, j.new), i # 0 => i = j.arg /\ WithKey(j.arg) # {}
  PROVE  Effect(id, j, k, i)
<1>1. j.new \in Passwords /\ j \notin Deletions /\ id = j.arg
  BY DEF Updates, Deletions, Owns
<1>2. TableInv' /\ Kept /\ OnlyWith(id)
  BY <1>1, UpdateKeeps
<1>3. i # 0 => \E b \in accounts' : b.id = i
  BY <1>2 DEF WithKey, Kept, Same
<1> QED
  BY <1>1, <1>2, <1>3 DEF Effect

LEMMA DeletionEffect ==
  ASSUME TableInv, NEW id, NEW j \in Deletions, NEW k, Owns(id, j),
         Deactivate(j.arg), k = 200 => WithKey(j.arg) # {}
  PROVE  Effect(id, j, k, 0)
<1>1. /\ TableInv' /\ Kept /\ OnlyWith(id)
      /\ \A b \in accounts' : b.id = j.arg => ~b.active
  BY DeactivateKeeps DEF Owns
<1>2. k = 200 => \E b \in accounts' : b.id = j.arg
  BY <1>1 DEF WithKey, Kept, Same
<1> QED
  BY <1>1, <1>2 DEF Effect, Dead

LEMMA CreationEffect ==
  ASSUME TableInv, NEW id, NEW j \in Creations, NEW k, NEW i,
         \/ InsertAccount(j.user, j.pass) /\ i \in {0, nextAccount}
         \/ RefuseAccount /\ i = 0
  PROVE  Effect(id, j, k, i)
<1>1. j.user \in Usernames /\ j.pass \in Passwords /\ j \notin Deletions
  BY DEF Creations, Deletions
<1>2. /\ TableInv' /\ Kept /\ accounts \subseteq accounts'
      /\ i # 0 => \E b \in accounts' : b.id = i
  BY <1>1, InsertKeeps, RefuseKeeps
<1> QED
  BY <1>1, <1>2 DEF Effect, OnlyWith

LEMMA RetrievalEffect ==
  ASSUME TableInv, NEW id, NEW j \in Retrievals, NEW k, NEW i,
         RetrieveAccount(j, k, i)
  PROVE  Effect(id, j, k, i)
<1>1. j \notin Deletions
  BY DEF Retrievals, Deletions
<1>2. UNCHANGED accountVars /\ (i # 0 => \E b \in accounts : b.id = i)
  BY DEF RetrieveAccount, Refused, WithKey
<1> QED
  BY <1>1, <1>2, SameTable DEF Effect, OnlyWith

\* The same of each operation, whether it succeeds, is refused or fails.
LEMMA PerformEffect ==
  ASSUME TableInv, NEW id, NEW j \in Jobs, NEW k, NEW i, Perform(id, j, k, i)
  PROVE  Effect(id, j, k, i)
<1>1. CASE j \in Creations /\ CreateAccount(j, k, i)
  BY <1>1, RefusedEffect, CreationEffect DEF CreateAccount
<1>2. CASE j \in Retrievals /\ RetrieveAccount(j, k, i)
  BY <1>2, RetrievalEffect
<1>3. CASE j \in Updates /\ UpdateAccount(id, j, k, i)
  BY <1>3, RefusedEffect, UpdateEffect DEF UpdateAccount
<1>4. CASE j \in Deletions /\ DeleteAccount(id, j, k, i)
  BY <1>4, RefusedEffect, DeletionEffect DEF DeleteAccount
<1>5. CASE Refused(k, i, 500)
  BY <1>5, RefusedEffect
<1>6. CASE /\ k = 500 /\ i = 0
           /\ \/ j \in Creations /\ InsertAccount(j.user, j.pass)
              \/ j \in Updates /\ Owns(id, j) /\ UpdatePassword(j.arg, j.new)
              \/ j \in Deletions /\ Owns(id, j) /\ Deactivate(j.arg)
  BY <1>6, CreationEffect, UpdateEffect, DeletionEffect
<1> QED
  BY <1>1, <1>2, <1>3, <1>4, <1>5, <1>6 DEF Perform

-----------------------------------------------------------------------------
(* The threads and the connections *)

GoneInv ==
  /\ gone \subseteq AccountIds
  /\ \A i \in gone : \E a \in accounts : a.id = i
  /\ \A a \in accounts : a.id \in gone => ~a.active

\* Whoever is served under this id and name is an account there is.
Known(id, name) == \E a \in accounts : ServedAs(a, id, name)

ThreadInv(h) ==
  /\ cred[h] # None => who[h] = 0
  /\ who[h] = 0 => named[h] = None
  /\ who[h] # 0 => Known(who[h], named[h])
  /\ before[h] \subseteq gone
  /\ named[h] # None => who[h] \notin before[h]

Arrays ==
  /\ cred \in [Handlers -> Credentials \cup {None}]
  /\ who \in [Handlers -> AccountOr0]
  /\ named \in [Handlers -> Usernames \cup {None}]
  /\ before \in [Handlers -> SUBSET AccountIds]

\* What the connections hold: calls made for accounts there are, and replies that
\* name such accounts.
Logins  == [method : {"authenticate_user"}, cred : Credentials]
Actions == [method : {"operation"}, job : Jobs, by : AccountOr0,
            named : Usernames \cup {None}]
Calls   == Logins \cup {e \in Actions : e.by # 0 => Known(e.by, e.named)}
Replies == {i \in AccountOr0 : i # 0 => Known(i, None)}

WireInv ==
  /\ asked \in [Conns -> Seq(Calls)]
  /\ told \in [Conns -> Seq(Replies)]

Inv ==
  /\ Arrays /\ TableInv /\ GoneInv /\ WireInv
  /\ \A h \in Handlers : ThreadInv(h)

\* What the step of one thread leaves of another.
Alone(g) ==
  /\ cred'[g] = cred[g] /\ who'[g] = who[g]
  /\ named'[g] = named[g] /\ before'[g] = before[g]

\* A reply's account is known.
LEMMA KnownReply ==
  ASSUME NEW i, \E a \in accounts : a.id = i
  PROVE  Known(i, None)
BY DEF Known, ServedAs

\* An account that is known stays so.
LEMMA KnownStill ==
  ASSUME Kept, NEW id, NEW name, Known(id, name)
  PROVE  \E a \in accounts' : ServedAs(a, id, name)
BY DEF Known, ServedAs, Kept, Same

LEMMA SeqGrows ==
  ASSUME NEW S, NEW T, S \subseteq T, NEW s \in Seq(S)
  PROVE  s \in Seq(T)
OBVIOUS

\* So do the calls and the replies.
LEMMA CallsGrow ==
  ASSUME Kept
  PROVE  Calls \subseteq Calls' /\ Replies \subseteq Replies'
<1>1. ASSUME NEW id, NEW name, Known(id, name)
      PROVE  Known(id, name)'
  BY <1>1, KnownStill DEF Known, ServedAs
<1> QED
  BY <1>1 DEF Calls, Replies

LEMMA WireKept ==
  ASSUME Inv, Kept
  PROVE  asked \in [Conns -> Seq(Calls')] /\ told \in [Conns -> Seq(Replies')]
<1>1. asked \in [Conns -> Seq(Calls)] /\ told \in [Conns -> Seq(Replies)]
  BY DEF Inv, WireInv
<1>2. \A c \in Conns : asked[c] \in Seq(Calls') /\ told[c] \in Seq(Replies')
  BY <1>1, CallsGrow, SeqGrows
<1> QED
  BY <1>1, <1>2

\* A thread that does not move is disturbed by no other's step.
LEMMA ThreadKept ==
  ASSUME Inv, Kept, gone \subseteq gone', NEW g \in Handlers, Alone(g)
  PROVE  ThreadInv(g)'
<1>1. ThreadInv(g)
  BY DEF Inv
<1>2. who[g] # 0 => \E a \in accounts' : ServedAs(a, who[g], named[g])
  BY <1>1, KnownStill DEF ThreadInv
<1>3. who'[g] # 0 => Known(who[g], named[g])'
  BY <1>2 DEF Alone, Known, ServedAs
<1> QED
  BY <1>1, <1>3 DEF Alone, ThreadInv

\* The ids of deleted accounts stay those of accounts that are not active.
LEMMA GoneKept ==
  ASSUME Inv, Kept
  PROVE  /\ \A i \in gone : \E a \in accounts' : a.id = i
         /\ \A b \in accounts' : b.id \in gone => ~b.active
<1>1. \A i \in gone : \E a \in accounts' : a.id = i
  BY DEF Inv, GoneInv, Kept, Same
<1>2. ASSUME NEW b \in accounts', b.id \in gone
      PROVE  ~b.active
  <2>1. PICK a \in accounts : a.id = b.id
    BY <1>2 DEF Inv, GoneInv
  <2>2. a.id # nextAccount
    BY MaxAccountsAssumption DEF Inv, TableInv, Account, AccountIds
  <2>3. PICK c \in accounts : Same(c, b)
    BY <2>1, <2>2 DEF Kept
  <2> QED
    BY <2>3, <1>2 DEF Same, Inv, GoneInv
<1> QED
  BY <1>1, <1>2

\* An account is changed for whoever it belongs to.
LEMMA OwnerChanges ==
  ASSUME TableInv, NEW id, OnlyWith(id), NEW name, id # 0 => Known(id, name)
  PROVE  \A a \in accounts \ accounts' : ServedAs(a, id, name)
<1> SUFFICES ASSUME NEW a \in accounts \ accounts'
             PROVE  ServedAs(a, id, name)
  OBVIOUS
<1>1. a.id = id /\ a.id # 0
  BY MaxAccountsAssumption DEF OnlyWith, TableInv, Account, AccountIds
<1>2. PICK b \in accounts : ServedAs(b, id, name)
  BY <1>1 DEF Known
<1> QED
  BY <1>1, <1>2 DEF ServedAs, TableInv, UsernamesUnique

-----------------------------------------------------------------------------
(* The steps *)

\* The account whose change the step h or c explains.
ChangedForOwner ==
  \A a \in accounts \ accounts' :
    \/ \E h \in Handlers : ServedAs(a, who[h], named[h]) /\ who'[h] = 0
    \/ \E c \in Conns :
         LET e == Head(asked[c]) IN
         /\ asked[c] # <<>> /\ asked'[c] = Tail(asked[c])
         /\ e.method = "operation" /\ ServedAs(a, e.by, e.named)

Good == Inv' /\ Kept /\ ChangedForOwner

\* The parts of a step that leaves the table alone.
LEMMA StillGood ==
  ASSUME Inv, UNCHANGED <<accountVars, gone>>, Arrays', WireInv',
         \A h \in Handlers : ThreadInv(h)'
  PROVE  Good
<1>1. TableInv' /\ Kept /\ accounts' = accounts
  BY SameTable DEF Inv
<1>2. GoneInv'
  BY <1>1 DEF Inv, GoneInv
<1> QED
  BY <1>1, <1>2 DEF Good, Inv, ChangedForOwner

LEMMA SameWire ==
  ASSUME Inv, Kept, UNCHANGED wire
  PROVE  WireInv'
BY WireKept DEF WireInv, wire

\* An answer clears all that the thread knew.
LEMMA AnswerKeeps ==
  ASSUME Inv, Kept, gone \subseteq gone', NEW h \in Handlers, Answer(h)
  PROVE  /\ Arrays' /\ who'[h] = 0
         /\ \A g \in Handlers : ThreadInv(g)'
<1>1. /\ cred' = [cred EXCEPT ![h] = None] /\ who' = [who EXCEPT ![h] = 0]
      /\ named' = [named EXCEPT ![h] = None] /\ before' = [before EXCEPT ![h] = {}]
  BY DEF Answer
<1>2. Arrays' /\ who'[h] = 0
  BY <1>1 DEF Inv, Arrays, AccountOr0
<1>3. ThreadInv(h)'
  BY <1>1 DEF Inv, Arrays, ThreadInv
<1>4. \A g \in Handlers \ {h} : Alone(g)
  BY <1>1 DEF Inv, Arrays, Alone
<1> QED
  BY <1>2, <1>3, <1>4, ThreadKept

\* A login by its own reply is of an account that is not gone.
LEMMA LogInKeeps ==
  ASSUME Inv, UNCHANGED <<accountVars, gone>>, NEW h \in Handlers,
         NEW i \in AccountOr0, NEW name \in Usernames \cup {None},
         LogIn(h, i, name),
         i # 0 => Known(i, name) /\ (name # None => i \notin gone)
  PROVE  Arrays' /\ \A g \in Handlers : ThreadInv(g)'
<1>1. Kept /\ accounts' = accounts
  BY SameTable DEF Inv
<1>2. CASE i = 0 /\ Answer(h)
  BY <1>1, <1>2, AnswerKeeps
<1>3. CASE i # 0 /\ who' = [who EXCEPT ![h] = i]
  <2>1. /\ named' = [named EXCEPT ![h] = name] /\ cred' = [cred EXCEPT ![h] = None]
        /\ before' = before
    BY <1>3 DEF LogIn
  <2>2. Arrays'
    BY <1>3, <2>1 DEF Inv, Arrays
  <2>3. who'[h] = i /\ named'[h] = name /\ cred'[h] = None /\ before'[h] = before[h]
    BY <1>3, <2>1 DEF Inv, Arrays
  <2>4. Known(i, name)'
    BY <1>1, <1>3 DEF Known, ServedAs
  <2>5. ThreadInv(h)
    BY DEF Inv
  <2>6. ThreadInv(h)'
    BY <1>3, <2>3, <2>4, <2>5 DEF ThreadInv
  <2>7. \A g \in Handlers \ {h} : Alone(g)
    BY <1>3, <2>1 DEF Inv, Arrays, Alone
  <2> QED
    BY <1>1, <2>2, <2>6, <2>7, ThreadKept
<1> QED
  BY <1>2, <1>3 DEF LogIn

\* A request arrives.
LEMMA ReceiveGood ==
  ASSUME Inv, NEW h \in Handlers, Receive(h)
  PROVE  Good
<1>1. PICK x \in Credentials : cred' = [cred EXCEPT ![h] = x]
  BY DEF Receive
<1>2. /\ before' = [before EXCEPT ![h] = gone] /\ who[h] = 0
      /\ who' = who /\ named' = named /\ UNCHANGED <<accountVars, wire, gone>>
  BY DEF Receive, Idle, LoggedIn
<1>3. Kept
  BY <1>2, SameTable DEF Inv
<1>4. Arrays'
  BY <1>1, <1>2 DEF Inv, Arrays, GoneInv
<1>5. ThreadInv(h)
  BY DEF Inv
<1>6. before'[h] = gone
  BY <1>2 DEF Inv, Arrays
<1>7. ThreadInv(h)'
  BY <1>2, <1>5, <1>6 DEF ThreadInv
<1>8. \A g \in Handlers \ {h} : Alone(g)
  BY <1>1, <1>2 DEF Inv, Arrays, Alone
<1>9. \A g \in Handlers : ThreadInv(g)'
  BY <1>2, <1>3, <1>7, <1>8, ThreadKept
<1> QED
  BY <1>2, <1>3, <1>4, <1>9, SameWire, StillGood

\* A login's call yields an account that is active, and so not gone.
LEMMA FoundKnown ==
  ASSUME Inv, NEW x \in Credentials, NEW k, NEW i, i # 0, Authenticate(x, k, i)
  PROVE  Known(i, x.user) /\ i \notin gone /\ i \in AccountIds
<1>1. PICK a \in authenticate_user(x.user, x.pass) : i = a.id
  BY DEF Authenticate
<1>2. a \in accounts /\ a.username = x.user /\ a.active
  BY DEF authenticate_user, Named
<1> QED
  BY <1>1, <1>2 DEF Known, ServedAs, Inv, GoneInv, TableInv, Account

LEMMA VerifyPasswordGood ==
  ASSUME Inv, NEW h \in Handlers, VerifyPassword(h)
  PROVE  Good
<1>1. PICK k \in Codes, i \in AccountOr0 :
        Authenticate(cred[h], k, i) /\ LogIn(h, i, cred[h].user)
  BY DEF VerifyPassword
<1>2. cred[h] \in Credentials /\ cred[h].user \in Usernames
  BY DEF VerifyPassword, LoggingIn, Inv, Arrays, Credentials
<1>3. UNCHANGED <<accountVars, wire, gone>>
  BY <1>1 DEF VerifyPassword, Authenticate
<1>4. Kept
  BY <1>3, SameTable DEF Inv
<1>5. i # 0 => Known(i, cred[h].user) /\ i \notin gone
  BY <1>1, <1>2, FoundKnown
<1>6. Arrays' /\ \A g \in Handlers : ThreadInv(g)'
  BY <1>1, <1>2, <1>3, <1>5, LogInKeeps
<1> QED
  BY <1>3, <1>4, <1>6, SameWire, StillGood

\* An operation, by its own reply.
LEMMA ActGood ==
  ASSUME Inv, NEW h \in Handlers, Act(h)
  PROVE  Good
<1>1. PICK j \in Operations(h), k \in Codes, i \in AccountOr0 :
        /\ Perform(who[h], j, k, i)
        /\ gone' = IF j \in Deletions /\ k = 200 THEN gone \cup {j.arg} ELSE gone
  BY DEF Act
<1>2. Answer(h) /\ UNCHANGED wire /\ j \in Jobs /\ TableInv
  BY DEF Act, Operations, Jobs, Inv
<1>3. Effect(who[h], j, k, i)
  BY <1>1, <1>2, PerformEffect
<1>4. TableInv' /\ Kept /\ OnlyWith(who[h])
  BY <1>3 DEF Effect
<1>5. GoneInv' /\ gone \subseteq gone'
  <2>1. CASE j \in Deletions /\ k = 200
    <3>1. Dead(j) /\ gone' = gone \cup {j.arg} /\ j.arg \in AccountIds
      BY <1>1, <1>3, <2>1 DEF Effect, Deletions
    <3> QED
      BY <1>4, <3>1, GoneKept DEF Dead, GoneInv, Inv
  <2>2. CASE ~(j \in Deletions /\ k = 200)
    BY <1>1, <1>4, <2>2, GoneKept DEF GoneInv, Inv
  <2> QED
    BY <2>1, <2>2
<1>6. /\ Arrays' /\ who'[h] = 0
      /\ \A g \in Handlers : ThreadInv(g)'
  BY <1>2, <1>4, <1>5, AnswerKeeps
<1>7. WireInv'
  BY <1>2, <1>4, SameWire
<1>8. ThreadInv(h)
  BY DEF Inv
<1>9. \A a \in accounts \ accounts' : ServedAs(a, who[h], named[h])
  BY <1>2, <1>4, <1>8, OwnerChanges DEF ThreadInv
<1> QED
  BY <1>4, <1>5, <1>6, <1>7, <1>9 DEF Good, Inv, ChangedForOwner

LEMMA EndGood ==
  ASSUME Inv, NEW h \in Handlers, End(h)
  PROVE  Good
<1>1. Kept
  BY SameTable DEF End, Inv
<1>2. Arrays' /\ \A g \in Handlers : ThreadInv(g)'
  BY <1>1, AnswerKeeps DEF End
<1> QED
  BY <1>1, <1>2, SameWire, StillGood DEF End

\* The calls a thread makes are for the account it acts for.
LEMMA CallsKnown ==
  ASSUME Inv, NEW h \in Handlers, NEW e \in CallsOf(h)
  PROVE  e \in Calls
<1>1. CASE LoggingIn(h)
  BY <1>1 DEF CallsOf, LoggingIn, Calls, Logins, Inv, Arrays
<1>2. CASE ~LoggingIn(h)
  <2>1. PICK j \in Operations(h) :
          e = [method |-> "operation", job |-> j, by |-> who[h], named |-> named[h]]
    BY <1>2 DEF CallsOf
  <2>2. j \in Jobs /\ who[h] \in AccountOr0 /\ named[h] \in Usernames \cup {None}
    BY DEF Operations, Jobs, Inv, Arrays
  <2>3. e \in Actions /\ e.by = who[h] /\ e.named = named[h]
    BY <2>1, <2>2 DEF Actions
  <2>4. ThreadInv(h)
    BY DEF Inv
  <2> QED
    BY <2>3, <2>4 DEF Calls, ThreadInv
<1> QED
  BY <1>1, <1>2

\* A read gives up: its call may be served later.
LEMMA GiveUpGood ==
  ASSUME Inv, NEW h \in Handlers, GiveUp(h)
  PROVE  Good
<1>1. PICK c \in Conns, e \in CallsOf(h) : asked' = [asked EXCEPT ![c] = Append(@, e)]
  BY DEF GiveUp
<1>2. told' = told /\ Answer(h) /\ UNCHANGED <<accountVars, gone>>
  BY DEF GiveUp
<1>3. Kept /\ accounts' = accounts
  BY <1>2, SameTable DEF Inv
<1>4. e \in Calls'
  BY <1>3, CallsKnown, CallsGrow
<1>5. asked \in [Conns -> Seq(Calls')] /\ told \in [Conns -> Seq(Replies')]
  BY <1>3, WireKept
<1>6. WireInv'
  BY <1>1, <1>2, <1>4, <1>5 DEF WireInv
<1>7. Arrays' /\ \A g \in Handlers : ThreadInv(g)'
  BY <1>2, <1>3, AnswerKeeps
<1> QED
  BY <1>2, <1>6, <1>7, StillGood

\* Another call's reply: a login takes its account, known by no username.
LEMMA HearAnotherGood ==
  ASSUME Inv, NEW h \in Handlers, HearAnother(h)
  PROVE  Good
<1>1. PICK c \in Conns, e \in CallsOf(h) :
        /\ told[c] # <<>>
        /\ told' = [told EXCEPT ![c] = Tail(@)]
        /\ asked' = [asked EXCEPT ![c] = Append(@, e)]
        /\ LogIn(h, IF LoggingIn(h) THEN Head(told[c]) ELSE 0, None)
  BY DEF HearAnother
<1>2. UNCHANGED <<accountVars, gone>>
  BY DEF HearAnother
<1>3. Kept /\ accounts' = accounts
  BY <1>2, SameTable DEF Inv
<1>4. e \in Calls'
  BY <1>3, CallsKnown, CallsGrow
<1>5. asked \in [Conns -> Seq(Calls')] /\ told \in [Conns -> Seq(Replies')]
  BY <1>3, WireKept
<1>6. WireInv'
  BY <1>1, <1>4, <1>5 DEF WireInv
<1>7. Head(told[c]) \in Replies
  BY <1>1 DEF Inv, WireInv
<1>8. PICK i \in Replies : LogIn(h, i, None)
  BY <1>1, <1>7 DEF Replies, AccountOr0
<1>9. i \in AccountOr0 /\ (i # 0 => Known(i, None))
  BY DEF Replies
<1>10. Arrays' /\ \A g \in Handlers : ThreadInv(g)'
  BY <1>2, <1>8, <1>9, LogInKeeps
<1> QED
  BY <1>2, <1>6, <1>10, StillGood

-----------------------------------------------------------------------------
(* The calls that were given up on *)

\* A reply to such a call names an account there is.
LEMMA ServedWire ==
  ASSUME Inv, Kept, NEW c \in Conns, NEW i \in AccountOr0, asked[c] # <<>>,
         i # 0 => \E b \in accounts' : b.id = i,
         told' = [told EXCEPT ![c] = Append(@, i)],
         asked' = [asked EXCEPT ![c] = Tail(@)]
  PROVE  WireInv' /\ asked'[c] = Tail(asked[c])
<1>1. i \in Replies'
  BY DEF Replies, Known, ServedAs
<1>2. asked \in [Conns -> Seq(Calls')] /\ told \in [Conns -> Seq(Replies')]
  BY WireKept
<1>3. Tail(asked[c]) \in Seq(Calls') /\ Append(told[c], i) \in Seq(Replies')
  BY <1>1, <1>2
<1> QED
  BY <1>2, <1>3 DEF WireInv

LEMMA ServeLateGood ==
  ASSUME Inv, NEW c \in Conns, ServeLate(c)
  PROVE  Good
<1> DEFINE e == Head(asked[c])
<1>1. PICK k \in Codes, i \in AccountOr0 :
        /\ \/ e.method = "authenticate_user" /\ Authenticate(e.cred, k, i)
           \/ e.method = "operation" /\ Perform(e.by, e.job, k, i)
        /\ told' = [told EXCEPT ![c] = Append(@, i)]
  BY DEF ServeLate
<1>2. /\ asked[c] # <<>> /\ asked' = [asked EXCEPT ![c] = Tail(@)]
      /\ gone' = gone /\ UNCHANGED threadVars
  BY DEF ServeLate
<1>3. e \in Calls
  BY <1>2 DEF Inv, WireInv
<1> HIDE DEF e
<1>4. /\ TableInv' /\ Kept
      /\ i # 0 => \E b \in accounts' : b.id = i
      /\ \/ accounts' = accounts
         \/ /\ e.method = "operation"
            /\ \A a \in accounts \ accounts' : ServedAs(a, e.by, e.named)
  <2>1. CASE e.method = "authenticate_user" /\ Authenticate(e.cred, k, i)
    <3>1. e.cred \in Credentials
      BY <1>3, <2>1 DEF Calls, Logins, Actions
    <3>2. i # 0 => Known(i, e.cred.user)
      BY <2>1, <3>1, FoundKnown
    <3>3. UNCHANGED accountVars
      BY <2>1 DEF Authenticate
    <3> QED
      BY <3>2, <3>3, SameTable DEF Inv, Known, ServedAs
  <2>2. CASE e.method = "operation" /\ Perform(e.by, e.job, k, i)
    <3>1. e.job \in Jobs /\ (e.by # 0 => Known(e.by, e.named))
      BY <1>3, <2>2 DEF Calls, Logins, Actions
    <3>2. Effect(e.by, e.job, k, i)
      BY <2>2, <3>1, PerformEffect DEF Inv
    <3>3. \A a \in accounts \ accounts' : ServedAs(a, e.by, e.named)
      BY <3>1, <3>2, OwnerChanges DEF Effect, Inv
    <3> QED
      BY <2>2, <3>2, <3>3 DEF Effect
  <2> QED
    BY <1>1, <2>1, <2>2
<1>5. WireInv' /\ asked'[c] = Tail(asked[c])
  BY <1>1, <1>2, <1>4, ServedWire
<1>6. GoneInv'
  BY <1>2, <1>4, GoneKept DEF GoneInv, Inv
<1>7. Arrays' /\ \A g \in Handlers : Alone(g)
  BY <1>2 DEF threadVars, Inv, Arrays, Alone
<1>8. \A g \in Handlers : ThreadInv(g)'
  BY <1>2, <1>4, <1>7, ThreadKept
<1>9. ChangedForOwner
  BY <1>2, <1>4, <1>5 DEF ChangedForOwner, e
<1> QED
  BY <1>4, <1>5, <1>6, <1>7, <1>8, <1>9 DEF Good, Inv

LEMMA CloseGood ==
  ASSUME Inv, NEW c \in Conns, Close(c)
  PROVE  Good
<1>1. UNCHANGED <<accountVars, threadVars, asked, gone>>
  BY DEF Close
<1>2. Kept
  BY <1>1, SameTable DEF Inv
<1>3. asked \in [Conns -> Seq(Calls')] /\ told \in [Conns -> Seq(Replies')]
  BY <1>2, WireKept
<1>4. told' = [told EXCEPT ![c] = <<>>] /\ <<>> \in Seq(Replies')
  BY DEF Close
<1>5. WireInv'
  BY <1>1, <1>3, <1>4 DEF WireInv
<1>6. Arrays' /\ \A g \in Handlers : Alone(g)
  BY <1>1 DEF threadVars, Inv, Arrays, Alone
<1>7. \A g \in Handlers : ThreadInv(g)'
  BY <1>1, <1>2, <1>6, ThreadKept
<1> QED
  BY <1>1, <1>5, <1>6, <1>7, StillGood

\* Every step keeps the invariant and the accounts, and changes an account only
\* for its owner.
LEMMA NextGood ==
  ASSUME Inv, Next
  PROVE  Good
<1>1. CASE \E h \in Handlers : \/ Receive(h) \/ VerifyPassword(h) \/ Act(h)
                               \/ End(h) \/ GiveUp(h) \/ HearAnother(h)
  BY <1>1, ReceiveGood, VerifyPasswordGood, ActGood, EndGood, GiveUpGood, HearAnotherGood
<1>2. CASE \E c \in Conns : ServeLate(c) \/ Close(c)
  BY <1>2, ServeLateGood, CloseGood
<1> QED
  BY <1>1, <1>2 DEF Next

-----------------------------------------------------------------------------
(* The theorems *)

\* The invariant, of every behaviour.
LEMMA Invariance == Spec => []Inv
<1>1. ASSUME Init PROVE Inv
  <2>1. Arrays /\ TableInv /\ GoneInv /\ \A h \in Handlers : ThreadInv(h)
    BY <1>1, MaxAccountsAssumption
       DEF Init, AccountsInit, Arrays, TableInv, UsernamesUnique, GoneInv,
           ThreadInv, AccountIds, AccountOr0
  <2>2. <<>> \in Seq(Calls) /\ <<>> \in Seq(Replies)
    OBVIOUS
  <2>3. WireInv
    BY <1>1, <2>2 DEF Init, WireInv
  <2> QED
    BY <2>1, <2>3 DEF Inv
<1>2. ASSUME Inv, UNCHANGED vars PROVE Inv'
  <2>1. /\ UNCHANGED <<accountVars, threadVars, wire, gone>>
    BY <1>2 DEF vars
  <2>2. Kept
    BY <1>2, <2>1, SameTable DEF Inv
  <2>3. WireInv'
    BY <1>2, <2>1, <2>2, SameWire
  <2>4. Arrays' /\ \A g \in Handlers : Alone(g)
    BY <1>2, <2>1 DEF threadVars, Inv, Arrays, Alone
  <2>5. \A g \in Handlers : ThreadInv(g)'
    BY <1>2, <2>1, <2>2, <2>4, ThreadKept
  <2> QED
    BY <1>2, <2>1, <2>3, <2>4, <2>5, StillGood DEF Good
<1>3. Inv /\ [Next]_vars => Inv'
  BY <1>2, NextGood DEF Good
<1> QED
  BY <1>1, <1>3, PTL DEF Spec

\* Type correctness: a thread acts only for an account that exists, whichever
\* call's reply named it.
THEOREM TypeCorrect == Spec => []TypeOK
<1>1. ASSUME Inv PROVE TypeOK
  <2>1. /\ accounts \subseteq Account /\ nextAccount \in 1..(MaxAccounts + 1)
        /\ \A a \in accounts : a.id < nextAccount
    BY <1>1 DEF Inv, TableInv
  <2>2. \A h \in Handlers :
          /\ LoggingIn(h) => cred[h] \in Credentials /\ ~LoggedIn(h)
          /\ LoggedIn(h) => WithKey(who[h]) # {}
          /\ named[h] # None => LoggedIn(h)
    BY <1>1 DEF Inv, Arrays, ThreadInv, LoggingIn, LoggedIn, Known, ServedAs, WithKey
  <2>3. ASSUME NEW c \in Conns, told[c] # <<>>, Head(told[c]) # 0
        PROVE  WithKey(Head(told[c])) # {}
    <3>1. Head(told[c]) \in Replies
      BY <1>1, <2>3 DEF Inv, WireInv
    <3> QED
      BY <2>3, <3>1 DEF Replies, Known, ServedAs, WithKey
  <2> QED
    BY <2>1, <2>2, <2>3 DEF TypeOK
<1> QED
  BY Invariance, <1>1, PTL

\* No two accounts share a username, deactivated ones included.
THEOREM UsernamesUniqueHolds == Spec => []UsernamesUnique
<1>1. Inv => UsernamesUnique
  BY DEF Inv, TableInv
<1> QED
  BY Invariance, <1>1, PTL

\* No request that arrives after a deletion was answered is served as the
\* deleted account, unless its login reads the reply of another call.
THEOREM DeletionIsFinalHolds == Spec => []DeletionIsFinal
<1>1. Inv => DeletionIsFinal
  BY DEF Inv, ThreadInv, DeletionIsFinal
<1> QED
  BY Invariance, <1>1, PTL

\* No account loses its id or username, or comes back to life, be it by calls
\* that are served after they were given up on.
THEOREM IdentitiesLastHolds == Spec => IdentitiesLast
<1>1. Inv /\ [Next]_vars =>
        [\A a \in accounts : \E b \in accounts' :
           /\ b.id = a.id /\ b.username = a.username
           /\ ~a.active => ~b.active]_vars
  BY NextGood DEF Good, Kept, Same
<1> QED
  BY Invariance, <1>1, PTL DEF Spec, IdentitiesLast

\* An account is changed only by a request that is served as that account, at
\* once or after it was given up on, and that logged in as it, unless its login
\* read the reply of another call.
THEOREM ChangedByOwnerOnlyHolds == Spec => ChangedByOwnerOnly
<1>1. Inv /\ [Next]_vars =>
        [\A a \in accounts \ accounts' :
           \/ \E h \in Handlers : ServedAs(a, who[h], named[h]) /\ who'[h] = 0
           \/ \E c \in Conns :
                LET e == Head(asked[c]) IN
                /\ asked[c] # <<>> /\ asked'[c] = Tail(asked[c])
                /\ e.method = "operation" /\ ServedAs(a, e.by, e.named)]_vars
  BY NextGood DEF Good, ChangedForOwner
<1> QED
  BY Invariance, <1>1, PTL DEF Spec, ChangedByOwnerOnly
=============================================================================
