------------------------------- MODULE Gateway ------------------------------
(***************************************************************************)
(* The API gateway and the account service: a request that needs a login   *)
(* first authenticates by one RPC, then performs its operation by another, *)
(* acting for the account that the first one's reply names.  Gateway       *)
(* threads serve requests concurrently, so anything may happen in between. *)
(*   app/apigateway/server/src/apigateway.py                               *)
(*   app/common/site-packages/microservice_connected_server.py             *)
(*   app/common/site-packages/base_client.py                               *)
(*   app/account/service/server/src/account_server.cpp                     *)
(*                                                                         *)
(* A read may give up, and its connection goes back to the pool all the    *)
(* same: the call it was made for may be served later, and its reply is    *)
(* read by the connection's next call.  (PooledRpc shows that a call reads *)
(* its own reply exactly when no read on its connection ever gave up; here *)
(* is what the replies say.)  A call on any other connection is one step.  *)
(*                                                                         *)
(* The operations on follows, likes and posts leave accounts alone: of     *)
(* them, only whom they act for is modelled.                               *)
(***************************************************************************)
EXTENDS Accounts, Sequences

CONSTANTS
  Handlers,  \* gateway threads
  Conns,     \* the connections on which reads may give up
  None,
  MaxUnread  \* bound: how many replies a connection may be behind

ASSUME UnreadAssumption == MaxUnread \in Nat
ASSUME NoneAssumption   == None \notin Usernames

VARIABLES
  cred,   \* the credentials that a thread's request brought, until it logs in
  who,    \* the account it acts for then (auth.current_user().id), or 0
  asked,  \* asked[c]: the calls given up on that are still to be served
  told,   \* told[c]: the replies given up on: the account in each, or 0
  named,  \* history, named[h]: the username h logged in with, or None if the
          \* reply was another call's
  gone,   \* history: the accounts whose deletion was answered with 200, by the
          \* reply to that very call
  before  \* history: before[h] is what gone was when h's request arrived

threadVars == <<cred, who, named, before>>
wire       == <<asked, told>>
vars       == <<accountVars, threadVars, wire, gone>>

Credentials == [user : Usernames, pass : Passwords]

\* What requests ask of the account service: without a login, and with one.
Creations  == [op : {"create_account"}, user : Usernames, pass : Passwords]
Retrievals == [op : {"retrieve_account"}, arg : AccountIds]
Updates    == [op : {"update_account"}, arg : AccountIds, new : Passwords]
Deletions  == [op : {"delete_account"}, arg : AccountIds]

Codes      == {200, 400, 401, 403, 404, 500}
AccountOr0 == AccountIds \cup {0}

Init ==
  /\ AccountsInit
  /\ cred = [h \in Handlers |-> None]
  /\ who = [h \in Handlers |-> 0]
  /\ named = [h \in Handlers |-> None]
  /\ before = [h \in Handlers |-> {}]
  /\ asked = [c \in Conns |-> <<>>]
  /\ told = [c \in Conns |-> <<>>]
  /\ gone = {}

-----------------------------------------------------------------------------
(* The account service: what serving a call does to the table, and the reply: *)
(* its status as the gateway answers it, k, and the account in it, i, or 0    *)

Refused(k, i, code) == k = code /\ i = 0 /\ UNCHANGED accountVars

Authenticate(x, k, i) ==
  /\ UNCHANGED accountVars
  /\ LET found == authenticate_user(x.user, x.pass) IN
     \/ found = {} /\ k = 401 /\ i = 0
     \/ k = 200 /\ \E a \in found : i = a.id

\* 400: the attributes are invalid, or the INSERT fails.
CreateAccount(j, k, i) ==
  \/ Refused(k, i, 400)
  \/ InsertAccount(j.user, j.pass) /\ k = 200 /\ i = nextAccount
  \/ RefuseAccount /\ k = 400 /\ i = 0

RetrieveAccount(j, k, i) ==
  \/ WithKey(j.arg) = {} /\ Refused(k, i, 404)
  \/ WithKey(j.arg) # {} /\ k = 200 /\ i = j.arg /\ UNCHANGED accountVars

\* mutant: whoever is logged in may write to any account
MayWrite(id, j) == TRUE

\* requester_id = account_id
Owns(id, j) == id = j.arg

\* 400: the attributes are invalid.
UpdateAccount(id, j, k, i) ==
  \/ ~Owns(id, j) /\ Refused(k, i, 403)
  \/ Owns(id, j) /\ Refused(k, i, 400)
  \/ Owns(id, j) /\ WithKey(j.arg) = {} /\ Refused(k, i, 404)
  \/ /\ Owns(id, j) /\ WithKey(j.arg) # {}
     /\ UpdatePassword(j.arg, j.new) /\ k = 200 /\ i = j.arg

DeleteAccount(id, j, k, i) ==
  \/ ~Owns(id, j) /\ Refused(k, i, 403)
  \/ Owns(id, j) /\ WithKey(j.arg) = {} /\ Refused(k, i, 404)
  \/ Owns(id, j) /\ WithKey(j.arg) # {} /\ Deactivate(j.arg) /\ k = 200 /\ i = 0

\* The operation j for requester id. Or its statement fails, or it is not known
\* whether its transaction committed.
Perform(id, j, k, i) ==
  \/ j \in Creations /\ CreateAccount(j, k, i)
  \/ j \in Retrievals /\ RetrieveAccount(j, k, i)
  \/ j \in Updates /\ UpdateAccount(id, j, k, i)
  \/ j \in Deletions /\ DeleteAccount(id, j, k, i)
  \/ Refused(k, i, 500)
  \/ /\ k = 500 /\ i = 0
     /\ \/ j \in Creations /\ InsertAccount(j.user, j.pass)
        \/ j \in Updates /\ Owns(id, j) /\ UpdatePassword(j.arg, j.new)
        \/ j \in Deletions /\ Owns(id, j) /\ Deactivate(j.arg)

-----------------------------------------------------------------------------
(* The gateway *)

LoggingIn(h) == cred[h] # None
LoggedIn(h)  == who[h] # 0
Idle(h)      == ~LoggingIn(h) /\ ~LoggedIn(h)

\* A request that needs a login arrives; what it asks for is looked at after it.
Receive(h) ==
  /\ Idle(h)
  /\ \E x \in Credentials : cred' = [cred EXCEPT ![h] = x]
  /\ before' = [before EXCEPT ![h] = gone]
  /\ UNCHANGED <<accountVars, wire, who, named, gone>>

\* The thread answers, and is done with the request.
Answer(h) ==
  /\ cred' = [cred EXCEPT ![h] = None]
  /\ who' = [who EXCEPT ![h] = 0]
  /\ named' = [named EXCEPT ![h] = None]
  /\ before' = [before EXCEPT ![h] = {}]

\* verify_password, by a reply with account i, or by one that is an exception to
\* the login: "except: account = None" takes each of those for a refusal.
LogIn(h, i, name) ==
  \/ i = 0 /\ Answer(h)
  \/ /\ i # 0
     /\ who' = [who EXCEPT ![h] = i]
     /\ named' = [named EXCEPT ![h] = name]
     /\ cred' = [cred EXCEPT ![h] = None]
     /\ UNCHANGED before

\* The RPC of the login, and that of the operation, on a connection in step.
VerifyPassword(h) ==
  /\ LoggingIn(h)
  /\ \E k \in Codes, i \in AccountOr0 :
       Authenticate(cred[h], k, i) /\ LogIn(h, i, cred[h].user)
  /\ UNCHANGED <<wire, gone>>

Operations(h) == IF LoggedIn(h) THEN Updates \cup Deletions
                 ELSE Creations \cup Retrievals

Act(h) ==
  /\ ~LoggingIn(h)
  /\ \E j \in Operations(h), k \in Codes, i \in AccountOr0 :
       /\ Perform(who[h], j, k, i)
       /\ gone' = IF j \in Deletions /\ k = 200 THEN gone \cup {j.arg} ELSE gone
  /\ Answer(h)
  /\ UNCHANGED wire

\* Or the request ends without a call to the account service: nothing can be sent
\* (401 or 500), a parameter is missing from its JSON body (400), or it asks for
\* an operation on follows, likes or posts, which other services perform.
End(h) ==
  /\ ~Idle(h)
  /\ Answer(h)
  /\ UNCHANGED <<accountVars, wire, gone>>

-----------------------------------------------------------------------------
(* Connections on which a read has given up *)

CallsOf(h) ==
  IF LoggingIn(h) THEN {[method |-> "authenticate_user", cred |-> cred[h]]}
  ELSE {[method |-> "operation", job |-> j, by |-> who[h], named |-> named[h]] :
          j \in Operations(h)}

\* The call is sent, and the read gives up or the connection breaks.
GiveUp(h) ==
  /\ \E c \in Conns, e \in CallsOf(h) :
       /\ Len(asked[c]) + Len(told[c]) < MaxUnread
       /\ asked' = [asked EXCEPT ![c] = Append(@, e)]
  /\ Answer(h)
  /\ UNCHANGED <<accountVars, told, gone>>

\* The call is sent, and the first reply that is unread is taken for its own. A
\* login takes any reply with an account in it. (An operation may take another
\* call's for any answer.)
HearAnother(h) ==
  /\ \E c \in Conns, e \in CallsOf(h) :
       /\ told[c] # <<>>
       /\ told' = [told EXCEPT ![c] = Tail(@)]
       /\ asked' = [asked EXCEPT ![c] = Append(@, e)]
       /\ LogIn(h, IF LoggingIn(h) THEN Head(told[c]) ELSE 0, None)
  /\ UNCHANGED <<accountVars, gone>>

\* The service serves the next call that was given up on.
ServeLate(c) ==
  /\ asked[c] # <<>>
  /\ \E k \in Codes, i \in AccountOr0 :
       /\ LET e == Head(asked[c]) IN
          \/ e.method = "authenticate_user" /\ Authenticate(e.cred, k, i)
          \/ e.method = "operation" /\ Perform(e.by, e.job, k, i)
       /\ told' = [told EXCEPT ![c] = Append(@, i)]
  /\ asked' = [asked EXCEPT ![c] = Tail(@)]
  /\ UNCHANGED <<threadVars, gone>>

\* A connection beyond the pool's size is closed when it is put back; once the
\* service is done with it, c stands for another.
Close(c) ==
  /\ asked[c] = <<>> /\ told[c] # <<>>
  /\ told' = [told EXCEPT ![c] = <<>>]
  /\ UNCHANGED <<accountVars, threadVars, asked, gone>>

Next ==
  \/ \E h \in Handlers :
       \/ Receive(h) \/ VerifyPassword(h) \/ Act(h) \/ End(h)
       \/ GiveUp(h) \/ HearAnother(h)
  \/ \E c \in Conns : ServeLate(c) \/ Close(c)

Spec == Init /\ [][Next]_vars

-----------------------------------------------------------------------------
(* Properties *)

\* The types; a thread acts only for an account that exists, whichever call's
\* reply named it, and so does a call that was given up on.
TypeOK ==
  /\ accounts \subseteq Account
  /\ nextAccount \in 1..(MaxAccounts + 1)
  /\ \A a \in accounts : a.id < nextAccount
  /\ \A h \in Handlers :
       /\ LoggingIn(h) => cred[h] \in Credentials /\ ~LoggedIn(h)
       /\ LoggedIn(h) => WithKey(who[h]) # {}
       /\ named[h] # None => LoggedIn(h)
  /\ \A c \in Conns :
       told[c] # <<>> /\ Head(told[c]) # 0 => WithKey(Head(told[c])) # {}

\* A username belongs to one account for ever: no two accounts share one, and
\* no account loses its own, changes it, or comes back to life.
UsernamesUnique ==
  \A a, b \in accounts : a.username = b.username \/ a.id = b.id => a = b

IdentitiesLast ==
  [][\A a \in accounts : \E b \in accounts' :
       /\ b.id = a.id /\ b.username = a.username
       /\ ~a.active => ~b.active]_vars

\* Once the deletion of an account was answered with 200, no request that
\* arrives later is served as that account, whatever credentials it brings and
\* whatever calls are under way or still to be served, if both the deletion's
\* reply and the login's were their own. (A request that logged in before may
\* still act for the account; and so may one whose login reads the reply of a
\* call that was given up on.)
DeletionIsFinal ==
  \A h \in Handlers : named[h] # None => who[h] \notin before[h]

\* An account is changed only by a request that is served as that account, at
\* once or after it was given up on; and the request brought the account's
\* username and a password that was right for it, unless its login read another
\* call's reply.
ServedAs(a, id, name) == id = a.id /\ name \in {None, a.username}

ChangedByOwnerOnly ==
  [][\A a \in accounts \ accounts' :
       \/ \E h \in Handlers : ServedAs(a, who[h], named[h]) /\ who'[h] = 0
       \/ \E c \in Conns :
            LET e == Head(asked[c]) IN
            /\ asked[c] # <<>> /\ asked'[c] = Tail(asked[c])
            /\ e.method = "operation" /\ ServedAs(a, e.by, e.named)]_vars
=============================================================================
