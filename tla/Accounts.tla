------------------------------ MODULE Accounts ------------------------------
(***************************************************************************)
(* The account service's table and the operations that touch it, each one  *)
(* SQL statement in a transaction of its own and so atomic.  A row is      *)
(* never removed: deleting an account deactivates it.                      *)
(* app/account/service/server/src/account_server.cpp                       *)
(* app/account/database/account_schema.sql                                 *)
(***************************************************************************)
EXTENDS Integers

CONSTANTS
  Usernames,
  Passwords,
  MaxAccounts  \* bound: the accounts that can be created

ASSUME MaxAccountsAssumption == MaxAccounts \in Nat

VARIABLES
  accounts,    \* the table
  nextAccount  \* the value its SERIAL hands out next

accountVars == <<accounts, nextAccount>>

AccountIds == 1..MaxAccounts
Account    == [id : AccountIds, username : Usernames, password : Passwords,
               active : BOOLEAN]

AccountsInit == accounts = {} /\ nextAccount = 1

Named(u)   == {a \in accounts : a.username = u}
WithKey(i) == {a \in accounts : a.id = i}

\* mutant: a deactivated account can still log in
AuthenticatesAnyRow(u, p) == {a \in Named(u) : a.password = p}

\* authenticate_user: the accounts (one at most) the credentials are right for.
authenticate_user(u, p) == {a \in Named(u) : a.active /\ a.password = p}

\* mutant: username is not UNIQUE among deactivated accounts
InsertOverDeactivated(u, p) ==
  /\ \A a \in Named(u) : ~a.active
  /\ nextAccount \in AccountIds
  /\ accounts' = accounts \cup {[id |-> nextAccount, username |-> u,
                                 password |-> p, active |-> TRUE]}
  /\ nextAccount' = nextAccount + 1

\* INSERT.  username is UNIQUE, among the deactivated accounts too.
InsertAccount(u, p) ==
  /\ Named(u) = {}
  /\ nextAccount \in AccountIds
  /\ accounts' = accounts \cup {[id |-> nextAccount, username |-> u,
                                 password |-> p, active |-> TRUE]}
  /\ nextAccount' = nextAccount + 1

\* Any SQL error of the INSERT is answered as a username that exists, and the
\* SERIAL may have been drawn from all the same.
RefuseAccount ==
  /\ UNCHANGED accounts
  /\ \/ UNCHANGED nextAccount
     \/ nextAccount \in AccountIds /\ nextAccount' = nextAccount + 1

\* mutant: the whole row is written back, active or not
UpdateReactivates(i, p) ==
  /\ accounts' = {IF a.id = i THEN [a EXCEPT !.password = p, !.active = TRUE]
                  ELSE a : a \in accounts}
  /\ UNCHANGED nextAccount

\* UPDATE ... SET password (and the names) WHERE id = %d
UpdatePassword(i, p) ==
  /\ accounts' = {IF a.id = i THEN [a EXCEPT !.password = p] ELSE a : a \in accounts}
  /\ UNCHANGED nextAccount

\* mutant: the row is removed
DeleteRow(i) ==
  /\ accounts' = accounts \ WithKey(i)
  /\ UNCHANGED nextAccount

\* UPDATE ... SET active = FALSE WHERE id = %d
Deactivate(i) ==
  /\ accounts' = {IF a.id = i THEN [a EXCEPT !.active = FALSE] ELSE a : a \in accounts}
  /\ UNCHANGED nextAccount
=============================================================================
