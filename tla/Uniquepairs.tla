----------------------------- MODULE Uniquepairs ----------------------------
(***************************************************************************)
(* The uniquepair service and its table.  Follows and likes are both rows  *)
(* of this one table, told apart by their domain; their ids come from one  *)
(* SERIAL.  Each operation of the service is a single SQL statement in a   *)
(* transaction of its own, so each is atomic.                              *)
(* app/uniquepair/service/server/src/uniquepair_server.cpp                 *)
(* app/uniquepair/database/uniquepair_schema.sql                           *)
(***************************************************************************)
EXTENDS Integers, FiniteSets

CONSTANTS
  Accounts,  \* account ids
  Posts,     \* post ids (like account ids they are plain integers)
  MaxId      \* bound: the largest row id the SERIAL may reach

ASSUME MaxIdAssumption == MaxId \in Nat

VARIABLES
  rows,   \* the table
  nextId  \* the value the SERIAL hands out next

tableVars == <<rows, nextId>>

Domains == {"follow", "like"}
Ids     == 1..MaxId
Elems   == Accounts \cup Posts
Row     == [id : Ids, domain : Domains, first : Accounts, second : Elems]

TableInit == rows = {} /\ nextId = 1

-----------------------------------------------------------------------------
(* Reads *)

\* SELECT ... WHERE id = %d
WithId(i) == {r \in rows : r.id = i}

\* build_where_clause: the domain, and first_elem and second_elem when set.
Matching(d, firsts, seconds) ==
  {r \in rows : r.domain = d /\ r.first \in firsts /\ r.second \in seconds}

find(d, f, s)             == Matching(d, {f}, {s}) # {}
count(d, firsts, seconds) == Cardinality(Matching(d, firsts, seconds))

-----------------------------------------------------------------------------
(* Writes *)

\* mutants: no UNIQUE constraint; an id that is free is handed out again
InsertDuplicate(d, f, s) ==
  /\ nextId \in Ids
  /\ rows' = rows \cup {[id |-> nextId, domain |-> d, first |-> f, second |-> s]}
  /\ nextId' = nextId + 1
InsertReusingId(d, f, s) ==
  /\ ~find(d, f, s)
  /\ \E i \in Ids :
       /\ WithId(i) = {} /\ \A j \in 1..(i - 1) : WithId(j) # {}
       /\ rows' = rows \cup {[id |-> i, domain |-> d, first |-> f, second |-> s]}
  /\ UNCHANGED nextId

\* INSERT of a new pair.
Insert(d, f, s) ==
  /\ ~find(d, f, s)
  /\ nextId \in Ids
  /\ rows' = rows \cup {[id |-> nextId, domain |-> d, first |-> f, second |-> s]}
  /\ nextId' = nextId + 1

\* INSERT that ends in an SQL error, whichever: add answers that the pair exists.
\* The error may be that of UNIQUE (domain, first_elem, second_elem), and then
\* the SERIAL has been drawn from all the same.
InsertRefused ==
  /\ UNCHANGED rows
  /\ \/ UNCHANGED nextId
     \/ nextId \in Ids /\ nextId' = nextId + 1

\* DELETE ... WHERE id = %d RETURNING id
Delete(i) ==
  /\ rows' = rows \ WithId(i)
  /\ UNCHANGED nextId
=============================================================================
