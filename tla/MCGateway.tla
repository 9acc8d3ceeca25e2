------------------------------ MODULE MCGateway -----------------------------
(* A TLC instance of Gateway.                                              *)
EXTENDS Gateway, TLC

\* Threads run the same code; usernames and passwords are only compared.
Symmetry ==
  Permutations(Handlers) \cup Permutations(Usernames) \cup Permutations(Passwords)
=============================================================================
