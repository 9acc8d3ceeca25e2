---------------------------- MODULE MCPooledRpc -----------------------------
(* TLC instances of PooledRpc: threads and connections are interchangeable *)
(* model values.                                                           *)
EXTENDS PooledRpc, TLC

Symmetry == Permutations(Threads) \cup Permutations(Conns)

\* A pool of fixed size.
MCConfigs == {[min |-> 2, max |-> 2, ephemeral |-> FALSE]}
=============================================================================
