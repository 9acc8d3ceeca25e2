----------------------------- MODULE MCTimeline -----------------------------
(* TLC instances of Timeline. Threads are interchangeable.                 *)
EXTENDS Timeline, TLC

Symmetry == Permutations(Threads) \cup Permutations(Authors)
=============================================================================
