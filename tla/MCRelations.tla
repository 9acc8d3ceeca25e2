----------------------------- MODULE MCRelations ----------------------------
EXTENDS Relations, TLC

\* Handlers run the same code. (Accounts and posts are numbers, because an id
\* may be both, and are left as they are.)
Symmetry == Permutations(Handlers)
=============================================================================
