---------------------------- MODULE MCListFanOut ----------------------------
(* TLC instances of ListFanOut: a list call with up to two rows.           *)
EXTENDS ListFanOut

\* list_follows waits in the order of its loops, list_accounts (of which three
\* loops are taken here) for the second loop's future first.
MCInOrder     == <<1, 2>>
MCSecondFirst == <<2, 1, 3>>
=============================================================================
