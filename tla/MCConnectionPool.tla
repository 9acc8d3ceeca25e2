-------------------------- MODULE MCConnectionPool --------------------------
(* A TLC instance of ConnectionPool: three configurations side by side.    *)
EXTENDS ConnectionPool

\* With room for trimming: with three connections in use and three threads asleep,
\* two releases and a third one that closes leave one thread sleeping beside two
\* that are woken. Of fixed size and with ephemeral connections, as docs/MANUAL.md
\* deploys the servers. Switched off, as is their default.
MCConfigs == {[min |-> 1, max |-> 3, ephemeral |-> FALSE],
              [min |-> 2, max |-> 2, ephemeral |-> TRUE],
              [min |-> 0, max |-> 0, ephemeral |-> FALSE]}
=============================================================================
