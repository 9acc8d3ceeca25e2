\* Every pool has one connection; the servers have a thread for each, or the
\* uniquepair service has one too few.
SPECIFICATION FairSpec
CONSTANTS
  Nodes <- MCNodes
  Roots <- MCRoots
  Parent <- MCParent
  Method <- MCMethod
  Phase <- MCPhase
  Conns <- MCConns
  NoConn = NoConn
  PoolOf <- MCPoolOf
  Limits <- MCLimits
INVARIANTS TypeOK SomeCallGoesOn
PROPERTIES EveryCallAnswered
CHECK_DEADLOCK FALSE
