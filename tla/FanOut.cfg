SPECIFICATION FairSpec
CONSTANTS
  MaxRows = 2
  NumLoops = 3
  Order <- MCSecondFirst
\* A call ends.
CHECK_DEADLOCK FALSE
INVARIANTS TypeOK AllOrError
PROPERTIES ReadsForward CallReturns
