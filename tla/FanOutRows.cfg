SPECIFICATION Spec
CONSTANTS
  MaxRows = 2
  NumLoops = 2
  Order <- MCInOrder
CHECK_DEADLOCK FALSE
INVARIANTS EmbedsItsOwnAccounts
