SPECIFICATION Spec
CONSTANTS
  Accounts = {1, 2}
  Posts = {2}
  MaxId = 3
  Handlers = {h1, h2}
  NoReq = NoReq
SYMMETRY Symmetry
INVARIANTS TypeOK CheckedStillOwned CountsAgree
PROPERTIES OwnerRemoves ImplementsAtomic
