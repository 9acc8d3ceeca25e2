SPECIFICATION Spec
CONSTANTS
  Accounts = {1, 2}
  Posts = {2}
  MaxId = 2
  Handlers = {h1}
  NoReq = NoReq
SYMMETRY Symmetry
PROPERTIES DeleteFollowFindsFollow
