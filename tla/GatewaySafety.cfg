\* Two threads, and a connection that can be one reply behind.
SPECIFICATION Spec
CONSTANTS
  Usernames = {u1, u2}
  Passwords = {p1, p2}
  MaxAccounts = 2
  Handlers = {h1, h2}
  Conns = {c1}
  None = None
  MaxUnread = 1
SYMMETRY Symmetry
INVARIANTS TypeOK UsernamesUnique DeletionIsFinal
PROPERTIES IdentitiesLast ChangedByOwnerOnly
