\* A pool of fixed size in the gateway, whose reads give up after a time.
SPECIFICATION RpcSpec
CONSTANTS
  Threads = {t1, t2, t3, t4}
  Conns = {c1, c2}
  NoConn = NoConn
  Configs <- MCConfigs
  MaxFailures = 1
  ReceiveTimeout = TRUE
  MaxUnread = 3
SYMMETRY Symmetry
INVARIANTS RpcTypeOK OutOfStep OwnReplyUnlessLate
PROPERTIES PoolStaysSpoiled
