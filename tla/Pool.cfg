\* Three pools at once: one that makes threads wait and trims, one with
\* ephemeral connections, and pooling switched off.
SPECIFICATION FairSpec
CONSTANTS
  Threads = {t1, t2, t3, t4, t5, t6}
  Conns = {c1, c2, c3}
  NoConn = NoConn
  Configs <- MCConfigs
  MaxFailures = 3
INVARIANTS TypeOK Accounting ExclusiveUse SizeBound NoLostWakeup WaiterHasSupplier
PROPERTIES TrimSparesWaiters ImplementsLease EveryWaiterServed
