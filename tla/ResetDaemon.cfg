CONSTANTS
  Clients = {c1}
  Daemons = {d1}
  NoPid = NoPid
  Ops <- OnlyClose
  Faults = {"reset"}
SPECIFICATION FairSpec
PROPERTIES DetachedDaemonReturns
CHECK_DEADLOCK FALSE
