CONSTANTS
  Clients = {c1}
  Daemons = {d1}
  NoPid = NoPid
  Ops <- OnlyWrite
  Faults = {"kill", "pagefault"}
SPECIFICATION FairSpec
PROPERTIES BlockedThreadsReturn
CHECK_DEADLOCK FALSE
