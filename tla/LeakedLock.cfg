CONSTANTS
  Clients = {c1, c2}
  Daemons = {d1}
  NoPid = NoPid
  Ops <- OnlyIOCtl
  Faults = {"kill", "badarg"}
SPECIFICATION FairSpec
PROPERTIES BlockedThreadsReturn
CHECK_DEADLOCK FALSE
