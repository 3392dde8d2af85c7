CONSTANTS
  Clients = {c1}
  Daemons = {d1, d2}
  NoPid = NoPid
  Ops <- OnlyFileInfo
  Faults = {"kill", "stopsignal", "badarg", "pagefault", "overlap", "reset"}
SPECIFICATION FairSpec
INVARIANTS AttachedDaemonRuns
PROPERTIES RequestTaken
CHECK_DEADLOCK FALSE
