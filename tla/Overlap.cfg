CONSTANTS
  Clients = {c1}
  Daemons = {d1, d2}
  NoPid = NoPid
  Ops <- OnlyRead
  Faults = {"kill", "overlap"}
SPECIFICATION Spec
INVARIANTS BuffersPinned
CHECK_DEADLOCK FALSE
