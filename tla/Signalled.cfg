CONSTANTS
  Clients = {c1, c2}
  Daemons = {d1}
  NoPid = NoPid
  Ops <- OnlyRead
  Faults = {"signal"}
SPECIFICATION Spec
INVARIANTS OwnAnswer
CHECK_DEADLOCK FALSE
