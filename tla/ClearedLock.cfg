CONSTANTS
  Clients = {c1, c2}
  Daemons = {d1, d2}
  NoPid = NoPid
  Ops <- OnlyRead
  Faults = {"kill", "overlap"}
SPECIFICATION Spec
INVARIANTS ExchangeExclusive
CHECK_DEADLOCK FALSE
