CONSTANTS
  Clients = {c1, c2}
  Daemons = {d1}
  NoPid = NoPid
  Ops <- OnlyFileInfo
  Faults = {"badarg"}
SPECIFICATION Spec
SYMMETRY Symmetric
INVARIANTS ExchangeExclusive
CHECK_DEADLOCK FALSE
