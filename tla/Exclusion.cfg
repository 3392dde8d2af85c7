CONSTANTS
  Clients = {c1, c2}
  Daemons = {d1, d2}
  NoPid = NoPid
  Ops <- OnlyFind
  Faults = {"kill", "signal", "badarg", "badresult", "pagefault", "reset"}
SPECIFICATION Spec
SYMMETRY Symmetric
INVARIANTS TypeOK ExchangeExclusive
CHECK_DEADLOCK FALSE
