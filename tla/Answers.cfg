CONSTANTS
  Clients = {c1, c2, c3}
  Daemons = {d1, d2}
  NoPid = NoPid
  Ops <- WithFind
  Faults = {"kill", "badresult", "pagefault"}
SPECIFICATION Spec
SYMMETRY Symmetric
INVARIANTS NoOrphanLock OwnAnswer StopReleases BuffersPinned
PROPERTIES ExecutesOnce ImplementsRemoteCall
CHECK_DEADLOCK FALSE
