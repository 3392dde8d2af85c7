CONSTANTS
  Clients = {c1, c2}
  Daemons = {d1, d2}
  NoPid = NoPid
  Ops <- Orderly
  Faults = {"kill", "badarg", "badresult", "initfail"}
SPECIFICATION FairSpec
INVARIANTS NobodyWaitsInVain
PROPERTIES BlockedThreadsReturn StopCompletes WaitEnds
