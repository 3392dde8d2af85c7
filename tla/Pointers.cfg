CONSTANTS
  Drives = {d1, d2}
  Handles = {h1, h2}
  Vols = {v1, v2}
  Objs = {o1, o2, o3}
  Null = Null
  MaxFiles = 3
  Lost = {"attach", "open", "find", "close"}
  Undelivered = {"open", "find"}
  Faults = {"nojoliet", "die"}
SPECIFICATION Spec
SYMMETRY Symmetric
INVARIANTS TypeOK PointersValid CountersCover
