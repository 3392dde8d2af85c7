CONSTANTS
  Drives = {d1, d2, d3}
  Handles = {h1, h2}
  Vols = {v1, v2, v3}
  Objs = {o1, o2}
  Null = Null
  MaxFiles = 3
  Lost = {}
  Undelivered = {"find"}
  Faults = {"die"}
SPECIFICATION Spec
SYMMETRY Symmetric
INVARIANTS NothingLeft ListWellFormed
PROPERTIES ImplementsMounts
