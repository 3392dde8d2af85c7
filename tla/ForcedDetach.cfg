CONSTANTS
  Drives = {d1}
  Handles = {h1, h2}
  Vols = {v1}
  Objs = {o1, o2}
  Null = Null
  MaxFiles = 1
  Lost = {}
  Undelivered = {}
  Faults = {"force"}
SPECIFICATION Spec
PROPERTIES FindCloseTouchesVolumes
