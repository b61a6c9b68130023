SPECIFICATION Spec
CONSTANTS
  Depth = 3
  Bios = {}
  FlushBios = {}
  SplitBios = {}
  Tasks = {t1}
  MapMayFail = FALSE
INVARIANT HandlerGetsItsData
