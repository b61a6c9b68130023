SPECIFICATION Spec
CONSTANTS
  Depth = 3
  Bios = {b1, b2}
  FlushBios = {b2}
  SplitBios = {b1}
  Tasks = {}
  MapMayFail = FALSE
INVARIANTS TypeOK CmdIdNotReused PhaseTagExact NoDanglingCtx IdsAccounted CongestionRegistered
PROPERTY CqIsFifo
