SPECIFICATION CallsSpec
CONSTANTS
  Readers = {r1, r2}
  Writers = {w1}
  Pollers = {}
  N = 3
  Bytes = {a, b}
  MaxLen = 2
  None = None
  Depth = 2
  Bios = {b1}
  FlushBios = {}
  SplitBios = {b1}
  Tasks = {t1, t2}
  MapMayFail = TRUE
SYMMETRY CallersSymmetry
INVARIANTS NoSleeperForgotten PreparingIsPrivate
PROPERTY IsSharedFifo
