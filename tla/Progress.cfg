SPECIFICATION ProgressSpec
CONSTANTS
  Producers = {p1, p2}
  Consumers = {c1, c2}
  None = None
  SIZE = 2
  Loops = 2
  Depth = 3
  Bios = {b1}
  FlushBios = {b1}
  SplitBios = {}
  Tasks = {}
  MapMayFail = FALSE
  Readers = {r1}
  Writers = {w1}
  Pollers = {}
  N = 2
  Bytes = {a}
  MaxLen = 2
  Commands = {k1, k2}
  Tx = {s1, s2}
  Rx = {s3, s4}
  Pool = {s3}
  MaxOpens = 2
  NULL = NULL
  MaxLength = 3
  MaxCalls = 2
INVARIANTS TypesOK NothingLostOrRepeated AnsweredOnce AbortsAreMatched  BufferInStep
PROPERTIES BiosLeave CallsReturn QueueRestarts
CHECK_DEADLOCK FALSE
