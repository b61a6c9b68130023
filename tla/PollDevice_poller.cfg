SPECIFICATION Spec
CONSTANTS
  Readers = {r1}
  Writers = {w1}
  Pollers = {p1}
  N = 3
  Bytes = {a}
  MaxLen = 2
  None = None
PROPERTY IsSharedFifo
