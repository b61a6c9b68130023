SPECIFICATION FairSpec
CONSTANTS
  Producers = {p1, p2}
  Consumers = {c1, c2}
  None = None
  SIZE = 2
  Loops = 3
PROPERTY EveryProgramEnds
