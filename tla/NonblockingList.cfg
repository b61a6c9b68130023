SPECIFICATION FairSpec
CONSTANTS
  n1 = n1
  n2 = n2
  n3 = n3
  n4 = n4
  Nodes = {n1, n2, n3, n4}
  Value <- TwoEqual
  NULL = NULL
INVARIANTS TypeOK NoNodeLost
PROPERTIES OrderIsStable AllInserted
