SPECIFICATION FairSpec
CONSTANTS
  NProducers = 2
  NConsumers = 1
  Q_SIZE = 2
  ULONG_MAX = 99
  MaxTickets = 3
INVARIANTS TypeOK PopsWhatWasPushed OverwritesOnlyRead BoundsAreSafe
PROPERTY OperationReturns
CHECK_DEADLOCK FALSE
