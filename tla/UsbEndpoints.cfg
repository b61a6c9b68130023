SPECIFICATION DriversSpec
CONSTANTS
  CPUS = 4
  ONLINE = 3
  NN = 2
  PAGE_SIZE = 4
  LIST = 3
  SMALL = 2
  EBUSY = 16
  UserBuffers <- SomeBuffers
  Bios <- SomeBios
  Devices <- SomeDevices
  Quirks <- SomeQuirks
  Flags = {"SINGLE_LUN", "IGNORE_DEVICE", "GO_SLOW", "INITIAL_READ10"}
  Sections <- SomeSections
  NUM_TX_DESC = 2
  RX_BUF_LEN = 20
  RxSizes = {4, 5}
  MaxTx = 3
  MaxRx = 3
  Pages = {1}
  MaxOps = 2
  MaxSlow = 1
  K = 4
  Processes = {p, q}
  DRIVER_BUFFER_SIZE = 2
  Counts = {1, 3}
  MaxCalls = 2
  VMAs = {v, w, x}
  Garbage = {0, 1}
  NUMB_TASKS = 2
  MaxWork = 3
  Data = {1, 2, 3, 4, 5}
  Priorities = {1, 2, 3}
  LEAST = 2
  Values = {1, 2, 3}
  MaxSize = 6
  Junk = 9
INVARIANT InterruptIsOptional
CHECK_DEADLOCK FALSE
