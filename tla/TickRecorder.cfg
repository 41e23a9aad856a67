SPECIFICATION RecFairSpec
CONSTANTS
  N = 2
  Wrap = 4
  Ticks = {a, b}
  Torn = Torn
  Connections = 2
INVARIANTS SlotExclusive ClosedFileIsComplete
PROPERTIES WrittenInOrder ImplementsFifo Drains RecorderEnds
CHECK_DEADLOCK FALSE
