SPECIFICATION FairSpec
CONSTANTS
  Markets = {m1}
  MaxOpen = 1
  MaxTrade = 1
  MaxTotal = 3
  MakerSize = 1
  Hedges = {100}
  PartialFills = {}
  Signals = {"taker", "maker"}
  Faults = {}
  Controls = {"flatten", "stop"}
  Horizon = 4
  MaxEdges = 1
  MaxCloses = 2
  MaxStray = 1
  MaxYes = 1
PROPERTIES ClosedBeforeResolution FlattenServed EntriesEnd
CHECK_DEADLOCK FALSE
