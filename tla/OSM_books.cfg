SPECIFICATION Spec
CONSTANTS
  Markets = {m1, m2}
  MaxOpen = 2
  MaxTrade = 2
  MaxTotal = 3
  MakerSize = 1
  Hedges = {101, 150}
  PartialFills = {}
  Signals = {"taker"}
  Faults = {}
  Controls = {"flatten", "notify"}
  Horizon = 2
  MaxEdges = 1
  MaxCloses = 2
  MaxStray = 1
  MaxYes = 2
PROPERTIES CapNeedsOverlap Books AccountsFollowBooks
CHECK_DEADLOCK FALSE
