SPECIFICATION Spec
CONSTANTS
  Markets = {m1}
  MaxOpen = 1
  MaxTrade = 2
  MaxTotal = 3
  MakerSize = 1
  Hedges = {100}
  PartialFills = {}
  Signals = {"maker"}
  Faults = {}
  Controls = {}
  Horizon = 0
  MaxEdges = 1
  MaxCloses = 2
  MaxStray = 1
  MaxYes = 2
INVARIANT IdleHoldsNothing
CHECK_DEADLOCK FALSE
