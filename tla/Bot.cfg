SPECIFICATION BotFairSpec
CONSTANTS
  Markets = {m1}
  MaxOpen = 1
  MaxTrade = 1
  MaxTotal = 1
  MakerSize = 1
  Hedges = {100}
  PartialFills = {}
  Signals = {"taker"}
  Faults = {}
  Controls = {}
  Horizon = 6
  MaxEdges = 1
  MaxCloses = 1
  MaxStray = 0
  MaxYes = 1
INVARIANT ThreadHasMachine
PROPERTIES OneMachinePerMarket CallbacksOnceInOrder RemovedMachinesJoined ShutdownCompletes
CHECK_DEADLOCK FALSE
