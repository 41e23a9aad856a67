SPECIFICATION BtSpec
CONSTANTS
  TickFiles <- MCTickFiles
  Pnls <- MCPnls
  Edges = {0, 3}
  Sizes = {1, 2}
  Duration = 6
  Warmup = 2
  StopBefore = 4
  CloseBefore = 3
  Interval = 1
  Latency = 2
  SampleTenths = 7
INVARIANTS KeptOnlyAtBoundedLoss ExpiredNeedsGap SamplesFollowWindows
PROPERTY ReplayBooks
CHECK_DEADLOCK FALSE
