SPECIFICATION Spec
CONSTANTS
  Markets = {m1}
  MaxOpen = 1
  MaxTrade = 1
  MaxTotal = 3
  MakerSize = 1
  Hedges = {100, 150}
  PartialFills = {99}
  Signals = {"taker", "maker"}
  Faults = {"rejected", "no_reply", "unmatched", "hedge_unfilled", "hedge_partial", "hedge_lost", "cancel_lost"}
  Controls = {"flatten"}
  Horizon = 6
  MaxEdges = 1
  MaxCloses = 2
  MaxStray = 1
  MaxYes = 1
INVARIANTS BookedIffOpen OrdersMatchState
PROPERTIES FailedEntryBounded ClosedOnce QuotesLeftBehind LateEntryOnlyFromQuotes
CHECK_DEADLOCK FALSE
