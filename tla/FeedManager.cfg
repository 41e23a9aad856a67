SPECIFICATION FairSpec
CONSTANTS
  Prices = {1}
  Odds = {50}
  Sources = {"BINANCE", "COINBASE"}
  RingSize = 1
  LowDepthLimit = 2
  Degraded = 0
  Fallback = 1
  Flatten = 2
PROPERTIES EscalationNeverLowers FeedReconnects DeadFeedsNoticed StopEndsFeeds
