SPECIFICATION WatchSpec
CONSTANTS
  Prices = {100, 102}
  Odds = {50}
  RingSize = 1
  Tokens = {"yes", "no"}
  OwnToken = "yes"
  Strikes = {0, 1}
  Posteriors = {60}
  BufSize = 2
  Window = 1
  SpikePermille = 15
INVARIANT FalseTripNeedsOneSidedBook
PROPERTIES TripsOnSpikeOnly
