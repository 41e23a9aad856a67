SPECIFICATION EngineSpec
CONSTANTS
  Prices = {100}
  Odds = {50}
  RingSize = 1
  Tokens = {"yes", "no"}
  OwnToken = "yes"
  Strikes = {0}
  Posteriors = {60}
INVARIANT MidOfOwnToken
