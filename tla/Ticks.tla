-------------------------------- MODULE Ticks --------------------------------
(***************************************************************************)
(* The normalised ticks of the three market-data feeds: what the parsers   *)
(* of feed_manager.cpp make of a message.  A book is described by how many *)
(* levels each side has (2 stands for two or more) and one price for both  *)
(* best levels.  mid is twice the mid price, so that it stays an integer;  *)
(* it is 0 when the parser leaves 0.0.  A Polymarket price is in percent.  *)
(* Timestamps, imbalances, trade prices and the separate best prices are   *)
(* left out.                                                               *)
(***************************************************************************)
EXTENDS Integers

CONSTANTS Prices,   \* BTC prices
          Odds      \* Polymarket prices in percent

ASSUME TicksAssumption ==
    /\ Prices \subseteq Nat \ {0}
    /\ Odds \subseteq 1..100

Levels == 0..2
Books  == Levels \X Levels

\* The best price of a side with n levels.
Best(n, p) == IF n > 0 THEN p ELSE 0

\* Fewer than two levels on either side.
LowDepth(b) == b[1] < 2 \/ b[2] < 2

\* A message that does not parse to a tick.
NoTick == [source |-> "NONE", mid |-> 0, low |-> FALSE]

\* Not both sides empty; the mid is the mean even when a side is missing.
parse_binance_depth(b, p) ==
    IF b = <<0, 0>> THEN NoTick
    ELSE [source |-> "BINANCE", mid |-> Best(b[1], p) + Best(b[2], p),
          low |-> LowDepth(b)]

parse_binance_trade ==
    [source |-> "BINANCE", mid |-> 0, low |-> FALSE]

\* The mid of both sides, or else the last price, which may be missing too.
parse_coinbase_ticker(b, p, priced) ==
    [source |-> "COINBASE",
     mid |-> IF (b[1] > 0 /\ b[2] > 0) \/ priced THEN 2 * p ELSE 0,
     low |-> FALSE]

\* A snapshot of one token's book; the tick does not say of which token.
parse_polymarket_book(b, q) ==
    [source |-> "POLYMARKET",
     mid |-> IF b[1] > 0 /\ b[2] > 0 THEN 2 * q ELSE 0,
     low |-> LowDepth(b)]

\* A delta with the best prices; one side is enough, and is then the mid.
parse_polymarket_price_change(b, q) ==
    IF b = <<0, 0>> THEN NoTick
    ELSE [source |-> "POLYMARKET", mid |-> 2 * q, low |-> FALSE]

\* Every tick a message of source s can give at BTC price p and odds q.
TicksOf(s, p, q) ==
    CASE s = "BINANCE" ->
           {parse_binance_depth(b, p) : b \in Books} \cup {parse_binance_trade}
      [] s = "COINBASE" ->
           {parse_coinbase_ticker(b, p, x) : b \in Books, x \in BOOLEAN}
      [] s = "POLYMARKET" ->
           {parse_polymarket_book(b, q) : b \in Books}
               \cup {parse_polymarket_price_change(b, q) : b \in Books}

AllTicks ==
    UNION {TicksOf(s, p, q) \ {NoTick} :
               s \in {"BINANCE", "COINBASE", "POLYMARKET"}, p \in Prices, q \in Odds}
=============================================================================
