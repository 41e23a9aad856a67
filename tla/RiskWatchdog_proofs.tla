------------------------ MODULE RiskWatchdog_proofs ------------------------
(***************************************************************************)
(* The circular price buffer of the watchdog, for every size larger than   *)
(* the window: it holds the samples of the window, so that an evaluation   *)
(* trips on a move within it and on nothing else; and what can trip the    *)
(* breaker at a market price that does not move.                           *)
(***************************************************************************)
EXTENDS RiskWatchdog, FiniteSetTheorems, TLAPS

\* What % does to the indices: they are less than twice the size of the buffer.
LEMMA ModSmall ==
    ASSUME NEW n \in Nat \ {0}, NEW x \in 0..(n - 1)
    PROVE  x % n = x
  BY SMT

LEMMA ModOnce ==
    ASSUME NEW n \in Nat \ {0}, NEW x \in n..(2 * n - 1)
    PROVE  x % n = x - n
  BY SMT

\* The size of the buffer is not 0: it is larger than the window.
LEMMA SizePositive == BufSize \in Nat \ {0}
  BY WatchAssumption, SMT

\* The inductive invariant: IndicesAgree with the ranges of the indices.
BufInv ==
    /\ btc_read \in Slots /\ btc_write \in Slots
    /\ IndicesAgree

\* The same about a state of the buffer, as record_btc and Evicted make them.
Good(b) ==
    /\ b.read \in Slots /\ b.write \in Slots
    /\ b.count \in 0..BufSize
    /\ b.write = (b.read + b.count) % BufSize

\* record_btc keeps the indices together, in a full buffer too.
LEMMA RecordGood ==
    ASSUME NEW b, NEW p, Good(b)
    PROVE  Good(record_btc(b, p))
<1> DEFINE c == record_btc(b, p)
<1>1. c.write = (b.write + 1) % BufSize  BY DEF record_btc
<1>2. BufSize \in Nat \ {0} /\ b.read \in 0..(BufSize - 1) /\ b.count \in 0..BufSize
      /\ b.write \in 0..(BufSize - 1) /\ b.write = (b.read + b.count) % BufSize
  BY SizePositive DEF Good, Slots
<1>3. c.write \in 0..(BufSize - 1)  BY <1>1, <1>2, SMT
<1>4. CASE b.count < BufSize
  <2>1. c.count = b.count + 1 /\ c.read = b.read  BY <1>4 DEF record_btc
  <2>2. CASE b.read + b.count < BufSize
    <3>0. b.read + b.count \in 0..(BufSize - 1)  BY <1>2, <2>2
    <3>1. b.write = b.read + b.count  BY <1>2, <3>0, ModSmall
    <3> QED  BY <1>1, <1>2, <1>3, <1>4, <2>1, <3>1 DEF Good, Slots
  <2>3. CASE b.read + b.count >= BufSize
    <3>1. b.write = b.read + b.count - BufSize  BY <1>2, <1>4, <2>3, ModOnce
    <3>2. b.write + 1 \in 0..(BufSize - 1)  BY <1>2, <1>4, <3>1
    <3>3. c.write = b.write + 1  BY <1>1, <1>2, <3>2, ModSmall
    <3>4. (b.read + (b.count + 1)) % BufSize = b.read + (b.count + 1) - BufSize
      BY <1>2, <1>4, <2>3, ModOnce
    <3> QED  BY <1>2, <1>3, <1>4, <2>1, <3>1, <3>3, <3>4 DEF Good, Slots
  <2> QED  BY <1>2, <2>2, <2>3
<1>5. CASE b.count >= BufSize
  <2>1. b.count = BufSize  BY <1>2, <1>5
  <2>2. c.count = BufSize /\ c.read = (b.read + 1) % BufSize
    BY <2>1, <1>2 DEF record_btc
  <2>3. b.write = b.read  BY <1>2, <2>1, ModOnce
  <2>4. c.read \in 0..(BufSize - 1)  BY <1>2, <2>2, SMT
  <2>5. (c.read + BufSize) % BufSize = c.read  BY <1>2, <2>4, ModOnce
  <2> QED  BY <1>1, <1>2, <1>3, <2>2, <2>3, <2>4, <2>5 DEF Good, Slots
<1> QED  BY <1>2, <1>4, <1>5

\* The eviction loop drops no more entries than there are.
LEMMA StaleBounded ==
    ASSUME NEW b, Good(b)
    PROVE  StaleEntries(b) \in 0..b.count
<1> DEFINE S == {i \in 0..(b.count - 1) : \A j \in 0..i : Entry(b, j).age > Window}
<1>1. b.count \in Nat  BY SizePositive DEF Good
<1>2. IsFiniteSet(0..(b.count - 1)) /\ Cardinality(0..(b.count - 1)) = b.count
  <2> DEFINE m == b.count - 1
  <2>1. m \in Int /\ b.count = m + 1 /\ 0 \in Int  BY <1>1
  <2> HIDE DEF m
  <2>2. IsFiniteSet(0..m) /\ Cardinality(0..m) = IF 0 > m THEN 0 ELSE m - 0 + 1
    BY <2>1, FS_Interval
  <2> QED  BY <1>1, <2>1, <2>2 DEF m
<1>3. S \subseteq 0..(b.count - 1)  OBVIOUS
<1>4. IsFiniteSet(S) /\ Cardinality(S) <= Cardinality(0..(b.count - 1))
  BY <1>2, <1>3, FS_Subset
<1>5. Cardinality(S) \in Nat  BY <1>4, FS_CardinalityType
<1> HIDE DEF S
<1>6. StaleEntries(b) = Cardinality(S)  BY DEF StaleEntries, S
<1> QED  BY <1>1, <1>2, <1>4, <1>5, <1>6

\* Evicting n entries moves the read index n further round the buffer.
LEMMA EvictGood ==
    ASSUME NEW b, Good(b)
    PROVE  /\ Evicted(b).read \in Slots /\ Evicted(b).count \in 0..BufSize
           /\ b.write = (Evicted(b).read + Evicted(b).count) % BufSize
<1>1. CASE b.count < 2  BY <1>1 DEF Evicted, Good
<1>2. CASE ~(b.count < 2)
  <2> DEFINE n == StaleEntries(b)
             r == (b.read + n) % BufSize
  <2>1. n \in 0..b.count  BY StaleBounded
  <2>2. BufSize \in Nat \ {0} /\ b.read \in 0..(BufSize - 1) /\ b.count \in 0..BufSize
        /\ b.write = (b.read + b.count) % BufSize
    BY SizePositive DEF Good, Slots
  <2>3. Evicted(b).read = r /\ Evicted(b).count = b.count - n
    BY <1>2 DEF Evicted
  <2> HIDE DEF n
  <2>4. CASE b.read + n < BufSize
    <3>1. r = b.read + n  BY <2>1, <2>2, <2>4, ModSmall
    <3> HIDE DEF r
    <3>2. r \in 0..(BufSize - 1) /\ b.count - n \in 0..BufSize
          /\ r + (b.count - n) = b.read + b.count
      BY <2>1, <2>2, <2>4, <3>1
    <3> QED  BY <2>2, <2>3, <3>2 DEF Slots
  <2>5. CASE b.read + n >= BufSize
    <3>1. b.read + n \in BufSize..(2 * BufSize - 1)  BY <2>1, <2>2, <2>5
    <3>2. r = b.read + n - BufSize  BY <2>1, <2>2, <2>5, ModOnce
    <3>3. b.read + b.count \in BufSize..(2 * BufSize - 1)  BY <2>1, <2>2, <2>5
    <3>4. b.write = b.read + b.count - BufSize  BY <2>2, <3>3, ModOnce
    <3>5. r + (b.count - n) \in 0..(BufSize - 1)  BY <2>1, <2>2, <3>1, <3>2, <3>3
    <3>6. (r + (b.count - n)) % BufSize = r + (b.count - n)  BY <2>2, <3>5, ModSmall
    <3> HIDE DEF r
    <3> QED  BY <2>1, <2>2, <2>3, <3>1, <3>2, <3>4, <3>6 DEF Slots
  <2> QED  BY <2>1, <2>2, <2>4, <2>5
<1> QED  BY <1>1, <1>2

\* A step of the watchdog or of anything around it keeps the invariant.
LEMMA BufInductive == BufInv /\ [WatchNext]_allVars => BufInv'
<1> SUFFICES ASSUME BufInv, [WatchNext]_allVars  PROVE BufInv'
  OBVIOUS
<1>1. Good(Buf)  BY DEF BufInv, IndicesAgree, Good, Buf
<1>2. CASE evaluate
  <2> DEFINE recorded == IF btc_mid > 0 THEN record_btc(Buf, btc_mid) ELSE Buf
  <2>1. Good(recorded)  BY <1>1, RecordGood
  <2> HIDE DEF recorded
  <2>2. /\ btc_read' = Evicted(recorded).read
        /\ btc_write' = Evicted(recorded).write
        /\ btc_count' = Evicted(recorded).count
    BY <1>2 DEF evaluate, recorded
  <2>3. Evicted(recorded).write = recorded.write  BY DEF Evicted
  <2>4. /\ Evicted(recorded).read \in Slots
        /\ Evicted(recorded).count \in 0..BufSize
        /\ recorded.write = (Evicted(recorded).read + Evicted(recorded).count) % BufSize
    BY <2>1, EvictGood
  <2>5. recorded.write \in Slots  BY <2>1 DEF Good
  <2> QED  BY <2>2, <2>3, <2>4, <2>5 DEF BufInv, IndicesAgree, Slots
<1>3. CASE AdvanceTime
  BY <1>3 DEF AdvanceTime, BufInv, IndicesAgree, Slots
<1>4. CASE UNCHANGED watchVars
  BY <1>4 DEF watchVars, bufVars, BufInv, IndicesAgree, Slots
<1>5. CASE UNCHANGED allVars
  BY <1>5 DEF allVars, watchVars, bufVars, BufInv, IndicesAgree, Slots
<1> QED  BY <1>2, <1>3, <1>4, <1>5 DEF WatchNext

\* The indices of the circular buffer of RiskWatchdog agree after every
\* sequence of samples, evictions and missed evaluations, whatever its size.
THEOREM BufferIndices == WatchSpec => []IndicesAgree
<1>1. WatchInit => BufInv
  BY SizePositive, ModSmall DEF WatchInit, BufInv, IndicesAgree, Slots
<1>2. BufInv => IndicesAgree  BY DEF BufInv
<1> QED  BY <1>1, <1>2, BufInductive, PTL DEF WatchSpec

-----------------------------------------------------------------------------
\* The BTC mid of SharedState is a number, whatever the feeds deliver.
MidTyped ==
    /\ price \in Prices
    /\ ring \in Seq([tick : AllTicks, token : Tokens])
    /\ btc_mid \in Nat

\* A mid is a sum of prices, whichever parser it comes from.
LEMMA MidOfTick ==
    ASSUME NEW t \in AllTicks
    PROVE  t.mid \in Nat
<1> DEFINE F == {TicksOf(u, p, q) \ {NoTick} :
                   u \in {"BINANCE", "COINBASE", "POLYMARKET"}, p \in Prices, q \in Odds}
<1>1. PICK T \in F : t \in T  BY DEF AllTicks
<1>2. PICK u \in {"BINANCE", "COINBASE", "POLYMARKET"}, p \in Prices, q \in Odds :
          T = TicksOf(u, p, q) \ {NoTick}
  BY <1>1
<1>3. t \in TicksOf(u, p, q)  BY <1>1, <1>2
<1>4. p \in Nat /\ q \in Nat  BY TicksAssumption
<1>5. CASE u = "BINANCE"
  <2>1. t = parse_binance_trade \/ \E b \in Books : t = parse_binance_depth(b, p)
    BY <1>3, <1>5 DEF TicksOf
  <2>2. CASE t = parse_binance_trade  BY <2>2 DEF parse_binance_trade
  <2>3. ASSUME NEW b \in Books, t = parse_binance_depth(b, p)  PROVE t.mid \in Nat
    <3>1. Best(b[1], p) \in Nat /\ Best(b[2], p) \in Nat  BY <1>4 DEF Best
    <3> QED  BY <2>3, <3>1 DEF parse_binance_depth, NoTick
  <2> QED  BY <2>1, <2>2, <2>3
<1>6. CASE u = "COINBASE"
  <2>1. PICK b \in Books, x \in BOOLEAN : t = parse_coinbase_ticker(b, p, x)
    BY <1>3, <1>6 DEF TicksOf
  <2>2. t.mid \in {2 * p, 0}  BY <2>1 DEF parse_coinbase_ticker
  <2> QED  BY <1>4, <2>2
<1>7. CASE u = "POLYMARKET"
  <2>1. PICK b \in Books : t = parse_polymarket_book(b, q)
                           \/ t = parse_polymarket_price_change(b, q)
    BY <1>3, <1>7 DEF TicksOf
  <2>2. t.mid \in {2 * q, 0}
    BY <2>1 DEF parse_polymarket_book, parse_polymarket_price_change, NoTick
  <2> QED  BY <1>4, <2>2
<1> QED  BY <1>5, <1>6, <1>7

\* Every tick that Receive puts in the ring is one of a parser's.
LEMMA ReceiveTyped ==
    ASSUME MidTyped, Receive
    PROVE  ring' \in Seq([tick : AllTicks, token : Tokens])
<1> DEFINE S == [tick : AllTicks, token : Tokens]
<1>1. PICK s \in {"BINANCE", "COINBASE", "POLYMARKET"}, o \in Odds :
         \E t \in TicksOf(s, price, o) \ {NoTick},
            k \in IF s = "POLYMARKET" THEN Tokens ELSE {OwnToken} :
             ring' = Append(ring, [tick |-> t, token |-> k])
  BY DEF Receive
<1>2. PICK t \in TicksOf(s, price, o) \ {NoTick},
           k \in IF s = "POLYMARKET" THEN Tokens ELSE {OwnToken} :
             ring' = Append(ring, [tick |-> t, token |-> k])
  BY <1>1
<1>3. t \in AllTicks
  <2> DEFINE T == TicksOf(s, price, o) \ {NoTick}
             F == {TicksOf(u, p, q) \ {NoTick} :
                     u \in {"BINANCE", "COINBASE", "POLYMARKET"}, p \in Prices, q \in Odds}
  <2>1. T \in F  BY DEF MidTyped
  <2>2. t \in T  OBVIOUS
  <2> HIDE DEF T, F
  <2>3. t \in UNION F  BY <2>1, <2>2
  <2> QED  BY <2>3 DEF AllTicks, F
<1>4. k \in Tokens  BY EngineAssumption
<1>5. [tick |-> t, token |-> k] \in S  BY <1>3, <1>4
<1>6. ring \in Seq(S)  BY DEF MidTyped
<1> HIDE DEF S
<1>7. ring' \in Seq(S)  BY <1>2, <1>5, <1>6
<1> QED  BY <1>7 DEF S

-----------------------------------------------------------------------------
\* No spread among prices that are all the same or 0.
LEMMA NoSpread ==
    ASSUME NEW q \in Nat, NEW P \in SUBSET {0, q}
    PROVE  ~Spread(P)
<1> SUFFICES ASSUME NEW lo \in P, NEW hi \in P, lo > 0,
                    (hi - lo) * 1000 > SpikePermille * lo
             PROVE  FALSE
  BY DEF Spread
<1>1. lo = q /\ hi - lo <= 0 /\ q \in Nat /\ SpikePermille \in Nat
  BY WatchAssumption
<1>2. SpikePermille * lo >= 0  BY <1>1, SMT
<1> QED  BY <1>1, <1>2, SMT

\* While the price stands still and every book is whole, the buffer and btc_mid
\* know no other price.
Calm ==
    /\ ~tripped
    /\ ring \in Seq([tick : AllTicks, token : Tokens])
    /\ ~OneSidedBook
    /\ btc_mid \in {0, 2 * price}
    /\ btc_buf \in [Slots -> [price : {0, 2 * price}, age : Nat]]
    /\ btc_write \in Slots /\ btc_read \in Slots /\ btc_count \in 0..BufSize

CalmInv == price \in Prices /\ (disturbed \/ Calm)

\* An evaluation with one price in the buffer and in btc_mid does not trip.
LEMMA EvaluateCalm ==
    ASSUME price \in Prices, Calm, BufInv, evaluate
    PROVE  Calm'
<1> DEFINE recorded == IF btc_mid > 0 THEN record_btc(Buf, btc_mid) ELSE Buf
           q == 2 * price
           Typed(b) == b.buf \in [Slots -> [price : {0, q}, age : Nat]]
<1>1. q \in Nat  BY TicksAssumption
<1>2. Good(Buf) /\ Typed(Buf)  BY DEF BufInv, IndicesAgree, Good, Buf, Calm
<1>3. Good(recorded)  BY <1>2, RecordGood
<1>4. Typed(recorded)
  <2>1. CASE btc_mid > 0
    <3>1. recorded.buf = [btc_buf EXCEPT ![btc_write] = [price |-> btc_mid, age |-> 0]]
      BY <2>1 DEF record_btc, Buf
    <3>2. [price |-> btc_mid, age |-> 0] \in [price : {0, q}, age : Nat]
      BY DEF Calm
    <3> HIDE DEF recorded, q
    <3> QED  BY <1>2, <3>1, <3>2 DEF Buf
  <2>2. CASE ~(btc_mid > 0)  BY <1>2, <2>2
  <2> QED  BY <2>1, <2>2
<1> DEFINE b == Evicted(recorded)
<1>5. b.buf = recorded.buf /\ b.write = recorded.write  BY DEF Evicted
<1>6. b.read \in Slots /\ b.count \in 0..BufSize /\ b.write \in Slots
  BY <1>3, <1>5, EvictGood DEF Good
<1>7. /\ btc_buf' = b.buf /\ btc_read' = b.read
      /\ btc_write' = b.write /\ btc_count' = b.count
      /\ tripped' = Spike(b)
  BY DEF evaluate
<1> HIDE DEF b, recorded, q
<1>8. ~Spike(b)
  <2> DEFINE P == {Entry(b, i).price : i \in 0..(b.count - 1)}
  <2>1. P \in SUBSET {0, q}
    <3> SUFFICES ASSUME NEW i \in 0..(b.count - 1)  PROVE Entry(b, i).price \in {0, q}
      OBVIOUS
    <3>1. (b.read + i) % BufSize \in Slots
      BY <1>6, SizePositive, SMT DEF Slots
    <3> QED  BY <1>4, <1>5, <3>1 DEF Entry
  <2>2. ~Spread(P)  BY <1>1, <2>1, NoSpread
  <2> QED  BY <2>2 DEF Spike
<1>9. UNCHANGED <<price, ring, btc_mid>>  BY DEF evaluate, engineVars
<1>10. ~OneSidedBook'  BY <1>9 DEF Calm, OneSidedBook
<1>11. btc_buf' \in [Slots -> [price : {0, 2 * price}, age : Nat]]
  BY <1>4, <1>5, <1>7 DEF q
<1>12. tripped' = FALSE /\ btc_write' \in Slots /\ btc_read' \in Slots /\ btc_count' \in 0..BufSize
  BY <1>6, <1>7, <1>8 DEF Spike
<1> QED  BY <1>9, <1>10, <1>11, <1>12 DEF Calm, Slots

\* The passing of time only ages the samples.
LEMMA TimeCalm ==
    ASSUME price \in Prices, Calm, AdvanceTime
    PROVE  Calm'
<1>1. UNCHANGED <<price, ring, btc_mid, btc_read, btc_write, btc_count, tripped>>
  BY DEF AdvanceTime, engineVars
<1>2. ~OneSidedBook'  BY <1>1 DEF Calm, OneSidedBook
<1>3. btc_buf' \in [Slots -> [price : {0, 2 * price}, age : Nat]]
  <2> SUFFICES ASSUME NEW i \in Slots
               PROVE  (IF btc_buf[i].age > Window THEN btc_buf[i]
                       ELSE [btc_buf[i] EXCEPT !.age = btc_buf[i].age + 1])
                          \in [price : {0, 2 * price}, age : Nat]
    BY DEF AdvanceTime
  <2>1. btc_buf[i] \in [price : {0, 2 * price}, age : Nat]  BY DEF Calm
  <2> QED  BY <2>1
<1> QED  BY <1>1, <1>2, <1>3 DEF Calm, Slots

\* A step of the engine or the feeds that disturbs nothing takes btc_mid from a
\* whole Binance book.
LEMMA EngineCalm ==
    ASSUME price \in Prices, Calm, EngineNext, UNCHANGED watchVars,
           price' = price, ~OneSidedBook'
    PROVE  Calm'
<1> DEFINE S == [tick : AllTicks, token : Tokens]
<1>1. ring \in Seq(S)  BY DEF Calm
<1> HIDE DEF S
<1>2. ring' \in Seq(S) /\ btc_mid' \in {0, 2 * price}
  <2>1. CASE PriceMoves  BY <1>1, <2>1 DEF PriceMoves, engineVars, Calm
  <2>2. CASE Receive
    <3>1. MidTyped  BY TicksAssumption DEF MidTyped, Calm
    <3>2. ring' \in Seq(S)  BY <2>2, <3>1, ReceiveTyped DEF S
    <3> QED  BY <2>2, <3>2 DEF Receive, Calm
  <2>3. ASSUME NEW s, Pop(s)
        PROVE  /\ ring' \in Seq(S)
               /\ s = "BINANCE" => Head(ring).tick.mid \in {0, 2 * price}
    <3>1. ring # <<>> /\ ring' = Tail(ring) /\ Head(ring).tick.source = s
      BY <2>3 DEF Pop
    <3>2. ring[1] = Head(ring) /\ 1 \in 1..Len(ring)  BY <1>1, <3>1
    <3> QED  BY <1>1, <3>1, <3>2 DEF Calm, OneSidedBook
  <2>4. CASE process_coinbase  BY <2>3, <2>4 DEF process_coinbase, Calm
  <2>5. CASE process_polymarket  BY <2>3, <2>5 DEF process_polymarket, Calm
  <2>6. CASE process_binance  BY <2>3, <2>6 DEF process_binance, Calm
  <2> QED  BY <2>1, <2>2, <2>4, <2>5, <2>6 DEF EngineNext, Engine
<1> QED  BY <1>2 DEF Calm, watchVars, bufVars, Slots, S

\* At a market price that does not move only a Binance book with an empty side
\* can trip the breaker, for every buffer size, window and threshold.
THEOREM FalseTrips == WatchSpec => []FalseTripNeedsOneSidedBook
<1>1. WatchInit => BufInv /\ CalmInv
  <2> SUFFICES ASSUME WatchInit  PROVE BufInv /\ CalmInv
    OBVIOUS
  <2>1. BufInv
    BY SizePositive, ModSmall DEF WatchInit, BufInv, IndicesAgree, Slots
  <2>2. price \in Prices /\ ring = <<>> /\ btc_mid = 0 /\ ~tripped
    BY DEF WatchInit, EngineInit
  <2>3. ~OneSidedBook  BY <2>2 DEF OneSidedBook
  <2>4. btc_buf \in [Slots -> [price : {0, 2 * price}, age : Nat]]
    BY WatchAssumption DEF WatchInit
  <2> QED  BY <2>1, <2>2, <2>3, <2>4 DEF CalmInv, Calm, BufInv, IndicesAgree
<1>2. BufInv /\ CalmInv /\ [WatchNext]_allVars => CalmInv'
  <2> SUFFICES ASSUME BufInv, CalmInv, [WatchNext]_allVars  PROVE CalmInv'
    OBVIOUS
  <2>1. CASE evaluate
    <3>1. price' = price /\ disturbed' = disturbed  BY <2>1 DEF evaluate
    <3> QED  BY <2>1, <3>1, EvaluateCalm DEF CalmInv
  <2>2. CASE AdvanceTime
    <3>1. price' = price /\ disturbed' = disturbed  BY <2>2 DEF AdvanceTime
    <3> QED  BY <2>2, <3>1, TimeCalm DEF CalmInv
  <2>3. CASE /\ EngineNext /\ UNCHANGED watchVars
             /\ disturbed' = (disturbed \/ price' # price \/ OneSidedBook')
    <3>1. price' \in Prices
      BY <2>3 DEF EngineNext, PriceMoves, Receive, Engine, process_coinbase,
                  process_polymarket, process_binance, Pop, CalmInv
    <3>2. CASE disturbed'  BY <3>1, <3>2 DEF CalmInv
    <3>3. CASE ~disturbed'
      BY <2>3, <3>1, <3>3, EngineCalm DEF CalmInv
    <3> QED  BY <3>2, <3>3
  <2>4. CASE UNCHANGED allVars
    BY <2>4 DEF allVars, engineVars, watchVars, bufVars, CalmInv, Calm, OneSidedBook, Slots
  <2> QED  BY <2>1, <2>2, <2>3, <2>4 DEF WatchNext
<1>3. CalmInv => FalseTripNeedsOneSidedBook
  BY DEF CalmInv, Calm, FalseTripNeedsOneSidedBook
<1> QED  BY <1>1, <1>2, <1>3, BufInductive, PTL DEF WatchSpec

-----------------------------------------------------------------------------
(* The window.  The buffer is compared with the samples of the last Window  *)
(* units that the history variable keeps.                                  *)

\* A position counted from an index, once round the buffer at most.
LEMMA ModAt ==
    ASSUME NEW n \in Nat \ {0}, NEW r \in 0..(n - 1), NEW i \in 0..n
    PROVE  (r + i) % n = IF r + i < n THEN r + i ELSE r + i - n
<1>1. CASE r + i < n  BY <1>1, ModSmall
<1>2. CASE ~(r + i < n)  BY <1>2, ModOnce
<1> QED  BY <1>1, <1>2

\* A buffer of entries, as the code types them.
Typed(b) == b.buf \in [Slots -> [price : Nat, age : Nat]]

\* The entries that have not left the window.
Live(b) == {Entry(b, i) : i \in {k \in 0..(b.count - 1) : Entry(b, k).age <= Window}}

\* The i-th youngest entry has seen i units pass, and n more, unless it is stale:
\* there is at most one sample in a unit.
Spaced(b, n) ==
    \A i \in 0..(b.count - 1) :
        Entry(b, i).age > Window \/ Entry(b, i).age >= (b.count - 1 - i) + n

\* The entries are in the order of their age.
Aged(b) ==
    \A i, j \in 0..(b.count - 1) : i <= j => Entry(b, i).age >= Entry(b, j).age

\* A counted entry is one of the buffer's.
LEMMA EntryTyped ==
    ASSUME NEW b, Good(b), Typed(b), NEW i \in 0..(b.count - 1)
    PROVE  Entry(b, i) \in [price : Nat, age : Nat]
<1>1. (b.read + i) % BufSize \in Slots  BY SizePositive DEF Good, Slots
<1> QED  BY <1>1 DEF Entry, Typed

\* record_btc adds the newest entry behind the others, of which a full buffer
\* has lost the oldest.
LEMMA RecordEntries ==
    ASSUME NEW b, NEW p \in Nat, Good(b), Typed(b)
    PROVE  LET c == record_btc(b, p)
               d == IF b.count < BufSize THEN 0 ELSE 1
           IN  /\ Typed(c)
               /\ c.count = b.count + 1 - d
               /\ Entry(c, c.count - 1) = [price |-> p, age |-> 0]
               /\ \A i \in 0..(c.count - 2) : Entry(c, i) = Entry(b, i + d)
<1> DEFINE c == record_btc(b, p)
           d == IF b.count < BufSize THEN 0 ELSE 1
           e == [price |-> p, age |-> 0]
<1>1. /\ BufSize \in Nat \ {0} /\ b.read \in 0..(BufSize - 1)
      /\ b.write \in 0..(BufSize - 1) /\ b.count \in 0..BufSize
  BY SizePositive DEF Good, Slots
<1>2. /\ c.buf = [b.buf EXCEPT ![b.write] = e]
      /\ c.count = b.count + 1 - d
      /\ c.read = IF b.count < BufSize THEN b.read ELSE (b.read + 1) % BufSize
  BY <1>1 DEF record_btc
<1>3. d \in {0, 1} /\ (d = 0 <=> b.count < BufSize) /\ (d = 1 <=> b.count = BufSize)
  BY <1>1
<1>4. c.read = (b.read + d) % BufSize
  BY <1>1, <1>2, <1>3, ModSmall
<1> HIDE DEF c, d
<1>5. Typed(c)
  <2>1. e \in [price : Nat, age : Nat]  OBVIOUS
  <2> HIDE DEF e
  <2> QED  BY <1>2, <2>1 DEF Typed
<1>6. b.write = IF b.read + b.count < BufSize THEN b.read + b.count
                ELSE b.read + b.count - BufSize
  BY <1>1, ModAt DEF Good
<1>7. c.read = IF b.read + d < BufSize THEN b.read + d ELSE b.read + d - BufSize
  <2>1. d \in 0..BufSize  BY <1>1, <1>3
  <2> QED  BY <1>1, <1>4, <2>1, ModAt
<1>8. c.read \in 0..(BufSize - 1)  BY <1>1, <1>3, <1>7
<1>9. ASSUME NEW i \in 0..(c.count - 1)
      PROVE  (c.read + i) % BufSize = IF c.read + i < BufSize THEN c.read + i
                                       ELSE c.read + i - BufSize
  <2>1. i \in 0..BufSize  BY <1>1, <1>2, <1>3, <1>9
  <2> QED  BY <1>1, <1>8, <2>1, ModAt
<1>10. Entry(c, c.count - 1) = e
  <2>1. c.count - 1 \in 0..(c.count - 1)  BY <1>1, <1>2, <1>3
  <2>2. (c.read + (c.count - 1)) % BufSize
           = IF c.read + (c.count - 1) < BufSize THEN c.read + (c.count - 1)
             ELSE c.read + (c.count - 1) - BufSize
    BY <1>9, <2>1
  <2>3. (c.read + (c.count - 1)) % BufSize = b.write
    BY <1>1, <1>2, <1>3, <1>6, <1>7, <2>2, SMTT(40)
  <2>4. b.write \in DOMAIN b.buf  BY <1>1 DEF Typed, Slots
  <2> HIDE DEF e
  <2> QED  BY <1>2, <2>3, <2>4 DEF Entry
<1>11. ASSUME NEW i \in 0..(c.count - 2)  PROVE Entry(c, i) = Entry(b, i + d)
  <2>0. i \in 0..(c.count - 1) /\ i \in Int  BY <1>1, <1>2, <1>3, <1>11
  <2>1. (c.read + i) % BufSize = IF c.read + i < BufSize THEN c.read + i
                                  ELSE c.read + i - BufSize
    BY <1>9, <2>0
  <2>2. i + d \in 0..BufSize /\ i + d < b.count + d /\ i < b.count  BY <1>1, <1>2, <1>3, <1>11
  <2>3. (b.read + (i + d)) % BufSize = IF b.read + (i + d) < BufSize THEN b.read + (i + d)
                                        ELSE b.read + (i + d) - BufSize
    BY <1>1, <2>2, ModAt
  <2> DEFINE x == (c.read + i) % BufSize
             y == (b.read + (i + d)) % BufSize
  <2>6. x \in Slots  BY <1>1, <1>3, <1>8, <2>0 DEF Slots
  <2> HIDE DEF x, y
  <2>4. x = y
    <3>1. CASE d = 0  BY <3>1, <1>1, <1>7, <2>0, <2>1, <2>3 DEF x, y
    <3>2. CASE d = 1
      <4>1. x = IF c.read + i < BufSize THEN c.read + i ELSE c.read + i - BufSize
        BY <2>1 DEF x
      <4>2. y = IF b.read + (i + 1) < BufSize THEN b.read + (i + 1)
                ELSE b.read + (i + 1) - BufSize
        BY <2>3, <3>2 DEF y
      <4> QED  BY <1>1, <1>7, <2>0, <2>2, <3>2, <4>1, <4>2
    <3> QED  BY <1>3, <3>1, <3>2
  <2>5. x # b.write
    <3>1. x = IF c.read + i < BufSize THEN c.read + i ELSE c.read + i - BufSize
      BY <2>1 DEF x
    <3> QED  BY <1>1, <1>2, <1>3, <1>6, <1>7, <1>11, <2>0, <2>2, <3>1
  <2> QED  BY <1>2, <2>4, <2>5, <2>6 DEF Entry, Typed, x, y
<1> QED  BY <1>2, <1>5, <1>10, <1>11 DEF c, d

\* The eviction loop stops at the first entry inside the window; in a buffer in
\* the order of ages that is after all the stale ones.
LEMMA StalePrefix ==
    ASSUME NEW b, Good(b), Typed(b), Aged(b), NEW i \in 0..(b.count - 1)
    PROVE  i < StaleEntries(b) <=> Entry(b, i).age > Window
<1> DEFINE S == {k \in 0..(b.count - 1) : \A j \in 0..k : Entry(b, j).age > Window}
<1>1. b.count \in Nat /\ Window \in Nat  BY SizePositive, WatchAssumption DEF Good
<1>2. IsFiniteSet(S)
  <2>1. IsFiniteSet(0..(b.count - 1))  BY <1>1, FS_Interval
  <2>2. S \subseteq 0..(b.count - 1)  OBVIOUS
  <2> QED  BY <2>1, <2>2, FS_Subset
<1>3. Cardinality(S) \in Nat  BY <1>2, FS_CardinalityType
<1>4. CASE Entry(b, i).age > Window
  <2>1. 0..i \subseteq S
    <3> SUFFICES ASSUME NEW k \in 0..i, NEW j \in 0..k  PROVE Entry(b, j).age > Window
      BY <1>1
    <3>1. i \in 0..(b.count - 1) /\ j \in 0..(b.count - 1) /\ j <= i  BY <1>1
    <3>2. Entry(b, i).age \in Nat /\ Entry(b, j).age \in Nat
      <4>1. Entry(b, i) \in [price : Nat, age : Nat] /\ Entry(b, j) \in [price : Nat, age : Nat]
        BY <3>1, EntryTyped
      <4> QED  BY <4>1
    <3>3. Entry(b, j).age >= Entry(b, i).age  BY <3>1 DEF Aged
    <3> QED  BY <1>1, <1>4, <3>2, <3>3
  <2>2. Cardinality(0..i) = i + 1
    <3>1. i \in Int /\ 0 \in Int /\ ~(0 > i)  BY <1>1
    <3>2. Cardinality(0..i) = IF 0 > i THEN 0 ELSE i - 0 + 1  BY <3>1, FS_Interval
    <3> QED  BY <3>1, <3>2
  <2>3. Cardinality(0..i) <= Cardinality(S)  BY <1>2, <2>1, FS_Subset
  <2> HIDE DEF S
  <2>4. i < Cardinality(S)  BY <1>1, <1>3, <2>2, <2>3
  <2> QED  BY <1>4, <2>4 DEF StaleEntries, S
<1>5. CASE ~(Entry(b, i).age > Window)
  <2> DEFINE m == i - 1
  <2>0. m \in Int /\ i = m + 1 /\ 0 \in Int  BY <1>1
  <2>1. S \subseteq 0..m
    <3> SUFFICES ASSUME NEW k \in S  PROVE k < i
      BY <1>1
    <3>1. CASE k >= i
      <4>1. i \in 0..k  BY <1>1, <3>1
      <4> QED  BY <1>5, <4>1
    <3> QED  BY <1>1, <3>1
  <2> HIDE DEF m
  <2>2. IsFiniteSet(0..m) /\ Cardinality(0..m) = IF 0 > m THEN 0 ELSE m - 0 + 1
    BY <2>0, FS_Interval
  <2>3. Cardinality(S) <= Cardinality(0..m)  BY <2>1, <2>2, FS_Subset
  <2> HIDE DEF S
  <2>4. ~(i < Cardinality(S))  BY <1>1, <1>3, <2>0, <2>2, <2>3
  <2> QED  BY <1>5, <2>4 DEF StaleEntries, S
<1> QED  BY <1>4, <1>5

\* What the eviction leaves: the entries from the first one on that is inside
\* the window.
LEMMA EvictEntries ==
    ASSUME NEW b, Good(b), Typed(b), Aged(b), ~(b.count < 2)
    PROVE  LET n == StaleEntries(b)
               c == Evicted(b)
           IN  /\ n \in 0..b.count
               /\ c.count = b.count - n
               /\ \A i \in 0..(c.count - 1) : Entry(c, i) = Entry(b, i + n)
<1> DEFINE n == StaleEntries(b)
           c == Evicted(b)
<1>1. /\ BufSize \in Nat \ {0} /\ b.read \in 0..(BufSize - 1) /\ b.count \in 0..BufSize
      /\ n \in 0..b.count
  BY SizePositive, StaleBounded DEF Good, Slots
<1>2. c.buf = b.buf /\ c.count = b.count - n /\ c.read = (b.read + n) % BufSize
  BY DEF Evicted
<1> HIDE DEF c, n
<1>3. n \in 0..BufSize  BY <1>1
<1>4. c.read = IF b.read + n < BufSize THEN b.read + n ELSE b.read + n - BufSize
  BY <1>1, <1>2, <1>3, ModAt
<1>5. c.read \in 0..(BufSize - 1)  BY <1>1, <1>4
<1>6. ASSUME NEW i \in 0..(c.count - 1)  PROVE Entry(c, i) = Entry(b, i + n)
  <2>1. i \in 0..BufSize /\ i + n \in 0..BufSize /\ i + n < BufSize  BY <1>1, <1>2, <1>6
  <2> DEFINE x == (c.read + i) % BufSize
             y == (b.read + (i + n)) % BufSize
  <2>2. x = IF c.read + i < BufSize THEN c.read + i ELSE c.read + i - BufSize
    BY <1>1, <1>5, <2>1, ModAt
  <2>3. y = IF b.read + (i + n) < BufSize THEN b.read + (i + n)
            ELSE b.read + (i + n) - BufSize
    BY <1>1, <2>1, ModAt
  <2> HIDE DEF x, y
  <2>4. x = y  BY <1>1, <1>4, <1>5, <2>1, <2>2, <2>3
  <2> QED  BY <1>2, <2>4 DEF Entry, x, y
<1> QED  BY <1>1, <1>2, <1>6 DEF c, n

\* The eviction leaves no stale entry and takes none inside the window.
LEMMA EvictLive ==
    ASSUME NEW b, Good(b), Typed(b), Aged(b)
    PROVE  /\ Live(Evicted(b)) = Live(b)
           /\ ~(b.count < 2) => Live(b) = {Entry(Evicted(b), i) : i \in 0..(Evicted(b).count - 1)}
<1>1. CASE b.count < 2  BY <1>1 DEF Evicted
<1>2. CASE ~(b.count < 2)
  <2> DEFINE n == StaleEntries(b)
             c == Evicted(b)
  <2>1. /\ n \in 0..b.count /\ c.count = b.count - n
        /\ \A i \in 0..(c.count - 1) : Entry(c, i) = Entry(b, i + n)
    BY <1>2, EvictEntries
  <2>2. \A i \in 0..(b.count - 1) : i < n <=> Entry(b, i).age > Window
    BY StalePrefix
  <2>3. b.count \in Nat /\ Window \in Nat  BY SizePositive, WatchAssumption DEF Good
  <2>4. \A i \in 0..(b.count - 1) : Entry(b, i).age \in Nat
    <3> SUFFICES ASSUME NEW i \in 0..(b.count - 1)  PROVE Entry(b, i).age \in Nat
      OBVIOUS
    <3>1. Entry(b, i) \in [price : Nat, age : Nat]  BY EntryTyped
    <3> QED  BY <3>1
  <2> HIDE DEF n, c
  <2>5. \A i \in 0..(c.count - 1) : i + n \in 0..(b.count - 1) /\ i + n >= n  BY <2>1, <2>3
  <2>6. \A i \in 0..(c.count - 1) : Entry(c, i).age <= Window
    BY <2>1, <2>2, <2>3, <2>4, <2>5
  <2>7. Live(c) = {Entry(c, i) : i \in 0..(c.count - 1)}  BY <2>6 DEF Live
  <2>8. Live(b) \subseteq {Entry(c, i) : i \in 0..(c.count - 1)}
    <3> SUFFICES ASSUME NEW i \in 0..(b.count - 1), Entry(b, i).age <= Window
                 PROVE  \E j \in 0..(c.count - 1) : Entry(b, i) = Entry(c, j)
      BY DEF Live
    <3>1. ~(Entry(b, i).age > Window)  BY <2>3, <2>4
    <3>2. i >= n  BY <2>1, <2>2, <2>3, <3>1
    <3>3. i - n \in 0..(c.count - 1) /\ (i - n) + n = i  BY <2>1, <2>3, <3>2
    <3>4. Entry(c, i - n) = Entry(b, (i - n) + n)  BY <2>1, <3>3
    <3> QED  BY <3>3, <3>4
  <2>9. {Entry(c, i) : i \in 0..(c.count - 1)} \subseteq Live(b)
    BY <2>1, <2>5, <2>6 DEF Live
  <2> QED  BY <1>2, <2>7, <2>8, <2>9 DEF c
<1> QED  BY <1>1, <1>2

\* The eviction keeps the order and the spacing.
LEMMA EvictKeeps ==
    ASSUME NEW b, Good(b), Typed(b), Aged(b), Spaced(b, 0)
    PROVE  Typed(Evicted(b)) /\ Aged(Evicted(b)) /\ Spaced(Evicted(b), 0)
<1>1. CASE b.count < 2  BY <1>1 DEF Evicted
<1>2. CASE ~(b.count < 2)
  <2> DEFINE n == StaleEntries(b)
             c == Evicted(b)
  <2>1. /\ n \in 0..b.count /\ c.count = b.count - n
        /\ \A i \in 0..(c.count - 1) : Entry(c, i) = Entry(b, i + n)
    BY <1>2, EvictEntries
  <2>2. b.count \in Nat  BY SizePositive DEF Good
  <2>3. Typed(c)  BY DEF Typed, Evicted
  <2> HIDE DEF n, c
  <2>4. \A i \in 0..(c.count - 1) : i + n \in 0..(b.count - 1)  BY <2>1, <2>2
  <2>5. Aged(c)
    <3> SUFFICES ASSUME NEW i \in 0..(c.count - 1), NEW j \in 0..(c.count - 1), i <= j
                 PROVE  Entry(c, i).age >= Entry(c, j).age
      BY DEF Aged
    <3>1. i + n <= j + n  BY <2>1, <2>2
    <3> QED  BY <2>1, <2>4, <3>1 DEF Aged
  <2>6. Spaced(c, 0)
    <3> SUFFICES ASSUME NEW i \in 0..(c.count - 1)
                 PROVE  Entry(c, i).age > Window \/ Entry(c, i).age >= (c.count - 1 - i) + 0
      BY DEF Spaced
    <3>1. (c.count - 1 - i) + 0 = (b.count - 1 - (i + n)) + 0  BY <2>1, <2>2
    <3> QED  BY <2>1, <2>4, <3>1 DEF Spaced
  <2> QED  BY <2>3, <2>5, <2>6 DEF c
<1> QED  BY <1>1, <1>2

\* record_btc keeps the order and the spacing, and what it overwrites has left
\* the window: a full buffer holds more samples than a window can.
LEMMA RecordKeeps ==
    ASSUME NEW b, NEW p \in Nat, Good(b), Typed(b), Aged(b), Spaced(b, 1)
    PROVE  LET c == record_btc(b, p)
           IN  /\ Typed(c) /\ Aged(c) /\ Spaced(c, 0)
               /\ Live(c) = Live(b) \cup {[price |-> p, age |-> 0]}
<1> DEFINE c == record_btc(b, p)
           d == IF b.count < BufSize THEN 0 ELSE 1
           e == [price |-> p, age |-> 0]
<1>1. /\ Typed(c)
      /\ c.count = b.count + 1 - d
      /\ Entry(c, c.count - 1) = e
      /\ \A i \in 0..(c.count - 2) : Entry(c, i) = Entry(b, i + d)
  BY RecordEntries
<1>2. /\ b.count \in Nat /\ Window \in Nat /\ BufSize \in Nat \ {0} /\ BufSize > Window
      /\ b.count <= BufSize /\ d \in {0, 1} /\ (d = 1 => b.count = BufSize)
      /\ (d = 1 => b.count >= 1)
  BY SizePositive, WatchAssumption DEF Good
<1>3. \A i \in 0..(b.count - 1) : Entry(b, i).age \in Nat
  <2> SUFFICES ASSUME NEW i \in 0..(b.count - 1)  PROVE Entry(b, i).age \in Nat
    OBVIOUS
  <2>1. Entry(b, i) \in [price : Nat, age : Nat]  BY EntryTyped
  <2> QED  BY <2>1
<1>4. e.age = 0  OBVIOUS
<1> HIDE DEF c, d, e
<1>5. c.count \in Nat /\ c.count >= 1  BY <1>1, <1>2
<1>6. \A i \in 0..(c.count - 1) : i = c.count - 1 \/ i \in 0..(c.count - 2)  BY <1>5
<1>7. \A i \in 0..(c.count - 2) : i + d \in 0..(b.count - 1)  BY <1>1, <1>2
<1>8. Aged(c)
  <2> SUFFICES ASSUME NEW i \in 0..(c.count - 1), NEW j \in 0..(c.count - 1), i <= j
               PROVE  Entry(c, i).age >= Entry(c, j).age
    BY DEF Aged
  <2>1. CASE j = c.count - 1
    <3>1. CASE i = c.count - 1  BY <1>1, <1>4, <2>1, <3>1
    <3>2. CASE i \in 0..(c.count - 2)  BY <1>1, <1>3, <1>4, <1>7, <2>1, <3>2
    <3> QED  BY <1>6, <3>1, <3>2
  <2>2. CASE j \in 0..(c.count - 2)
    <3>1. i \in 0..(c.count - 2) /\ i + d <= j + d  BY <1>2, <1>5, <2>2
    <3> QED  BY <1>1, <1>7, <2>2, <3>1 DEF Aged
  <2> QED  BY <1>6, <2>1, <2>2
<1>9. Spaced(c, 0)
  <2> SUFFICES ASSUME NEW i \in 0..(c.count - 1)
               PROVE  Entry(c, i).age > Window \/ Entry(c, i).age >= (c.count - 1 - i) + 0
    BY DEF Spaced
  <2>1. CASE i = c.count - 1
    <3>1. Entry(c, i).age = 0  BY <1>1, <1>4, <2>1
    <3>2. (c.count - 1 - i) + 0 = 0  BY <1>5, <2>1
    <3> QED  BY <3>1, <3>2
  <2>2. CASE i \in 0..(c.count - 2)
    <3>1. (c.count - 1 - i) + 0 = (b.count - 1 - (i + d)) + 1  BY <1>1, <1>2, <2>2
    <3> QED  BY <1>1, <1>7, <2>2, <3>1 DEF Spaced
  <2> QED  BY <1>6, <2>1, <2>2
<1>10. Live(c) \subseteq Live(b) \cup {e}
  <2> SUFFICES ASSUME NEW i \in 0..(c.count - 1), Entry(c, i).age <= Window
               PROVE  Entry(c, i) \in Live(b) \cup {e}
    BY DEF Live
  <2>1. CASE i = c.count - 1  BY <1>1, <2>1
  <2>2. CASE i \in 0..(c.count - 2)  BY <1>1, <1>7, <2>2 DEF Live
  <2> QED  BY <1>6, <2>1, <2>2
<1>11. e \in Live(c)
  <2>1. c.count - 1 \in 0..(c.count - 1)  BY <1>5
  <2> QED  BY <1>1, <1>2, <1>4, <2>1 DEF Live
<1>12. Live(b) \subseteq Live(c)
  <2> SUFFICES ASSUME NEW i \in 0..(b.count - 1), Entry(b, i).age <= Window
               PROVE  Entry(b, i) \in Live(c)
    BY DEF Live
  <2>1. i >= d
    <3>1. CASE d = 1 /\ i = 0
      <4>1. Entry(b, i).age >= (b.count - 1 - i) + 1  BY <1>2, <1>3 DEF Spaced
      <4> QED  BY <1>2, <1>3, <3>1, <4>1
    <3> QED  BY <1>2, <3>1
  <2>2. i - d \in 0..(c.count - 2) /\ i - d \in 0..(c.count - 1) /\ (i - d) + d = i
    BY <1>1, <1>2, <2>1
  <2>3. Entry(c, i - d) = Entry(b, (i - d) + d)  BY <1>1, <2>2
  <2> QED  BY <2>2, <2>3 DEF Live
<1> QED  BY <1>1, <1>8, <1>9, <1>10, <1>11, <1>12 DEF c, e

\* One entry is no spread.
LEMMA OneEntryNoSpread ==
    ASSUME NEW b, Good(b), Typed(b), b.count < 2
    PROVE  ~Spread({e.price : e \in Live(b)})
<1> SUFFICES ASSUME NEW x \in Live(b), NEW y \in Live(b), x.price > 0,
                    (y.price - x.price) * 1000 > SpikePermille * x.price
             PROVE  FALSE
  BY DEF Spread
<1>1. PICK i \in 0..(b.count - 1) : x = Entry(b, i)  BY DEF Live
<1>2. PICK j \in 0..(b.count - 1) : y = Entry(b, j)  BY DEF Live
<1>3. i = j  BY SizePositive DEF Good
<1>4. x \in [price : Nat, age : Nat]  BY <1>1, EntryTyped
<1> DEFINE q == x.price
<1>5. q \in Nat /\ y.price = q /\ SpikePermille \in Nat  BY <1>1, <1>2, <1>3, <1>4, WatchAssumption
<1>6. ~Spread({0, q})  BY <1>5, NoSpread
<1> QED  BY <1>5, <1>6 DEF Spread

\* The invariant of the window: the entries inside it are the samples.
WindowInv ==
    /\ Typed(Buf) /\ Aged(Buf)
    /\ slept \in BOOLEAN /\ Spaced(Buf, IF slept THEN 1 ELSE 0)
    /\ samples = Live(Buf)

\* The mid that the watchdog samples stays a number.
LEMMA MidTypedStep == MidTyped /\ [WatchNext]_allVars => MidTyped'
<1> SUFFICES ASSUME MidTyped, [WatchNext]_allVars  PROVE MidTyped'
  OBVIOUS
<1> DEFINE S == [tick : AllTicks, token : Tokens]
<1>1. ring \in Seq(S) /\ price \in Prices /\ btc_mid \in Nat  BY DEF MidTyped
<1>2. CASE UNCHANGED <<price, ring, btc_mid>>  BY <1>1, <1>2 DEF MidTyped
<1>3. CASE evaluate \/ AdvanceTime \/ UNCHANGED allVars
  BY <1>2, <1>3 DEF evaluate, AdvanceTime, allVars, engineVars
<1>4. CASE PriceMoves  BY <1>1, <1>4 DEF PriceMoves, engineVars, MidTyped
<1>5. CASE Receive
  <2>1. UNCHANGED <<price, btc_mid>>  BY <1>5 DEF Receive
  <2> QED  BY <1>1, <1>5, <2>1, ReceiveTyped DEF MidTyped
<1>6. ASSUME NEW s, Pop(s)
      PROVE  price' = price /\ ring' \in Seq(S) /\ Head(ring).tick.mid \in Nat
  <2> HIDE DEF S
  <2>1. ring # <<>> /\ ring' = Tail(ring) /\ price' = price  BY <1>6 DEF Pop
  <2>2. Head(ring) \in S /\ ring' \in Seq(S)  BY <1>1, <2>1
  <2>3. Head(ring).tick \in AllTicks  BY <2>2 DEF S
  <2> QED  BY <2>1, <2>2, <2>3, MidOfTick
<1>7. CASE process_coinbase  BY <1>1, <1>6, <1>7 DEF process_coinbase, MidTyped
<1>8. CASE process_polymarket  BY <1>1, <1>6, <1>8 DEF process_polymarket, MidTyped
<1>9. CASE process_binance  BY <1>1, <1>6, <1>9 DEF process_binance, MidTyped
<1> QED  BY <1>3, <1>4, <1>5, <1>7, <1>8, <1>9 DEF WatchNext, EngineNext, Engine

\* What evaluate() leaves: the samples of the window, and the verdict on them.
LEMMA EvaluateWindow ==
    ASSUME MidTyped, BufInv, WindowInv, evaluate
    PROVE  WindowInv' /\ (tripped' <=> Spread({e.price : e \in samples'}))
<1> DEFINE r == IF btc_mid > 0 THEN record_btc(Buf, btc_mid) ELSE Buf
           b == Evicted(r)
<1>1. Good(Buf) /\ Typed(Buf) /\ Aged(Buf) /\ Spaced(Buf, 1) /\ samples = Live(Buf)
  BY DEF BufInv, IndicesAgree, Good, Buf, WindowInv, evaluate
<1>2. Good(r)  BY <1>1, RecordGood
<1>3. Typed(r) /\ Aged(r) /\ Spaced(r, 0) /\ Live(r) = samples'
  <2>1. CASE btc_mid > 0
    <3>1. samples' = samples \cup {[price |-> btc_mid, age |-> 0]}
      BY <2>1 DEF evaluate
    <3>2. r = record_btc(Buf, btc_mid)  BY <2>1
    <3>3. btc_mid \in Nat  BY DEF MidTyped
    <3> HIDE DEF r
    <3> QED  BY <1>1, <3>1, <3>2, <3>3, RecordKeeps
  <2>2. CASE ~(btc_mid > 0)
    <3>1. samples' = samples /\ r = Buf  BY <2>2 DEF evaluate
    <3>2. Spaced(Buf, 0)
      <4> SUFFICES ASSUME NEW i \in 0..(Buf.count - 1)
                   PROVE  \/ Entry(Buf, i).age > Window
                          \/ Entry(Buf, i).age >= (Buf.count - 1 - i) + 0
        BY DEF Spaced
      <4>1. Entry(Buf, i) \in [price : Nat, age : Nat]  BY <1>1, EntryTyped
      <4>2. Entry(Buf, i).age \in Nat /\ Buf.count \in Nat
        BY <1>1, <4>1, SizePositive DEF Good
      <4>3. Entry(Buf, i).age > Window \/ Entry(Buf, i).age >= (Buf.count - 1 - i) + 1
        BY <1>1 DEF Spaced
      <4> QED  BY <4>2, <4>3
    <3> QED  BY <1>1, <3>1, <3>2
  <2> QED  BY <2>1, <2>2
<1>4. tripped' = Spike(b) /\ slept' = FALSE  BY DEF evaluate
<1>5. Buf'.buf = b.buf /\ Buf'.read = b.read /\ Buf'.write = b.write /\ Buf'.count = b.count
  BY DEF evaluate, Buf
<1> HIDE DEF r
<1>6. Typed(b) /\ Aged(b) /\ Spaced(b, 0)  BY <1>2, <1>3, EvictKeeps
<1>7. Live(b) = samples'  BY <1>2, <1>3, EvictLive
<1>8. Good(b)
  <2>1. b.write = r.write  BY DEF Evicted
  <2> QED  BY <1>2, <2>1, EvictGood DEF Good
<1>9. tripped' <=> Spread({e.price : e \in samples'})
  <2>1. CASE b.count < 2
    <3>1. ~Spread({e.price : e \in Live(b)})  BY <1>6, <1>8, <2>1, OneEntryNoSpread
    <3>2. ~Spike(b)  BY <2>1, SizePositive, <1>8 DEF Spike, Good
    <3> QED  BY <1>4, <1>7, <3>1, <3>2
  <2>2. CASE ~(b.count < 2)
    <3>1. ~(r.count < 2)
      <4>1. CASE r.count < 2  BY <2>2, <4>1 DEF Evicted
      <4> QED  BY <4>1
    <3>2. samples' = {Entry(b, i) : i \in 0..(b.count - 1)}
      BY <1>2, <1>3, <3>1, EvictLive
    <3>3. {e.price : e \in samples'} = {Entry(b, i).price : i \in 0..(b.count - 1)}
      BY <3>2
    <3>4. b.count >= 2  BY <2>2, <1>8, SizePositive DEF Good
    <3> QED  BY <1>4, <3>3, <3>4 DEF Spike
  <2> QED  BY <2>1, <2>2
<1> HIDE DEF b
<1>10. \A i : Entry(b, i) = Entry(Buf', i)  BY <1>5 DEF Entry
<1>11. WindowInv'
  <2>1. Typed(Buf') /\ Aged(Buf') /\ Spaced(Buf', 0) /\ Live(Buf') = Live(b)
    BY <1>5, <1>6, <1>10 DEF Typed, Aged, Spaced, Live
  <2> QED  BY <1>4, <1>7, <2>1 DEF WindowInv, Typed, Aged, Spaced, Live, Entry, Slots
<1> QED  BY <1>9, <1>11

\* The passing of time ages the entries and the samples alike.
LEMMA TimeWindow ==
    ASSUME BufInv, WindowInv, AdvanceTime
    PROVE  WindowInv'
<1> DEFINE c == Buf'
           Older(e) == IF e.age > Window THEN e ELSE [e EXCEPT !.age = e.age + 1]
<1>1. Good(Buf) /\ Typed(Buf) /\ Aged(Buf) /\ samples = Live(Buf)
  BY DEF BufInv, IndicesAgree, Good, Buf, WindowInv
<1>2. /\ c.read = Buf.read /\ c.count = Buf.count /\ slept' = TRUE
      /\ c.buf = [i \in Slots |-> Older(Buf.buf[i])]
  BY DEF AdvanceTime, Buf, Slots
<1>3. Buf.count \in Nat /\ Buf.count <= BufSize /\ Window \in Nat
  BY <1>1, SizePositive, WatchAssumption DEF Good
<1> DEFINE I == 0..(Buf.count - 1)
<1>4. \A i \in I : Entry(Buf, i) \in [price : Nat, age : Nat]  BY <1>1, EntryTyped
<1>5. \A i \in I : Entry(c, i) = Older(Entry(Buf, i))
  <2> SUFFICES ASSUME NEW i \in I  PROVE Entry(c, i) = Older(Entry(Buf, i))
    OBVIOUS
  <2>1. (Buf.read + i) % BufSize \in Slots  BY <1>1, SizePositive DEF Good, Slots
  <2> HIDE DEF Older, c
  <2> QED  BY <1>2, <2>1 DEF Entry
<1>6. \A e \in [price : Nat, age : Nat] :
         /\ Older(e) \in [price : Nat, age : Nat]
         /\ Older(e).age = IF e.age > Window THEN e.age ELSE e.age + 1
  OBVIOUS
<1>7. Typed(c)
  <2> HIDE DEF Older, c
  <2>1. \A i \in Slots : Buf.buf[i] \in [price : Nat, age : Nat]  BY <1>1 DEF Typed
  <2> QED  BY <1>2, <1>6, <2>1 DEF Typed
<1> DEFINE A(i) == Entry(Buf, i).age
           B(i) == Entry(c, i).age
<1>8. \A i \in I : A(i) \in Nat /\ B(i) = IF A(i) > Window THEN A(i) ELSE A(i) + 1
  <2> HIDE DEF Older, c
  <2> QED  BY <1>4, <1>5, <1>6
<1>9. Aged(c)
  <2> SUFFICES ASSUME NEW i \in I, NEW j \in I, i <= j  PROVE B(i) >= B(j)
    BY <1>2 DEF Aged
  <2>1. A(i) >= A(j)  BY <1>1 DEF Aged
  <2> HIDE DEF A, B
  <2> QED  BY <1>3, <1>8, <2>1
<1>10. Spaced(c, 1)
  <2> SUFFICES ASSUME NEW i \in I  PROVE B(i) > Window \/ B(i) >= (Buf.count - 1 - i) + 1
    BY <1>2 DEF Spaced
  <2>1. A(i) > Window \/ A(i) >= Buf.count - 1 - i
    <3>1. CASE slept
      <4>1. Spaced(Buf, 1)  BY <3>1 DEF WindowInv
      <4>2. A(i) > Window \/ A(i) >= (Buf.count - 1 - i) + 1  BY <4>1 DEF Spaced
      <4> QED  BY <1>3, <1>8, <4>2
    <3>2. CASE ~slept
      <4>1. Spaced(Buf, 0)  BY <3>2 DEF WindowInv
      <4>2. A(i) > Window \/ A(i) >= (Buf.count - 1 - i) + 0  BY <4>1 DEF Spaced
      <4> QED  BY <1>3, <1>8, <4>2
    <3> QED  BY <3>1, <3>2
  <2> HIDE DEF A, B
  <2> QED  BY <1>3, <1>8, <2>1
<1>11. samples' = Live(c)
  <2>1. samples' = {[e EXCEPT !.age = e.age + 1] : e \in {x \in samples : x.age < Window}}
    BY DEF AdvanceTime
  <2>2. ASSUME NEW i \in I, A(i) < Window
        PROVE  Entry(c, i) = [Entry(Buf, i) EXCEPT !.age = A(i) + 1] /\ B(i) <= Window
    <3>1. ~(A(i) > Window)  BY <1>3, <1>8, <2>2
    <3> QED  BY <1>3, <1>5, <1>8, <2>2, <3>1
  <2>3. ASSUME NEW i \in I, B(i) <= Window
        PROVE  A(i) < Window
    <3> HIDE DEF A, B
    <3> QED  BY <1>3, <1>8, <2>3
  <2>4. samples' \subseteq Live(c)
    <3> SUFFICES ASSUME NEW x \in samples, x.age < Window
                 PROVE  [x EXCEPT !.age = x.age + 1] \in Live(c)
      BY <2>1
    <3>1. PICK i \in I : x = Entry(Buf, i)  BY <1>1 DEF Live
    <3>2. Entry(c, i) = [x EXCEPT !.age = x.age + 1] /\ B(i) <= Window  BY <2>2, <3>1
    <3> HIDE DEF c
    <3> QED  BY <1>2, <3>2 DEF Live
  <2>5. Live(c) \subseteq samples'
    <3> SUFFICES ASSUME NEW i \in I, B(i) <= Window  PROVE Entry(c, i) \in samples'
      BY <1>2 DEF Live
    <3>1. A(i) < Window  BY <2>3
    <3>2. A(i) <= Window  BY <1>3, <1>8, <3>1
    <3>3. Entry(Buf, i) \in samples  BY <1>1, <3>2 DEF Live
    <3>4. Entry(c, i) = [Entry(Buf, i) EXCEPT !.age = A(i) + 1]  BY <2>2, <3>1
    <3> QED  BY <2>1, <3>1, <3>3, <3>4
  <2> QED  BY <2>4, <2>5
<1>12. Spaced(c, IF slept' THEN 1 ELSE 0)  BY <1>2, <1>10
<1> QED
  BY <1>2, <1>7, <1>9, <1>11, <1>12, Zenon
  DEF WindowInv, Typed, Aged, Spaced, Live, Entry, Slots

\* For every buffer larger than the window, every window and threshold: an
\* evaluation trips exactly when two mids sampled within the window differ by
\* more than the threshold.
THEOREM TripsExactly == WatchSpec => TripsOnSpikeOnly
<1> DEFINE Inv == MidTyped /\ BufInv /\ WindowInv
<1>1. WatchInit => Inv
  <2> SUFFICES ASSUME WatchInit  PROVE Inv
    OBVIOUS
  <2>1. BufInv
    BY SizePositive, ModSmall DEF WatchInit, BufInv, IndicesAgree, Slots
  <2>2. MidTyped
    <3>1. ring = <<>> /\ price \in Prices /\ btc_mid = 0  BY DEF WatchInit, EngineInit
    <3> QED  BY <3>1 DEF MidTyped
  <2>3. Typed(Buf)  BY WatchAssumption DEF WatchInit, Typed, Buf
  <2>4. Buf.count = 0 /\ slept = TRUE /\ samples = {}  BY DEF WatchInit, Buf
  <2>5. 0..(Buf.count - 1) = {}  BY <2>4
  <2>6. Aged(Buf) /\ Spaced(Buf, 1) /\ Live(Buf) = {}
    BY <2>5 DEF Aged, Spaced, Live
  <2> QED  BY <2>1, <2>2, <2>3, <2>4, <2>6 DEF WindowInv
<1>2. Inv /\ [WatchNext]_allVars => Inv'
  <2> SUFFICES ASSUME Inv, [WatchNext]_allVars  PROVE WindowInv'
    BY MidTypedStep, BufInductive
  <2>1. CASE evaluate  BY <2>1, EvaluateWindow
  <2>2. CASE AdvanceTime  BY <2>2, TimeWindow
  <2>3. CASE UNCHANGED watchVars
    <3>1. Buf' = Buf /\ slept' = slept /\ samples' = samples
      BY <2>3 DEF watchVars, bufVars, Buf
    <3> QED  BY <3>1 DEF WindowInv, Typed, Aged, Spaced, Live, Entry, Slots
  <2> QED  BY <2>1, <2>2, <2>3 DEF WatchNext, allVars
<1>3. Inv /\ [WatchNext]_allVars
        => [evaluate => (tripped' <=> Spread({e.price : e \in samples'}))]_allVars
  BY EvaluateWindow
<1> QED  BY <1>1, <1>2, <1>3, PTL DEF WatchSpec, TripsOnSpikeOnly
=============================================================================
