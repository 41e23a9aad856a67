----------------------- MODULE BacktestRunner_proofs ------------------------
(***************************************************************************)
(* The exit logic for every edge and every course of the PnL, and the      *)
(* replay for every tick file.                                             *)
(***************************************************************************)
EXTENDS BacktestRunner, FiniteSetTheorems, TLAPS

\* The hard stop is never above zero and the trailing trigger never below it,
\* after rounding, for any expected profit.
LEMMA Thresholds ==
    ASSUME NEW e \in Nat
    PROVE  HardStop(e) \in Int /\ HardStop(e) <= 0 /\ Trigger(e) \in Nat
  BY DEF HardStop, Trigger, Rounded

\* While a position is being evaluated the trailing stop is not armed and no
\* peak is recorded.
PosInv ==
    /\ PositionTypeOK
    /\ KeptOnlyAtBoundedLoss
    /\ open /\ reason = "NONE" => peak = 0

\* One evaluation of an unarmed position leaves it unarmed or ends it.
LEMMA EvaluateKeepsPosInv ==
    ASSUME PosInv, NEW p \in Pnls, Evaluate(p)
    PROVE  PosInv'
<1>1. /\ p \in Int /\ edge \in Nat /\ open /\ reason = "NONE" /\ peak = 0 /\ ~trailing
  BY AmountAssumption
  DEF Evaluate, PosInv, PositionTypeOK, KeptOnlyAtBoundedLoss
<1>2. HardStop(edge) \in Int /\ HardStop(edge) <= 0 /\ Trigger(edge) \in Nat
  BY <1>1, Thresholds
<1>3. CASE p < HardStop(edge)
  <2>1. reason' = "HARD_STOP" /\ trailing' = trailing /\ peak' = peak
    BY <1>3 DEF Evaluate, Reason
  <2> QED
    BY <1>1, <2>1
    DEF Evaluate, PosInv, PositionTypeOK, KeptOnlyAtBoundedLoss
<1>4. CASE ~(p < HardStop(edge)) /\ p >= 0
  <2>1. NewPeak(p) \in {0, p}
    BY <1>1, <1>4 DEF NewPeak
  <2>2. ~(NewPeak(p) > 0 /\ p < TrailingFloor(NewPeak(p)))
    BY <1>1, <1>4, <2>1 DEF TrailingFloor, Rounded
  <2>3. reason' = "EARLY_EXIT"
    BY <1>4, <2>2 DEF Evaluate, Reason
  <2>4. peak' = NewPeak(p) /\ trailing' = Arms(p)
    BY <1>4 DEF Evaluate
  <2>5. trailing' \in BOOLEAN /\ peak' \in Int
    BY <1>1, <2>1, <2>4 DEF Arms
  <2> QED
    BY <1>1, <2>3, <2>5
    DEF Evaluate, PosInv, PositionTypeOK, KeptOnlyAtBoundedLoss
<1>5. CASE ~(p < HardStop(edge)) /\ ~(p >= 0)
  <2>1. ~Arms(p)
    BY <1>1, <1>2, <1>5 DEF Arms
  <2>2. reason' = "NONE" /\ peak' = 0
    BY <1>1, <1>5, <2>1 DEF Evaluate, Reason, NewPeak
  <2>3. ~trailing' /\ trailing' \in BOOLEAN
    BY <1>5, <2>1, Zenon DEF Evaluate, Arms
  <2> QED
    BY <1>1, <1>2, <1>5, <2>2, <2>3
    DEF Evaluate, PosInv, PositionTypeOK, KeptOnlyAtBoundedLoss
<1> QED  BY <1>3, <1>4, <1>5

\* A position manager that has just been made.
LEMMA PosInitially ==
    ASSUME Init
    PROVE  PosInv
<1>1. open \in BOOLEAN /\ trailing \in BOOLEAN /\ ~open
  BY Zenon DEF Init
<1>2. edge = 0 /\ peak = 0 /\ pnl = 0 /\ reason = "NONE"
  BY DEF Init
<1> QED
  BY <1>1, <1>2 DEF PosInv, PositionTypeOK, KeptOnlyAtBoundedLoss

\* Every call keeps the invariant of the exit logic.
LEMMA PosStep ==
    ASSUME PosInv, [Next]_vars
    PROVE  PosInv'
<1>1. CASE Close
  <2>1. open' \in BOOLEAN /\ trailing' \in BOOLEAN /\ ~open'
    BY <1>1, Zenon DEF Close
  <2>2. peak' = 0 /\ edge' = edge /\ pnl' = pnl /\ reason' = reason
    BY <1>1 DEF Close
  <2>3. PositionTypeOK'
    BY <2>1, <2>2 DEF PosInv, PositionTypeOK
  <2> QED
    BY <2>1, <2>2, <2>3 DEF PosInv, KeptOnlyAtBoundedLoss
<1>2. ASSUME NEW e \in Edges, Open(e) PROVE PosInv'
  <2>1. open' \in BOOLEAN /\ trailing' \in BOOLEAN /\ ~trailing'
    BY <1>2, Zenon DEF Open
  <2>2. /\ edge' = e /\ e \in Nat /\ peak' = 0 /\ pnl' = 0 /\ reason' = "NONE"
    BY <1>2, AmountAssumption DEF Open
  <2>3. PositionTypeOK'
    BY <2>1, <2>2 DEF PositionTypeOK
  <2>4. pnl' <= 0 /\ pnl' >= HardStop(edge')
    BY <2>2, Thresholds
  <2> QED
    BY <2>1, <2>2, <2>3, <2>4 DEF PosInv, KeptOnlyAtBoundedLoss
<1>3. CASE UNCHANGED vars
  BY <1>3
  DEF vars, PosInv, PositionTypeOK, KeptOnlyAtBoundedLoss
<1> QED  BY <1>1, <1>2, <1>3, EvaluateKeepsPosInv DEF Next

\* The inductive invariant of the exit logic.
THEOREM PosInvariance == Spec => []PosInv
  BY PosInitially, PosStep, PTL DEF Spec

\* A position that is kept is at a loss no larger than the hard stop.
THEOREM LossIsBounded == Spec => []KeptOnlyAtBoundedLoss
  BY PosInvariance, PTL DEF PosInv

-----------------------------------------------------------------------------
(* Least and greatest times.                                               *)

\* A finite set of numbers that is not empty has a least and a greatest element:
\* a smallest counterexample stays one without one of its elements.
LEMMA FiniteHasExtremes ==
    ASSUME NEW S \in SUBSET Int, IsFiniteSet(S), S # {}
    PROVE  (\E x \in S : \A y \in S : x <= y) /\ (\E x \in S : \A y \in S : x >= y)
<1> DEFINE Least(T)    == \E x \in T : \A y \in T : x <= y
           Greatest(T) == \E x \in T : \A y \in T : x >= y
           Bad == {T \in SUBSET S : T # {} /\ ~(Least(T) /\ Greatest(T))}
<1>1. IsWellFoundedOn(StrictSubsetOrdering(S), SUBSET S)
  BY FS_StrictSubsetOrderingWellFounded, FS_FiniteSubsetsOfFinite
<1>2. SUFFICES ASSUME Bad # {} PROVE FALSE
  BY <1>2
<1>3. Bad \subseteq SUBSET S
  OBVIOUS
<1> HIDE DEF Bad
<1>4. PICK T \in Bad : \A U \in Bad : ~(<<U, T>> \in StrictSubsetOrdering(S))
  BY <1>1, <1>2, <1>3, WFMin
<1>5. T \in SUBSET S /\ T # {} /\ ~(Least(T) /\ Greatest(T))
  BY <1>4 DEF Bad
<1>6. PICK a \in T : a \in Int
  BY <1>5
<1> DEFINE U == T \ {a}
<1>7. U \in SUBSET S /\ <<U, T>> \in StrictSubsetOrdering(S)
  BY <1>5, <1>6 DEF StrictSubsetOrdering
<1>8. U = {} \/ (Least(U) /\ Greatest(U))
  BY <1>4, <1>7 DEF Bad
<1>9. CASE U = {}
  BY <1>5, <1>6, <1>9
<1>10. CASE Least(U) /\ Greatest(U)
  <2>1. PICK x \in U : \A y \in U : x <= y
    BY <1>10
  <2>2. PICK z \in U : \A y \in U : z >= y
    BY <1>10
  <2>3. x \in Int /\ z \in Int /\ T = U \cup {a} /\ T \subseteq Int
    BY <1>5, <1>6, <2>1, <2>2
  <2>4. Least(T)
    <3>1. CASE a <= x
      BY <1>6, <2>1, <2>3, <3>1
    <3>2. CASE x <= a
      BY <1>6, <2>1, <2>3, <3>2
    <3> QED  BY <1>6, <2>3, <3>1, <3>2
  <2>5. Greatest(T)
    <3>1. CASE a >= z
      BY <1>6, <2>2, <2>3, <3>1
    <3>2. CASE z >= a
      BY <1>6, <2>2, <2>3, <3>2
    <3> QED  BY <1>6, <2>3, <3>1, <3>2
  <2> QED  BY <1>5, <2>4, <2>5
<1> QED  BY <1>8, <1>9, <1>10

\* The operators Min and Max of a finite set.
LEMMA MinMax ==
    ASSUME NEW S \in SUBSET Int, IsFiniteSet(S), S # {}
    PROVE  /\ Min(S) \in S /\ \A y \in S : Min(S) <= y
           /\ Max(S) \in S /\ \A y \in S : Max(S) >= y
<1>1. \E x \in S : \A y \in S : x <= y
  BY FiniteHasExtremes
<1>2. \E x \in S : \A y \in S : x >= y
  BY FiniteHasExtremes
<1>3. Min(S) \in S /\ \A y \in S : Min(S) <= y
  BY <1>1 DEF Min
<1>4. Max(S) \in S /\ \A y \in S : Max(S) >= y
  BY <1>2 DEF Max
<1> QED  BY <1>3, <1>4

\* A difference that is not allowed to be negative.
LEMMA MaxZero ==
    ASSUME NEW x \in Int
    PROVE  Max({0, x}) = IF x > 0 THEN x ELSE 0
<1>1. IsFiniteSet({x}) /\ IsFiniteSet({x} \cup {0})
  BY FS_Singleton, FS_AddElement
<1>2. {0, x} = {x} \cup {0} /\ {0, x} \in SUBSET Int /\ {0, x} # {}
  OBVIOUS
<1>3. IsFiniteSet({0, x})
  BY <1>1, <1>2
<1>4. Max({0, x}) \in {0, x} /\ \A y \in {0, x} : Max({0, x}) >= y
  BY <1>2, <1>3, MinMax
<1>5. Max({0, x}) \in {0, x} /\ Max({0, x}) >= 0 /\ Max({0, x}) >= x
  BY <1>4
<1> QED  BY <1>5

-----------------------------------------------------------------------------
(* The windows of a file.                                                  *)

\* Products of a natural number are ordered as its factors.
LEMMA TimesOrdered ==
    ASSUME NEW a \in Int, NEW b \in Int, NEW d \in Nat, a <= b
    PROVE  a * d <= b * d
<1>1. (b - a) * d >= 0
  OBVIOUS
<1>2. (b - a) * d = b * d - a * d
  OBVIOUS
<1> QED  BY <1>1, <1>2

\* A quotient is the number of whole divisors below its dividend.
LEMMA QuotientBounds ==
    ASSUME NEW a \in Int, NEW d \in Nat \ {0}
    PROVE  /\ a \div d \in Int /\ (a \div d) * d \in Int
           /\ (a \div d) * d <= a /\ a < (a \div d + 1) * d
  OBVIOUS

\* Every tick of a file has a time above 0, and there are finitely many.
LEMMA FileFacts ==
    ASSUME file \in TickFiles, NEW S \in SUBSET DOMAIN file
    PROVE  S \in SUBSET Nat /\ S \in SUBSET Int /\ IsFiniteSet(S)
  BY BacktestAssumption, FS_Subset

\* A file with windows: the first one opens after the first tick, and the last one
\* resolves by the last.
LEMMA WindowBounds ==
    ASSUME file \in TickFiles
    PROVE  /\ Windows \in Nat
           /\ Windows > 0 =>
                /\ FirstOpen(file) \in Nat /\ t0 \in Nat /\ t1 \in Nat
                /\ t0 < FirstOpen(file)
                /\ FirstOpen(file) + Windows * Duration <= t1
<1>1. CASE Binance(file) = {}
  BY <1>1 DEF Windows, WindowsOf
<1>2. CASE Binance(file) # {}
  <2> DEFINE B == Binance(file)
             D == DOMAIN file
             lo == Min(B)
             hi == Max(B)
             F == FirstOpen(file)
             q == (hi - F) \div Duration
  <2>1. B \in SUBSET D /\ D \in SUBSET D /\ B # {} /\ D # {}
    BY <1>2 DEF Binance
  <2>2. B \in SUBSET Nat /\ B \in SUBSET Int /\ IsFiniteSet(B)
    BY <2>1, FileFacts
  <2>3. D \in SUBSET Nat /\ D \in SUBSET Int /\ IsFiniteSet(D)
    BY <2>1, FileFacts
  <2>4. lo \in B /\ hi \in B
    BY <2>1, <2>2, MinMax
  <2>5. Min(D) \in D /\ Max(D) \in D /\ \A y \in D : Min(D) <= y /\ Max(D) >= y
    BY <2>1, <2>3, MinMax
  <2>6. /\ lo \in Nat /\ hi \in Nat /\ t0 \in Nat /\ t1 \in Nat
        /\ t0 <= lo /\ hi <= t1
    BY <2>1, <2>2, <2>3, <2>4, <2>5 DEF t0, t1
  <2>7. Duration \in Nat \ {0}
    BY BacktestAssumption
  <2> HIDE DEF lo, hi, q
  <2>8. F = (lo \div Duration + 1) * Duration
    BY DEF FirstOpen, lo
  <2>9. lo \div Duration \in Int /\ lo < (lo \div Duration + 1) * Duration
        /\ (lo \div Duration) * Duration \in Int
    BY <2>6, <2>7, QuotientBounds
  <2>10. F \in Nat /\ lo < F
    BY <2>6, <2>7, <2>8, <2>9
  <2> HIDE DEF F
  <2>11. q \in Int /\ q * Duration <= hi - F /\ q * Duration \in Int
    BY <2>6, <2>7, <2>10, QuotientBounds DEF q
  <2>12. Windows = IF q > 0 THEN q ELSE 0
    BY <1>2, <2>11, MaxZero DEF Windows, WindowsOf, q, hi, F
  <2>13. Windows \in Nat
    BY <2>11, <2>12
  <2>14. Windows > 0 => F + Windows * Duration <= t1
    BY <2>6, <2>10, <2>11, <2>12
  <2> QED  BY <2>6, <2>10, <2>13, <2>14 DEF F
<1> QED  BY <1>1, <1>2

\* The times of a market of the file.
LEMMA MarketTimes ==
    ASSUME file \in TickFiles, NEW m \in 1..2 * Windows
    PROVE  /\ Windows \in Nat /\ Windows > 0
           /\ Window(m) \in Nat /\ Window(m) < Windows
           /\ open_us(Window(m)) \in Nat /\ FirstOpen(file) <= open_us(Window(m))
           /\ resolution_us(Window(m)) = open_us(Window(m)) + Duration
           /\ resolution_us(Window(m)) \in Nat
<1>1. Windows \in Nat
  BY WindowBounds
<1>2. Windows > 0 /\ m \in Int
  BY <1>1
<1>3. Window(m) \in Nat /\ Window(m) < Windows
  BY <1>1, <1>2 DEF Window
<1>4. FirstOpen(file) \in Nat /\ Duration \in Nat
  BY <1>2, WindowBounds, BacktestAssumption
<1>5. Window(m) * Duration \in Nat
  BY <1>3, <1>4
<1> QED  BY <1>1, <1>2, <1>3, <1>4, <1>5 DEF open_us, resolution_us

\* The windows follow one another.
LEMMA WindowsFollow ==
    ASSUME file \in TickFiles, Windows > 0, NEW v \in Nat, NEW w \in Nat
    PROVE  /\ open_us(w) \in Nat /\ resolution_us(w) = open_us(w + 1)
           /\ v <= w => open_us(v) <= open_us(w)
<1>1. FirstOpen(file) \in Nat /\ Duration \in Nat
  BY WindowBounds, BacktestAssumption
<1>2. v * Duration \in Nat /\ w * Duration \in Nat /\ (w + 1) * Duration = w * Duration + Duration
  BY <1>1
<1>3. v <= w => v * Duration <= w * Duration
  BY <1>1, TimesOrdered
<1> QED  BY <1>1, <1>2, <1>3 DEF open_us, resolution_us

\* The split is between the first window and the last resolution.
LEMMA SplitBounds ==
    ASSUME file \in TickFiles, Windows > 0
    PROVE  /\ split_wnd \in Nat /\ split_wnd <= Windows
           /\ split_us \in Nat /\ split_us = open_us(split_wnd)
           /\ t0 < split_us /\ split_us <= t1
<1>1. Windows \in Nat /\ FirstOpen(file) \in Nat /\ t0 \in Nat /\ t1 \in Nat
      /\ t0 < FirstOpen(file) /\ FirstOpen(file) + Windows * Duration <= t1
  BY WindowBounds
<1>2. SampleTenths \in 0..10 /\ Duration \in Nat
  BY BacktestAssumption
<1>3. SampleTenths * Windows <= 10 * Windows /\ SampleTenths * Windows \in Nat
  BY <1>1, <1>2, TimesOrdered
<1>4. split_wnd \in Nat /\ split_wnd <= Windows
  BY <1>1, <1>3 DEF split_wnd
<1>5. split_us = open_us(split_wnd)
  <2>1. CASE split_wnd < Windows
    BY <2>1 DEF split_us
  <2>2. CASE split_wnd = Windows
    <3>1. Windows - 1 \in Nat /\ (Windows - 1) + 1 = Windows
      BY <1>1
    <3>2. resolution_us(Windows - 1) = open_us(Windows)
      BY <3>1, WindowsFollow
    <3> QED  BY <1>1, <2>2, <3>2 DEF split_us
  <2> QED  BY <1>1, <1>4, <2>1, <2>2
<1>6. open_us(0) <= open_us(split_wnd) /\ open_us(split_wnd) <= open_us(Windows)
      /\ open_us(split_wnd) \in Nat
  <2>1. open_us(0) <= open_us(split_wnd) /\ open_us(split_wnd) \in Nat
    BY <1>4, WindowsFollow
  <2>2. open_us(split_wnd) <= open_us(Windows)
    BY <1>1, <1>4, WindowsFollow
  <2> QED  BY <2>1, <2>2
<1>7. open_us(0) = FirstOpen(file) /\ open_us(Windows) <= t1 /\ open_us(Windows) \in Nat
  BY <1>1, <1>2, WindowsFollow DEF open_us
<1> QED  BY <1>1, <1>4, <1>5, <1>6, <1>7

-----------------------------------------------------------------------------
(* The replay: where its loop is, its books and its last trade.            *)

ReplayType ==
    /\ file \in TickFiles
    /\ mkt \in 0..2 * Windows
    /\ at \in Nat /\ size \in Nat /\ exposure \in Nat
    /\ pc \in {"next", "tick", "close", "end", "done"}

\* The ticks the loop is past were no ticks of the last CloseBefore seconds, as
\* long as a position is open: one that were would have sold it.
NoneLate(S) == \A t \in S : Resolves - t > CloseBefore

LoopInv ==
    /\ pc \in {"tick", "close", "end"} => mkt >= 1
    /\ pc \in {"tick", "close"} => at \in Replayed(mkt)
    /\ pc = "close" => open /\ t_rem > CloseBefore
    /\ open => /\ pc \in {"tick", "close", "end"}
               /\ Opens <= at /\ Resolves - Opens > CloseBefore
               /\ NoneLate({t \in Replayed(mkt) : t < at \/ pc = "end"})

\* The exposure is that of the open position.
BooksInv ==
    /\ open => size \in Sizes /\ exposure = size
    /\ ~open => exposure = 0

\* A trade belongs to a market of the file, leaves after the market opened, and
\* leaves at the resolution or by a tick before it.
TradeInv ==
    LET w == Window(trade.market) IN
    trade # NoTrade =>
        /\ trade.market \in 1..2 * Windows
        /\ trade.exit \in Nat /\ open_us(w) <= trade.exit
        /\ IF trade.expired THEN trade.exit = resolution_us(w)
           ELSE trade.exit < resolution_us(w) + Latency

BtInv == PosInv /\ ReplayType /\ LoopInv /\ BooksInv /\ TradeInv /\ ExpiredNeedsGap

\* The times of the market stay while the market does.
LEMMA TimesStay ==
    ASSUME UNCHANGED file
    PROVE  /\ Windows' = Windows /\ \A w : open_us(w)' = open_us(w)
           /\ \A w : resolution_us(w)' = resolution_us(w)
           /\ UNCHANGED mkt =>
                Opens' = Opens /\ Resolves' = Resolves /\ Replayed(mkt)' = Replayed(mkt)
  BY DEF Windows, WindowsOf, FirstOpen, Binance, open_us, resolution_us, Opens, Resolves,
     Window, Replayed

\* The times of the market that is replayed.
LEMMA MarketNow ==
    ASSUME ReplayType, mkt >= 1
    PROVE  /\ mkt \in 1..2 * Windows
           /\ Opens \in Nat /\ Resolves \in Nat /\ Resolves = Opens + Duration
           /\ Replayed(mkt) \in SUBSET Nat
           /\ \A t \in DOMAIN file : t \in Nat
           /\ \A t \in DOMAIN file : Opens <= t /\ t <= Resolves => t \in Replayed(mkt)
           /\ \A t \in Replayed(mkt) : t \in DOMAIN file /\ t <= Resolves
<1>1. Windows \in Nat /\ file \in TickFiles
  BY WindowBounds DEF ReplayType
<1>2. mkt \in 1..2 * Windows
  BY <1>1 DEF ReplayType
<1>3. Opens \in Nat /\ Resolves \in Nat /\ Resolves = Opens + Duration
  BY <1>1, <1>2, MarketTimes DEF Opens, Resolves
<1>4. Warmup \in Nat /\ \A t \in DOMAIN file : t \in Nat
  BY <1>1, BacktestAssumption
<1>5. Replayed(mkt) = {t \in DOMAIN file : Opens - Warmup <= t /\ t <= Resolves}
  BY DEF Replayed, Opens, Resolves
<1>6. \A t \in DOMAIN file : Opens <= t => Opens - Warmup <= t
  BY <1>3, <1>4
<1> QED  BY <1>2, <1>3, <1>4, <1>5, <1>6

\* The next tick is the first one after the current, if there is one.
LEMMA AdvanceEffect ==
    ASSUME ReplayType, mkt >= 1, at \in Replayed(mkt), advance
    PROVE  \/ /\ pc' = "end" /\ at' = at
              /\ \A t \in Replayed(mkt) : t <= at
           \/ /\ pc' = "tick" /\ at' \in Replayed(mkt) /\ at' > at
              /\ \A t \in Replayed(mkt) : t < at' => t <= at
<1> DEFINE later == {t \in Replayed(mkt) : t > at}
<1>1. Replayed(mkt) \in SUBSET Nat /\ at \in Nat
  BY MarketNow
<1>2. CASE later = {}
  <2>1. \A t \in Replayed(mkt) : ~(t > at)
    BY <1>2
  <2> QED  BY <1>1, <1>2, <2>1 DEF advance
<1>3. CASE later # {}
  <2>1. later \in SUBSET DOMAIN file /\ file \in TickFiles
    BY DEF Replayed, ReplayType
  <2>2. later \in SUBSET Int /\ IsFiniteSet(later)
    BY <2>1, FileFacts
  <2>3. Min(later) \in later /\ \A t \in later : Min(later) <= t
    BY <1>3, <2>2, MinMax
  <2>4. pc' = "tick" /\ at' = Min(later)
    BY <1>3 DEF advance
  <2>5. at' \in later /\ \A t \in later : at' <= t
    BY <2>3, <2>4
  <2>6. ASSUME NEW t \in Replayed(mkt), t < at' PROVE t <= at
    BY <1>1, <2>5, <2>6
  <2> QED  BY <2>4, <2>5, <2>6
<1> QED  BY <1>2, <1>3

\* do_close releases the position and its exposure; the trade it records has to be
\* one of this market.
LEMMA CloseEffect ==
    ASSUME PosInv, ReplayType, mkt >= 1, open, BooksInv,
           NEW x \in Nat, NEW b \in BOOLEAN, do_close(x, b),
           Opens <= x, IF b THEN x = Resolves ELSE x < Resolves + Latency,
           b => \A t \in DOMAIN file : ~(Resolves - CloseBefore <= t /\ t < Resolves)
    PROVE  /\ PosInv' /\ TradeInv' /\ ExpiredNeedsGap' /\ BooksInv'
           /\ ~open' /\ exposure' = 0 /\ size' = 0 /\ UNCHANGED <<file, mkt>>
<1>1. PosInv' /\ ~open' /\ UNCHANGED <<file, mkt>> /\ size' = 0
  BY PosStep DEF do_close, Next, Close
<1>2. exposure' = Max({0, exposure - size}) /\ exposure = size /\ size \in Nat
  BY DEF do_close, BooksInv, ReplayType
<1>3. exposure - size = 0 /\ 0 \in Int
  BY <1>2
<1>4. exposure' = 0
  BY <1>2, <1>3, MaxZero
<1>5. /\ trade'.market = mkt /\ trade'.exit = x /\ trade'.expired = b
  BY DEF do_close
<1>6. /\ \A w : open_us(w)' = open_us(w) /\ resolution_us(w)' = resolution_us(w)
      /\ Windows' = Windows
  BY <1>1, TimesStay
<1>7. mkt \in 1..2 * Windows
  BY MarketNow
<1>8. TradeInv'
  BY <1>1, <1>5, <1>6, <1>7 DEF TradeInv, Opens, Resolves, Window
<1>9. ExpiredNeedsGap'
  BY <1>1, <1>5, <1>6 DEF ExpiredNeedsGap, Resolves, Window
<1> QED  BY <1>1, <1>4, <1>8, <1>9 DEF BooksInv

\* A step that records no trade leaves what is known of the last one.
LEMMA TradeStays ==
    ASSUME TradeInv, ExpiredNeedsGap, UNCHANGED <<file, trade>>
    PROVE  TradeInv' /\ ExpiredNeedsGap'
<1>1. /\ \A w : open_us(w)' = open_us(w) /\ resolution_us(w)' = resolution_us(w)
      /\ Windows' = Windows
  BY TimesStay
<1> QED  BY <1>1 DEF TradeInv, ExpiredNeedsGap, Window

\* What is known about the loop after it has moved on from a tick at which the
\* position, if there is one, was not due to be sold.
LEMMA LoopAdvances ==
    ASSUME ReplayType, LoopInv, pc \in {"tick", "close"}, advance, UNCHANGED <<file, mkt>>,
           open' => /\ Opens <= at /\ Resolves - Opens > CloseBefore
                    /\ Resolves - at > CloseBefore
                    /\ NoneLate({t \in Replayed(mkt) : t < at})
    PROVE  LoopInv' /\ at' \in Nat /\ pc' \in {"tick", "end"}
<1>1. mkt >= 1 /\ at \in Replayed(mkt)
  BY DEF LoopInv
<1>2. Opens \in Nat /\ Resolves \in Nat /\ Replayed(mkt) \in SUBSET Nat
  BY <1>1, MarketNow
<1>3. Opens' = Opens /\ Resolves' = Resolves /\ Replayed(mkt)' = Replayed(mkt)
  BY TimesStay
<1>4. \/ pc' = "end" /\ at' = at /\ \A t \in Replayed(mkt) : t <= at
      \/ /\ pc' = "tick" /\ at' \in Replayed(mkt) /\ at' > at
         /\ \A t \in Replayed(mkt) : t < at' => t <= at
  BY <1>1, AdvanceEffect
<1>5. at \in Nat /\ at' \in Nat /\ at <= at' /\ pc' \in {"tick", "end"}
  BY <1>1, <1>2, <1>4
<1>6. \A t \in Replayed(mkt) : t < at' \/ pc' = "end" => t < at \/ t = at
  BY <1>2, <1>4, <1>5
<1>7. open' => NoneLate({t \in Replayed(mkt) : t < at' \/ pc' = "end"})
  BY <1>6 DEF NoneLate
<1>8. open' => NoneLate({t \in Replayed(mkt) : t < at \/ pc = "end"})'
  BY <1>3, <1>7 DEF NoneLate
<1>9. open' => Opens' <= at' /\ Resolves' - Opens' > CloseBefore
  BY <1>2, <1>3, <1>5
<1>10. (pc' = "tick" => at' \in Replayed(mkt)') /\ mkt' >= 1
  BY <1>1, <1>3, <1>4
<1> QED  BY <1>5, <1>8, <1>9, <1>10 DEF LoopInv

\* With an open position and no tick seen in its last CloseBefore seconds, a loop
\* that is at the resolution or past its last tick has met a gap.
LEMMA GapAtEnd ==
    ASSUME ReplayType, LoopInv, open, \/ pc = "tick" /\ at >= Resolves
                                      \/ pc = "end"
    PROVE  /\ mkt >= 1 /\ Resolves \in Nat /\ Opens <= Resolves
           /\ \A t \in DOMAIN file : ~(Resolves - CloseBefore <= t /\ t < Resolves)
<1>1. mkt >= 1 /\ Resolves - Opens > CloseBefore /\ at \in Nat
      /\ NoneLate({t \in Replayed(mkt) : t < at \/ pc = "end"})
  BY DEF LoopInv, ReplayType
<1>2. /\ Opens \in Nat /\ Resolves \in Nat /\ CloseBefore \in Nat
      /\ \A t \in DOMAIN file : t \in Nat
      /\ \A t \in DOMAIN file : Opens <= t /\ t <= Resolves => t \in Replayed(mkt)
  BY <1>1, MarketNow, BacktestAssumption
<1>3. ASSUME NEW t \in DOMAIN file, Resolves - CloseBefore <= t, t < Resolves
      PROVE  FALSE
  <2>1. t \in Nat /\ Opens <= t /\ t <= Resolves
    BY <1>1, <1>2, <1>3
  <2>2. t \in Replayed(mkt) /\ (t < at \/ pc = "end")
    BY <1>1, <1>2, <1>3, <2>1
  <2>3. Resolves - t > CloseBefore
    BY <1>1, <2>2 DEF NoneLate
  <2> QED  BY <1>2, <1>3, <2>1, <2>3
<1> QED  BY <1>1, <1>2, <1>3

\* A new market starts with the position manager of a fresh start.
LEMMA NextMarketKeeps ==
    ASSUME BtInv, next_market
    PROVE  BtInv'
<1>1. /\ pc = "next" /\ mkt < 2 * Windows /\ mkt' = mkt + 1 /\ UNCHANGED <<file, exposure, trade>>
      /\ open' = FALSE /\ edge' = 0 /\ peak' = 0 /\ trailing' = FALSE
      /\ reason' = "NONE" /\ pnl' = 0 /\ size' = 0
  BY DEF next_market
<1>2. file \in TickFiles /\ Windows \in Nat /\ Windows' = Windows /\ mkt \in Nat /\ ~open
  BY <1>1, WindowBounds, TimesStay DEF BtInv, ReplayType, LoopInv
<1>3. TradeInv' /\ ExpiredNeedsGap'
  BY <1>1, TradeStays DEF BtInv
<1>4. BooksInv'
  BY <1>1, <1>2 DEF BtInv, BooksInv
<1>5. PosInv'
  <2>1. open' \in BOOLEAN /\ trailing' \in BOOLEAN /\ ~open'
    BY <1>1, Zenon
  <2> QED
    BY <1>1, <2>1 DEF PosInv, PositionTypeOK, KeptOnlyAtBoundedLoss
<1>6. mkt' \in 0..2 * Windows /\ mkt' >= 1
  BY <1>1, <1>2
<1>7. CASE Replayed(mkt') = {}
  <2>1. UNCHANGED <<pc, at>>
    BY <1>7 DEF next_market
  <2> QED
    BY <1>1, <1>2, <1>3, <1>4, <1>5, <1>6, <2>1 DEF BtInv, ReplayType, LoopInv
<1>8. CASE Replayed(mkt') # {}
  <2>1. pc' = "tick" /\ at' = Min(Replayed(mkt'))
    BY <1>8 DEF next_market
  <2>2. Replayed(mkt') \in SUBSET DOMAIN file
    BY DEF Replayed
  <2>3. Replayed(mkt') \in SUBSET Nat /\ Replayed(mkt') \in SUBSET Int /\ IsFiniteSet(Replayed(mkt'))
    BY <1>2, <2>2, FileFacts
  <2>4. at' \in Replayed(mkt')
    BY <1>8, <2>1, <2>3, MinMax
  <2>5. Replayed(mkt') = Replayed(mkt)'
    BY <1>1 DEF Replayed, open_us, resolution_us, FirstOpen, Binance, Window
  <2>6. LoopInv'
    BY <1>1, <1>6, <2>1, <2>4, <2>5 DEF LoopInv
  <2> QED
    BY <1>1, <1>2, <1>3, <1>4, <1>5, <1>6, <2>1, <2>3, <2>4, <2>6 DEF BtInv, ReplayType
<1> QED  BY <1>7, <1>8

\* The steps that end a trade.
LEMMA CloseStepKeeps ==
    ASSUME BtInv, settle \/ force_close \/ close_on_reason \/ (end_of_loop /\ open)
    PROVE  BtInv' /\ ~open' /\ exposure' = 0 /\ open /\ mkt >= 1 /\ UNCHANGED <<file, mkt>>
<1>1. PosInv /\ ReplayType /\ LoopInv /\ BooksInv /\ open /\ mkt >= 1 /\ Latency \in Nat
      /\ CloseBefore \in Nat
  BY BacktestAssumption
  DEF BtInv, LoopInv, settle, force_close, close_on_reason, end_of_loop
<1>2. Opens \in Nat /\ Resolves \in Nat /\ at \in Nat
      /\ \A t \in Replayed(mkt) : t \in DOMAIN file /\ t <= Resolves
  BY <1>1, MarketNow DEF ReplayType
<1>3. CASE settle \/ (end_of_loop /\ open)
  <2>1. do_close(Resolves, TRUE) /\ pc' = "next" /\ UNCHANGED at
    BY <1>3 DEF settle, end_of_loop
  <2>2. \/ pc = "tick" /\ at >= Resolves
        \/ pc = "end"
    <3>1. (pc = "tick" /\ t_rem <= 0) \/ pc = "end"
      BY <1>3, Zenon DEF settle, end_of_loop
    <3> QED  BY <1>2, <3>1 DEF t_rem
  <2>3. Opens <= Resolves
        /\ \A t \in DOMAIN file : ~(Resolves - CloseBefore <= t /\ t < Resolves)
    BY <1>1, <2>2, GapAtEnd
  <2>4. /\ PosInv' /\ TradeInv' /\ ExpiredNeedsGap' /\ BooksInv'
        /\ ~open' /\ exposure' = 0 /\ size' = 0 /\ UNCHANGED <<file, mkt>>
    BY <1>1, <1>2, <2>1, <2>3, CloseEffect
  <2>5. Windows' = Windows
    BY <2>4, TimesStay
  <2>6. LoopInv' /\ ReplayType'
    BY <1>1, <2>1, <2>4, <2>5 DEF LoopInv, ReplayType
  <2> QED  BY <1>1, <2>4, <2>6 DEF BtInv
<1>4. CASE force_close \/ close_on_reason
  <2>1. do_close(at + Latency, FALSE) /\ advance /\ pc \in {"tick", "close"} /\ Resolves - at > 0
    <3>1. do_close(at + Latency, FALSE) /\ advance /\ pc \in {"tick", "close"}
          /\ (t_rem > 0 \/ pc = "close")
      BY <1>4, Zenon DEF force_close, close_on_reason
    <3>2. t_rem > 0
      BY <1>1, <1>2, <3>1 DEF LoopInv, t_rem
    <3> QED  BY <3>1, <3>2 DEF t_rem
  <2>2. Opens <= at + Latency /\ at + Latency \in Nat /\ at + Latency < Resolves + Latency
    BY <1>1, <1>2, <2>1 DEF LoopInv
  <2>3. /\ PosInv' /\ TradeInv' /\ ExpiredNeedsGap' /\ BooksInv'
        /\ ~open' /\ exposure' = 0 /\ size' = 0 /\ UNCHANGED <<file, mkt>>
    BY <1>1, <2>1, <2>2, CloseEffect
  <2>4. LoopInv' /\ at' \in Nat /\ pc' \in {"tick", "end"}
    BY <1>1, <2>1, <2>3, LoopAdvances
  <2>5. Windows' = Windows
    BY <2>3, TimesStay
  <2>6. ReplayType'
    BY <1>1, <2>3, <2>4, <2>5 DEF ReplayType
  <2> QED  BY <1>1, <2>3, <2>4, <2>6 DEF BtInv
<1> QED  BY <1>3, <1>4

\* An evaluation that keeps the position moves on; one that does not closes it at
\* this tick.
LEMMA EvaluateKeeps ==
    ASSUME BtInv, NEW p \in Pnls, evaluate(p)
    PROVE  BtInv' /\ open' = open /\ UNCHANGED <<size, mkt, exposure>>
<1>1. /\ pc = "tick" /\ open /\ t_rem > CloseBefore /\ Evaluate(p)
      /\ UNCHANGED <<file, mkt, size, exposure, trade>>
  <2>1. pc = "tick" /\ open /\ ~past_deadline /\ Evaluate(p)
        /\ UNCHANGED <<file, mkt, size, exposure, trade>>
    BY DEF evaluate, entryVars
  <2>2. mkt >= 1 /\ ReplayType
    BY <2>1 DEF BtInv, LoopInv
  <2>3. t_rem \in Int /\ CloseBefore \in Nat
    BY <2>2, MarketNow, BacktestAssumption DEF t_rem, ReplayType
  <2> QED  BY <2>1, <2>3 DEF past_deadline
<1>2. PosInv' /\ open' = open
  BY <1>1, PosStep DEF BtInv, Next, Evaluate
<1>3. TradeInv' /\ ExpiredNeedsGap'
  BY <1>1, TradeStays DEF BtInv
<1>4. BooksInv' /\ Windows' = Windows
  BY <1>1, <1>2, TimesStay DEF BtInv, BooksInv
<1>5. CASE reason' = "NONE"
  <2>1. advance
    BY <1>5 DEF evaluate
  <2>2. /\ Opens <= at /\ Resolves - Opens > CloseBefore /\ Resolves - at > CloseBefore
        /\ NoneLate({t \in Replayed(mkt) : t < at})
    BY <1>1 DEF BtInv, LoopInv, t_rem, NoneLate
  <2>3. LoopInv' /\ at' \in Nat /\ pc' \in {"tick", "end"}
    BY <1>1, <2>1, <2>2, LoopAdvances DEF BtInv
  <2> QED  BY <1>1, <1>2, <1>3, <1>4, <2>3 DEF BtInv, ReplayType
<1>6. CASE reason' # "NONE"
  <2>1. pc' = "close" /\ UNCHANGED at
    BY <1>6 DEF evaluate
  <2>2. Opens' = Opens /\ Resolves' = Resolves /\ Replayed(mkt)' = Replayed(mkt)
    BY <1>1, TimesStay
  <2>3. t_rem' = t_rem
    BY <2>1, <2>2 DEF t_rem
  <2>4. LoopInv'
    BY <1>1, <1>2, <2>1, <2>2, <2>3 DEF BtInv, LoopInv, NoneLate
  <2> QED  BY <1>1, <1>2, <1>3, <1>4, <2>1, <2>4 DEF BtInv, ReplayType
<1> QED  BY <1>5, <1>6

\* An entry is made more than StopBefore, and so more than CloseBefore, before the
\* resolution, and every tick before it is earlier still.
LEMMA EnterKeeps ==
    ASSUME BtInv, NEW e \in Edges, NEW sz \in Sizes, enter(e, sz)
    PROVE  /\ BtInv' /\ ~open /\ open' /\ size' = sz /\ sz \in Nat \ {0}
           /\ exposure' = exposure + sz /\ UNCHANGED mkt /\ mkt \in 1..2 * Windows
<1>1. /\ pc = "tick" /\ ~open /\ Open(e) /\ size' = sz /\ exposure' = exposure + sz
      /\ advance /\ UNCHANGED <<file, mkt, trade>>
      /\ at >= Opens /\ t_rem > StopBefore
  BY DEF enter, may_enter
<1>2. ReplayType /\ LoopInv /\ mkt >= 1 /\ at \in Replayed(mkt) /\ exposure = 0
  BY <1>1 DEF BtInv, LoopInv, BooksInv
<1>3. Opens \in Nat /\ Resolves \in Nat /\ at \in Nat /\ mkt \in 1..2 * Windows
      /\ Replayed(mkt) \in SUBSET Nat
  BY <1>2, MarketNow
<1>4. CloseBefore \in Nat /\ StopBefore \in Nat /\ CloseBefore < StopBefore /\ sz \in Nat \ {0}
  BY BacktestAssumption
<1>5. /\ Opens <= at /\ Resolves - Opens > CloseBefore /\ Resolves - at > CloseBefore
  BY <1>1, <1>3, <1>4 DEF t_rem
<1>6. NoneLate({t \in Replayed(mkt) : t < at})
  BY <1>3, <1>4, <1>5 DEF NoneLate
<1>7. LoopInv' /\ at' \in Nat /\ pc' \in {"tick", "end"}
  BY <1>1, <1>2, <1>5, <1>6, LoopAdvances
<1>8. PosInv' /\ open'
  BY <1>1, PosStep DEF BtInv, Next, Open
<1>9. TradeInv' /\ ExpiredNeedsGap' /\ Windows' = Windows
  BY <1>1, TradeStays, TimesStay DEF BtInv
<1>10. BooksInv' /\ ReplayType'
  BY <1>1, <1>2, <1>4, <1>7, <1>8, <1>9 DEF BooksInv, ReplayType
<1> QED  BY <1>1, <1>3, <1>4, <1>7, <1>8, <1>9, <1>10 DEF BtInv

\* A step without a position: the loop goes on, leaves the market, or is done.
LEMMA IdleStepKeeps ==
    ASSUME BtInv, finish \/ pass \/ (end_of_loop /\ ~open)
    PROVE  BtInv' /\ ~open /\ ~open' /\ UNCHANGED exposure
<1>1. ~open /\ UNCHANGED <<posVars, file, mkt, size, exposure, trade>>
  BY DEF BtInv, LoopInv, finish, pass, end_of_loop, entryVars
<1>2. PosInv' /\ ~open'
  BY <1>1, PosStep DEF BtInv, posVars, vars
<1>3. TradeInv' /\ ExpiredNeedsGap' /\ BooksInv' /\ Windows' = Windows
  BY <1>1, <1>2, TradeStays, TimesStay DEF BtInv, BooksInv
<1>4. CASE finish \/ end_of_loop
  <2>1. pc' \in {"next", "done"} /\ UNCHANGED at
    BY <1>4 DEF finish, end_of_loop
  <2> QED  BY <1>1, <1>2, <1>3, <2>1 DEF BtInv, ReplayType, LoopInv
<1>5. CASE pass
  <2>1. LoopInv' /\ at' \in Nat /\ pc' \in {"tick", "end"}
    BY <1>1, <1>2, <1>5, LoopAdvances DEF pass, BtInv
  <2> QED  BY <1>1, <1>2, <1>3, <2>1 DEF BtInv, ReplayType
<1> QED  BY <1>4, <1>5

\* The inductive invariant of the replay, for every set of tick files, sizes, PnLs
\* and time limits.
THEOREM ReplayInvariance == BtSpec => []BtInv
<1>1. ASSUME BtInit PROVE BtInv
  <2>1. PosInv
    BY <1>1, PosInitially DEF BtInit
  <2>2. ~open /\ Windows \in Nat
    BY <1>1, WindowBounds DEF BtInit, Init
  <2> QED
    BY <1>1, <2>1, <2>2
    DEF BtInit, BtInv, ReplayType, LoopInv, BooksInv, TradeInv, ExpiredNeedsGap, NoTrade
<1>2. ASSUME BtInv, [BtNext]_btVars PROVE BtInv'
  <2>1. CASE UNCHANGED btVars
    <3>1. UNCHANGED <<vars, file, mkt, pc, at, size, exposure, trade>>
      BY <2>1 DEF btVars, posVars, loopVars, entryVars
    <3>2. PosInv' /\ UNCHANGED open
      BY <1>2, <3>1, PosStep DEF BtInv, vars
    <3>3. /\ Windows' = Windows /\ Opens' = Opens /\ Resolves' = Resolves
          /\ Replayed(mkt)' = Replayed(mkt)
      BY <3>1, TimesStay
    <3>4. TradeInv' /\ ExpiredNeedsGap'
      BY <1>2, <3>1, TradeStays DEF BtInv
    <3>5. t_rem' = t_rem
      BY <3>1, <3>3 DEF t_rem
    <3>6. LoopInv'
      BY <1>2, <3>1, <3>2, <3>3, <3>5 DEF BtInv, LoopInv, NoneLate
    <3> QED  BY <1>2, <3>1, <3>2, <3>3, <3>4, <3>6 DEF BtInv, ReplayType, BooksInv
  <2>2. CASE next_market \/ finish \/ pass
    BY <1>2, <2>2, NextMarketKeeps, IdleStepKeeps
  <2>3. CASE settle \/ force_close \/ close_on_reason \/ end_of_loop
    BY <1>2, <2>3, CloseStepKeeps, IdleStepKeeps
  <2>4. ASSUME NEW p \in Pnls, evaluate(p) PROVE BtInv'
    BY <1>2, <2>4, EvaluateKeeps
  <2>5. ASSUME NEW e \in Edges, NEW sz \in Sizes, enter(e, sz) PROVE BtInv'
    BY <1>2, <2>5, EnterKeeps
  <2> QED  BY <1>2, <2>1, <2>2, <2>3, <2>4, <2>5 DEF BtNext
<1> QED  BY <1>1, <1>2, PTL DEF BtSpec

\* A trade is settled at the price of the outcome only when the recording has no
\* tick between the close deadline and the resolution, whatever the ticks are.
THEOREM ExpiredOnlyInGap == BtSpec => []ExpiredNeedsGap
  BY ReplayInvariance, PTL DEF BtInv

\* The exit logic in the replay, with a fresh position manager for each market.
THEOREM ReplayExits == BtSpec => []KeptOnlyAtBoundedLoss
  BY ReplayInvariance, PTL DEF BtInv, PosInv

\* For every recording and every split the samples follow the windows, up to the
\* expiries at the split and the sales within the fill latency of it.
THEOREM SamplesFollow == BtSpec => []SamplesFollowWindows
<1>1. ASSUME BtInv PROVE SamplesFollowWindows
  <2> SUFFICES ASSUME trade # NoTrade
               PROVE  /\ InSample => Window(trade.market) < split_wnd
                      /\ OutOfSample /\ Window(trade.market) < split_wnd =>
                             trade.exit < split_us + (IF trade.expired THEN 1 ELSE Latency)
                      /\ InSample \/ OutOfSample \/ trade.exit >= t1
                      /\ ~(InSample /\ OutOfSample) /\ (FullPeriod <=> InSample \/ OutOfSample)
    BY DEF SamplesFollowWindows
  <2> DEFINE w == Window(trade.market)
  <2>1. /\ file \in TickFiles /\ trade.market \in 1..2 * Windows
        /\ trade.exit \in Nat /\ open_us(w) <= trade.exit
        /\ IF trade.expired THEN trade.exit = resolution_us(w)
           ELSE trade.exit < resolution_us(w) + Latency
    BY <1>1 DEF BtInv, ReplayType, TradeInv
  <2>2. Windows \in Nat /\ Windows > 0 /\ w \in Nat /\ w < Windows
        /\ open_us(w) \in Nat /\ FirstOpen(file) <= open_us(w)
    BY <2>1, MarketTimes
  <2>3. /\ split_wnd \in Nat /\ split_wnd <= Windows
        /\ split_us \in Nat /\ split_us = open_us(split_wnd)
        /\ t0 < split_us /\ split_us <= t1
    BY <2>1, <2>2, SplitBounds
  <2>4. t0 \in Nat /\ t1 \in Nat /\ t0 < FirstOpen(file) /\ FirstOpen(file) \in Nat
    BY <2>1, <2>2, WindowBounds
  <2>5. Latency \in Nat
    BY BacktestAssumption
  <2>0. file \in TickFiles /\ Windows > 0 /\ split_wnd \in Nat
    BY <2>1, <2>2, <2>3
  <2>6. split_wnd <= w => split_us <= open_us(w)
    BY <2>0, <2>2, <2>3, WindowsFollow
  <2>7. w + 1 <= split_wnd => resolution_us(w) <= split_us
    <3>1. w + 1 \in Nat /\ resolution_us(w) = open_us(w + 1)
      BY <2>0, <2>2, WindowsFollow, SMTT(30)
    <3>2. ASSUME NEW v \in Nat, v <= split_wnd PROVE open_us(v) <= open_us(split_wnd)
      BY <2>0, <3>2, WindowsFollow
    <3> QED  BY <2>3, <3>1, <3>2
  <2>8. resolution_us(w) \in Nat
    BY <2>1, MarketTimes
  <2> HIDE DEF w
  <2>9. InSample => w < split_wnd
    BY <2>1, <2>2, <2>3, <2>6 DEF InSample, Counted
  <2>10. w < split_wnd => trade.exit < split_us + (IF trade.expired THEN 1 ELSE Latency)
    BY <2>1, <2>2, <2>3, <2>5, <2>7, <2>8
  <2>11. t0 <= trade.exit
    BY <2>1, <2>2, <2>4
  <2>12. InSample \/ OutOfSample \/ trade.exit >= t1
    BY <2>1, <2>3, <2>4, <2>11 DEF InSample, OutOfSample, Counted
  <2>13. ~(InSample /\ OutOfSample) /\ (FullPeriod <=> InSample \/ OutOfSample)
    BY <2>1, <2>3, <2>4, <2>11 DEF InSample, OutOfSample, FullPeriod, Counted
  <2> QED  BY <2>9, <2>10, <2>12, <2>13 DEF w
<1> QED  BY <1>1, ReplayInvariance, PTL

-----------------------------------------------------------------------------
(* The replay implements the position ledger.                              *)

Booked == [m \in AllMarkets |-> IF open /\ m = mkt THEN size ELSE 0]

\* A market that is replayed is one of the ledger.
LEMMA MarketListed ==
    ASSUME ReplayType, NEW m \in 1..2 * Windows
    PROVE  m \in AllMarkets
  BY DEF ReplayType, Windows, AllMarkets

\* The replay keeps the books of one position at a time, and opens and closes them
\* as the live machines do, for every recording.
THEOREM ReplayImplementsLedger == BtSpec => ReplayBooks
<1>1. BtInit => Ledger!Init
  BY DEF BtInit, Init, Ledger!Init
<1>2. ASSUME BtInv, BtInv', [BtNext]_btVars
      PROVE  [Ledger!Next]_Ledger!ledgerVars
  <2>1. ASSUME ~open, ~open', UNCHANGED exposure PROVE UNCHANGED Ledger!ledgerVars
    BY <2>1 DEF Ledger!ledgerVars
  <2>2. CASE settle \/ force_close \/ close_on_reason \/ (end_of_loop /\ open)
    <3>1. open /\ ~open' /\ exposure' = 0 /\ UNCHANGED mkt /\ mkt >= 1
      BY <1>2, <2>2, CloseStepKeeps
    <3>2. mkt \in AllMarkets
      BY <1>2, <3>1, MarketNow, MarketListed DEF BtInv
    <3>3. size \in Nat \ {0} /\ exposure = size
      BY <1>2, <3>1, BacktestAssumption DEF BtInv, BooksInv
    <3>4. Booked[mkt] = size /\ Booked' = [Booked EXCEPT ![mkt] = 0]
      BY <3>2, <3>1, <3>3 DEF Booked
    <3>5. Booked[mkt] > 0 /\ exposure' = exposure - Booked[mkt]
          /\ (IF open THEN 1 ELSE 0)' = (IF open THEN 1 ELSE 0) - 1
      BY <3>1, <3>3, <3>4
    <3>6. PICK k \in AllMarkets : k = mkt
      BY <3>2
    <3>7. Ledger!Close(k)
      BY <3>4, <3>5, <3>6, Zenon DEF Ledger!Close, Booked
    <3>8. Ledger!Next
      BY <3>6, <3>7 DEF Ledger!Next
    <3> QED  BY <3>8
  <2>3. ASSUME NEW e \in Edges, NEW sz \in Sizes, enter(e, sz)
        PROVE  Ledger!Next
    <3>1. /\ ~open /\ open' /\ size' = sz /\ sz \in Nat \ {0}
          /\ exposure' = exposure + sz /\ UNCHANGED mkt /\ mkt \in 1..2 * Windows
      BY <1>2, <2>3, EnterKeeps
    <3>2. mkt \in AllMarkets
      BY <1>2, <3>1, MarketListed DEF BtInv
    <3>3. Booked[mkt] = 0 /\ Booked' = [Booked EXCEPT ![mkt] = sz]
      BY <3>1, <3>2 DEF Booked
    <3>4. (IF open THEN 1 ELSE 0)' = (IF open THEN 1 ELSE 0) + 1
      BY <3>1
    <3>5. Ledger!Open(mkt, sz)
      BY <3>1, <3>3, <3>4, Zenon DEF Ledger!Open, Booked
    <3> QED  BY <3>2, <3>5 DEF Ledger!Next
  <2>4. ASSUME NEW p \in Pnls, evaluate(p)
        PROVE  UNCHANGED Ledger!ledgerVars
    <3>1. open' = open /\ UNCHANGED <<size, mkt, exposure>>
      BY <1>2, <2>4, EvaluateKeeps
    <3> QED  BY <3>1 DEF Ledger!ledgerVars
  <2>5. CASE next_market
    <3>1. ~open /\ ~open' /\ UNCHANGED exposure
      BY <1>2, <2>5 DEF next_market, BtInv, LoopInv
    <3> QED  BY <2>1, <3>1
  <2>6. CASE finish \/ pass \/ (end_of_loop /\ ~open)
    BY <1>2, <2>1, <2>6, IdleStepKeeps
  <2>7. CASE UNCHANGED btVars
    BY <2>7 DEF btVars, posVars, vars, loopVars, entryVars, Ledger!ledgerVars
  <2> QED  BY <1>2, <2>2, <2>3, <2>4, <2>5, <2>6, <2>7 DEF BtNext
<1> QED  BY <1>1, <1>2, ReplayInvariance, PTL DEF BtSpec, ReplayBooks, Ledger!Spec

=============================================================================
