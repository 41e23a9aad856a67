-------------------------- MODULE PositionManager --------------------------
(***************************************************************************)
(* execution::PositionManager as the order state machine drives it: a      *)
(* position is opened with its expected profit, evaluated on every tick    *)
(* against the current combined PnL until evaluate() gives a reason to     *)
(* leave, and closed after that (or earlier, by a deadline or a flatten).  *)
(* Amounts are integers (micro-USDC); the thresholds are products with     *)
(* -1.5, 0.5 and 0.7 rounded to the nearest unit, halves away from zero.   *)
(***************************************************************************)
EXTENDS Integers

CONSTANTS Pnls,     \* combined PnL values the market data can give
          Edges     \* initial_edge_value of the entries

ASSUME AmountAssumption == Pnls \subseteq Int /\ Edges \subseteq Nat

VARIABLES open, edge, peak, trailing,   \* open_, data_, peak_pnl_, trailing_active_
          reason,   \* what the last evaluate() of this position returned
          pnl       \* the PnL it saw

vars == <<open, edge, peak, trailing, reason, pnl>>

\* Amount::from_double(x * n / d) for a whole number x of units, d even.
Rounded(x, n, d) ==
    IF x * n >= 0 THEN (x * n + d \div 2) \div d
    ELSE -((d \div 2 - x * n) \div d)

HardStop(e)      == Rounded(e, -3, 2)    \* HARD_STOP_MULTIPLE = -1.5
Trigger(e)       == Rounded(e, 1, 2)     \* TRAILING_PROFIT_TRIGGER = 0.5
TrailingFloor(p) == Rounded(p, 7, 10)    \* 1 - TRAILING_STOP_FRACTION = 0.7

Init ==
    /\ open = FALSE /\ edge = 0 /\ peak = 0 /\ trailing = FALSE
    /\ reason = "NONE" /\ pnl = 0

Open(e) ==
    /\ ~open
    /\ open' = TRUE /\ edge' = e /\ peak' = 0 /\ trailing' = FALSE
    /\ reason' = "NONE" /\ pnl' = 0

Close ==
    /\ open
    /\ open' = FALSE /\ peak' = 0 /\ trailing' = FALSE
    /\ UNCHANGED <<edge, reason, pnl>>

-----------------------------------------------------------------------------
\* trailing_active_ and peak_pnl_ after the trailing-stop update for PnL p.
Arms(p) == trailing \/ p >= Trigger(edge)
NewPeak(p) == IF Arms(p) /\ p > peak THEN p ELSE peak

\* Mutant: without the hard stop.
ReasonNoHardStop(p) ==
    IF Arms(p) /\ NewPeak(p) > 0 /\ p < TrailingFloor(NewPeak(p)) THEN "TRAILING_STOP"
    ELSE IF p >= 0 THEN "EARLY_EXIT"
    ELSE "NONE"

Reason(p) ==
    IF p < HardStop(edge) THEN "HARD_STOP"
    ELSE IF Arms(p) /\ NewPeak(p) > 0 /\ p < TrailingFloor(NewPeak(p)) THEN "TRAILING_STOP"
    ELSE IF p >= 0 THEN "EARLY_EXIT"
    ELSE "NONE"

\* evaluate(): the hard stop returns before the trailing state is touched.
\* The machine evaluates a position only until it is told to leave.
Evaluate(p) ==
    /\ open /\ reason = "NONE"
    /\ pnl' = p
    /\ reason' = Reason(p)
    /\ trailing' = IF p < HardStop(edge) THEN trailing ELSE Arms(p)
    /\ peak' = IF p < HardStop(edge) THEN peak ELSE NewPeak(p)
    /\ UNCHANGED <<open, edge>>

Next == Close \/ (\E e \in Edges : Open(e)) \/ (\E p \in Pnls : Evaluate(p))

Spec == Init /\ [][Next]_vars

-----------------------------------------------------------------------------
PositionTypeOK ==
    /\ open \in BOOLEAN /\ trailing \in BOOLEAN
    /\ edge \in Nat /\ peak \in Int /\ pnl \in Int
    /\ reason \in {"NONE", "HARD_STOP", "TRAILING_STOP", "EARLY_EXIT"}

\* A position that an evaluation keeps is at a loss, and not beyond the hard
\* stop: winners are always closed at once.
KeptOnlyAtBoundedLoss ==
    open /\ reason = "NONE" => pnl <= 0 /\ pnl >= HardStop(edge) /\ ~trailing

=============================================================================
