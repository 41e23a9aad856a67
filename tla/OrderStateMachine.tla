------------------------- MODULE OrderStateMachine -------------------------
(***************************************************************************)
(* The per-market order state machines (execution::OrderStateMachine), one *)
(* thread per market, with the taker arm, the maker arm and the position   *)
(* book they own, sharing open_position_count and total_exposure_usdc.     *)
(*                                                                         *)
(* One step is one evaluate() of one machine, except that                  *)
(* handle_taker_eval is split where it matters: the exposure is read       *)
(* before TakerArm::fire and the result is booked after its HTTP calls.    *)
(* The exchanges are external: an order's fate is chosen from the          *)
(* outcomes the clients can report, yes and btc record what the accounts   *)
(* really hold.  Money is counted in lots of 100 USDC, hedges in units of  *)
(* 0.00001 BTC.                                                            *)
(***************************************************************************)
EXTENDS Integers, FiniteSets

CONSTANTS
    Markets,      \* markets with a machine
    MaxOpen,      \* MAX_OPEN_POSITIONS
    MaxTrade,     \* MAX_TRADE_USDC, in lots
    MaxTotal,     \* MAX_TOTAL_EXPOSURE_USDC, in lots
    MakerSize,    \* MAX_MAKER_QUOTE_USDC, in lots
    Hedges,       \* quantities hedge_btc_qty can return, in units
    PartialFills, \* quantities a partial execution of a hedge order can have
    Signals,      \* which entry signals the market data gives
    Faults,       \* which unhappy outcomes the exchanges give
    Controls,     \* which of stop, flatten, notify the other threads call
    Horizon,      \* bound: the phase at which the clock of a run ends
    MaxEdges,     \* bound: times the taker edge appears in one market
    MaxCloses,    \* bound: close orders counted, and matched, per position
    MaxStray,     \* bound: orders counted per side whose id was dropped
    MaxYes        \* bound: quote fills stop at this net position

FaultKinds == {"rejected", "no_reply", "unmatched", "hedge_unfilled",
               "hedge_partial", "hedge_lost", "cancel_lost"}

ASSUME SizeAssumption ==
    /\ MaxOpen \in Nat \ {0} /\ MaxTrade \in Nat \ {0}
    /\ MaxTotal \in Nat \ {0} /\ MakerSize \in Nat \ {0}

ASSUME HedgeAssumption == Hedges \subseteq Nat /\ PartialFills \subseteq Nat

ASSUME BoundAssumption ==
    /\ MaxEdges \in Nat /\ MaxCloses \in Nat \ {0}
    /\ MaxStray \in Nat /\ MaxYes \in Nat

ASSUME ChoiceAssumption ==
    /\ Signals \subseteq {"taker", "maker"}
    /\ Faults \subseteq FaultKinds
    /\ Controls \subseteq {"stop", "flatten", "notify"}
    /\ Horizon \in 0..6

ASSUME MarketsFinite == IsFiniteSet(Markets)

VARIABLES
    st,           \* state_
    pc,           \* where run() is: "loop", "eval", "fire" or "done"
    pos,          \* pos_mgr_: the open position, NoPosition when none
    flags,        \* the lifecycle flags that are set
    close,        \* what the exchange will answer for close_poly_order_id_
    cooldown,     \* taker_arm_.in_cooldown()
    snap,         \* the exposure handle_taker_eval read
    quotes,       \* fate of the order whose id the maker arm holds, per side
    stray,        \* live orders per side whose id was dropped
    count,        \* SharedState::open_position_count
    exposure,     \* SharedState::total_exposure_usdc
    phase,        \* how far the clock is towards resolution
    stop,         \* stop_flag_
    flatten,      \* flatten_flag_
    yes,          \* YES lots the Polymarket account really gained
    btc,          \* hedge units the Coinbase account is really short
    closes,       \* close orders submitted for the current position
    edges         \* times the taker edge appeared

machineVars == <<st, pc, pos, flags, close, cooldown, snap>>
quoteVars   == <<quotes, stray>>
sharedVars  == <<count, exposure>>
controlVars == <<phase, stop, flatten>>
accountVars == <<yes, btc, closes>>
vars == <<machineVars, quoteVars, sharedVars, controlVars, accountVars, edges>>

-----------------------------------------------------------------------------
(* Data                                                                    *)

States == {"IDLE", "TAKER_EVAL", "MAKER_QUOTED", "POSITION_OPEN", "CLOSING"}
Sides  == {"bid", "ask"}

\* The lifecycle deadlines, at T-120s, T-45s, T-30s, T-10s, by the phase that
\* starts there.  Phase 5 starts at T, phase 6 at T+60s.
Deadlines == {"entries_stopped", "quotes_cancelled", "positions_closed",
              "force_closed"}
Due == [entries_stopped |-> 1, quotes_cancelled |-> 2,
        positions_closed |-> 3, force_closed |-> 4]
Expired == 5
Gone    == 6

HedgeLot   == 100   \* 0.001 BTC, the smallest hedge order
NoPosition == [size |-> 0, hedge |-> 0]
NoQuotes   == [s \in Sides |-> "none"]

IsOpen(m) == pos[m].size > 0

Capped(n, cap) == IF n > cap THEN cap ELSE n

Init ==
    /\ st = [m \in Markets |-> "IDLE"]
    /\ pc = [m \in Markets |-> "loop"]
    /\ pos = [m \in Markets |-> NoPosition]
    /\ flags = [m \in Markets |-> {}]
    /\ close = [m \in Markets |-> "none"]
    /\ cooldown = [m \in Markets |-> FALSE]
    /\ snap = [m \in Markets |-> 0]
    /\ quotes = [m \in Markets |-> NoQuotes]
    /\ stray = [m \in Markets |-> [s \in Sides |-> 0]]
    /\ count = 0
    /\ exposure = 0
    /\ phase = [m \in Markets |-> 0]
    /\ stop = [m \in Markets |-> FALSE]
    /\ flatten = [m \in Markets |-> FALSE]
    /\ yes = [m \in Markets |-> 0]
    /\ btc = [m \in Markets |-> 0]
    /\ closes = [m \in Markets |-> 0]
    /\ edges = [m \in Markets |-> 0]

-----------------------------------------------------------------------------
(* The exchanges, as the clients report them                               *)

\* ClobClient::submit_order of an immediate order for q lots: success, whether
\* an order id came back, and how many lots really matched.
IocOutcomes(q) ==
    {[ok |-> TRUE, id |-> TRUE, matched |-> q]}
    \cup (IF "unmatched" \in Faults
          THEN [ok : {TRUE}, id : {TRUE}, matched : 0..q] ELSE {})
    \cup (IF "rejected" \in Faults
          THEN [ok : {FALSE}, id : BOOLEAN, matched : {0}] ELSE {})
    \cup (IF "no_reply" \in Faults
          THEN [ok : BOOLEAN, id : {FALSE}, matched : {0, q}] ELSE {})

\* fmt_qty: the quantity of an order is cut to three decimals.
FmtQty(q) == q - (q % HedgeLot)

\* CoinbaseClient::submit_order of q units with its poll_fill: the executed
\* quantity it reports (0 on failure) and the one that really executed.
HedgeOutcomes(q) ==
    {[exec |-> FmtQty(q), actual |-> FmtQty(q)]}
    \cup (IF "hedge_unfilled" \in Faults THEN {[exec |-> 0, actual |-> 0]} ELSE {})
    \cup (IF "hedge_partial" \in Faults
          THEN {[exec |-> k, actual |-> k] : k \in PartialFills \cap (1..FmtQty(q))}
          ELSE {})
    \cup (IF "hedge_lost" \in Faults THEN {[exec |-> 0, actual |-> FmtQty(q)]} ELSE {})

\* coinbase_filled: 99 % of the quantity asked for, before it was cut.
HedgeFilled(exec, q) == 100 * exec >= 99 * q

\* Sides whose cancel request in cancel_all may leave the order live.
LostCancels(q) ==
    IF "cancel_lost" \in Faults THEN SUBSET {s \in Sides : q[s] = "live"} ELSE {{}}

\* What MakerArm::quote can leave behind after its cancel_all: the orders that
\* are live, those of them whose id is held, and the value it returns.  Nothing
\* is submitted when the price is too close to 0 or 1.
QuoteResults ==
    {r \in [ok : BOOLEAN, live : SUBSET Sides, ids : SUBSET Sides] :
        /\ r.ids \subseteq r.live
        /\ r.ids # {} => r.ok
        /\ r.ok => r.live # {}
        /\ "rejected" \notin Faults => r.live \in {{}, Sides}
        /\ "no_reply" \notin Faults => r.ids = r.live}

-----------------------------------------------------------------------------
(* MakerArm                                                                *)

StrayAfter(m, left) ==
    [stray EXCEPT ![m] = [s \in Sides |->
        IF s \in left THEN Capped(stray[m][s] + 1, MaxStray) ELSE stray[m][s]]]

\* MakerArm::quote from held orders q: cancel_all, then submit both sides.
\* "left" are the sides where a live order is now without an id.
QuoteFrom(q) ==
    {[ok     |-> r.ok,
      quotes |-> [s \in Sides |-> IF s \in r.ids THEN "live" ELSE "none"],
      left   |-> lost \cup (r.live \ r.ids)] :
        lost \in LostCancels(q), r \in QuoteResults}

\* MakerArm::manage from held orders q: the status it returns, the orders held
\* afterwards and the sides left live without an id.  A status request that
\* gets no answer looks like an order that is not filled.
Manage(q) ==
    {[status |-> "TIMED_OUT", quotes |-> NoQuotes, left |-> lost] :
        lost \in LostCancels(q)}
    \cup {[status |-> IF r.ok THEN "REPRICED" ELSE "TIMED_OUT",
           quotes |-> r.quotes, left |-> r.left] : r \in QuoteFrom(q)}
    \cup {[status |-> "ACTIVE", quotes |-> q, left |-> {}]}
    \cup (IF q["bid"] = "filled"
          THEN {[status |-> "FILLED_BID", quotes |-> NoQuotes,
                 left |-> {s \in {"ask"} : q[s] = "live"}]} ELSE {})
    \cup (IF q["ask"] = "filled"
          THEN {[status |-> "FILLED_ASK", quotes |-> NoQuotes,
                 left |-> {s \in {"bid"} : q[s] = "live"}]} ELSE {})

-----------------------------------------------------------------------------
(* Booking a position                                                      *)

\* pos_mgr_.open, fetch_add on exposure and count.
BookOpen(m, size, hedge) ==
    /\ pos' = [pos EXCEPT ![m] = [size |-> size, hedge |-> hedge]]
    /\ exposure' = exposure + size
    /\ count' = count + 1
    /\ closes' = [closes EXCEPT ![m] = 0]

\* Mutants: pos_mgr_.close() or the clearing of the close order ids is forgotten.
BookCloseKeepsPosition(m) ==
    /\ exposure' = exposure - pos[m].size
    /\ count' = count - 1
    /\ close' = [close EXCEPT ![m] = "none"]
    /\ UNCHANGED pos
BookCloseKeepsId(m) ==
    /\ pos' = [pos EXCEPT ![m] = NoPosition]
    /\ exposure' = exposure - pos[m].size
    /\ count' = count - 1
    /\ UNCHANGED close

\* The release shared by both branches of handle_closing.
BookClose(m) ==
    /\ pos' = [pos EXCEPT ![m] = NoPosition]
    /\ exposure' = exposure - pos[m].size
    /\ count' = count - 1
    /\ close' = [close EXCEPT ![m] = "none"]

\* Bound: the exchanges fill at most MaxCloses close orders of a position, n of
\* which they have seen; later ones find nothing left and are cancelled.
CloseOutcomes(size, n) ==
    IF n < MaxCloses THEN IocOutcomes(size)
    ELSE {[ok |-> TRUE, id |-> TRUE, matched |-> 0]}
CloseHedges(hedge, n) ==
    IF n < MaxCloses /\ hedge >= HedgeLot THEN HedgeOutcomes(hedge)
    ELSE {[exec |-> 0, actual |-> 0]}

\* Mutants: the hedge is not closed; the machine does not move to CLOSING.
SubmitCloseNoHedge(m, p, n) ==
    \E o \in CloseOutcomes(p.size, n) :
        /\ st' = [st EXCEPT ![m] = "CLOSING"]
        /\ close' = [close EXCEPT ![m] = IF o.id THEN "filled" ELSE "none"]
        /\ closes' = [closes EXCEPT ![m] = Capped(n + 1, MaxCloses)]
        /\ yes' = [yes EXCEPT ![m] = yes[m] - o.matched]
        /\ UNCHANGED btc
SubmitCloseNoTransition(m, p, n) ==
    \E o \in CloseOutcomes(p.size, n), h \in CloseHedges(p.hedge, n) :
        /\ closes' = [closes EXCEPT ![m] = Capped(n + 1, MaxCloses)]
        /\ yes' = [yes EXCEPT ![m] = yes[m] - o.matched]
        /\ btc' = [btc EXCEPT ![m] = btc[m] - h.actual]
        /\ UNCHANGED <<st, close>>

\* The orders of close_position for an open position p: an IOC SELL of its
\* shares and, when its hedge is not below the smallest order, a closing hedge
\* order whose result is not looked at.  The id that is kept is the last one, empty if none came back.
SubmitClose(m, p, n) ==
    \E o \in CloseOutcomes(p.size, n), h \in CloseHedges(p.hedge, n) :
        /\ st' = [st EXCEPT ![m] = "CLOSING"]
        /\ close' = [close EXCEPT ![m] = IF ~o.id THEN "none"
                                        ELSE IF o.matched = p.size THEN "filled"
                                        ELSE "cancelled"]
        /\ closes' = [closes EXCEPT ![m] = Capped(n + 1, MaxCloses)]
        /\ yes' = [yes EXCEPT ![m] = yes[m] - o.matched]
        /\ btc' = [btc EXCEPT ![m] = btc[m] - h.actual]

\* Mutant: the early return for a machine without a position is missing.
close_position_unguarded(m) == SubmitClose(m, pos[m], closes[m])

close_position(m) ==
    IF IsOpen(m) THEN SubmitClose(m, pos[m], closes[m])
    ELSE /\ st' = [st EXCEPT ![m] = "IDLE"]
         /\ UNCHANGED <<close, accountVars>>

-----------------------------------------------------------------------------
(* run() and evaluate()                                                    *)

\* Mutant: without the internal fallback triggers.
LatchedByScannerOnly(m) == flags[m]

\* The flags evaluate() sees after latching the deadlines that have passed.
Latched(m) == flags[m] \cup {d \in Deadlines : phase[m] >= Due[d]}

\* evaluate() runs: at the loop head neither flag is seen, or the flatten
\* request of this iteration has just been served.
InEvaluate(m) ==
    \/ pc[m] = "eval"
    \/ pc[m] = "loop" /\ ~stop[m] /\ ~flatten[m]

\* evaluate() reaches the handler of state s.
Dispatch(m, s) ==
    /\ InEvaluate(m)
    /\ phase[m] < Expired
    /\ st[m] = s
    /\ flags' = [flags EXCEPT ![m] = Latched(m)]

\* The handler ends the iteration of run().
NextIteration(m) == pc' = [pc EXCEPT ![m] = "loop"]

run_stop(m) ==
    /\ pc[m] = "loop" /\ stop[m]
    /\ pc' = [pc EXCEPT ![m] = "done"]
    /\ UNCHANGED <<st, pos, flags, close, cooldown, snap, quoteVars, sharedVars,
                   controlVars, accountVars, edges>>

\* Mutant: the request is served but never acknowledged.
run_flatten_keeps_flag(m) ==
    /\ pc[m] = "loop" /\ ~stop[m] /\ flatten[m]
    /\ close_position(m)
    /\ pc' = [pc EXCEPT ![m] = "eval"]
    /\ UNCHANGED <<pos, flags, cooldown, snap, quoteVars, sharedVars, controlVars,
                   edges>>

run_flatten(m) ==
    /\ pc[m] = "loop" /\ ~stop[m] /\ flatten[m]
    /\ close_position(m)
    /\ flatten' = [flatten EXCEPT ![m] = FALSE]
    /\ pc' = [pc EXCEPT ![m] = "eval"]
    /\ UNCHANGED <<pos, flags, cooldown, snap, quoteVars, sharedVars, phase,
                   stop, edges>>

\* After resolution: an open position is closed on every tick, the state
\* handlers never run again, and run() leaves at T+60s once no position is open.
evaluate_expired(m) ==
    /\ InEvaluate(m)
    /\ phase[m] >= Expired
    /\ flags' = [flags EXCEPT ![m] = Latched(m)]
    /\ IF IsOpen(m) THEN close_position(m)
       ELSE UNCHANGED <<st, close, accountVars>>
    /\ pc' = [pc EXCEPT ![m] =
                IF phase[m] >= Gone /\ ~IsOpen(m) THEN "done" ELSE "loop"]
    /\ UNCHANGED <<pos, cooldown, snap, quoteVars, sharedVars, controlVars, edges>>

-----------------------------------------------------------------------------
(* The state handlers                                                      *)

\* Mutant: entries_stopped_ is not looked at.
MayEnterLate(m) == count < MaxOpen

MayEnter(m) == "entries_stopped" \notin Latched(m) /\ count < MaxOpen

\* edge >= e_min && !in_cooldown(), in a market whose data still shows an edge.
TakerEdge(m) == "taker" \in Signals /\ ~cooldown[m] /\ edges[m] < MaxEdges

StayIdle(m) == UNCHANGED <<st, close, accountVars, quoteVars, edges>>

IdleToTaker(m) ==
    /\ MayEnter(m)
    /\ TakerEdge(m)
    /\ st' = [st EXCEPT ![m] = "TAKER_EVAL"]
    /\ edges' = [edges EXCEPT ![m] = edges[m] + 1]
    /\ UNCHANGED <<close, accountVars, quoteVars>>

IdleToMaker(m) ==
    /\ MayEnter(m)
    /\ "quotes_cancelled" \notin Latched(m)
    /\ "maker" \in Signals
    /\ \E r \in QuoteFrom(quotes[m]) :
        /\ quotes' = [quotes EXCEPT ![m] = r.quotes]
        /\ stray' = StrayAfter(m, r.left)
        /\ st' = IF r.ok THEN [st EXCEPT ![m] = "MAKER_QUOTED"] ELSE st
    /\ UNCHANGED <<close, accountVars, edges>>

handle_idle(m) ==
    /\ Dispatch(m, "IDLE")
    /\ IF IsOpen(m) THEN close_position(m) /\ UNCHANGED <<quoteVars, edges>>
       ELSE StayIdle(m) \/ IdleToTaker(m) \/ IdleToMaker(m)
    /\ NextIteration(m)
    /\ UNCHANGED <<pos, cooldown, snap, sharedVars, controlVars>>

\* handle_taker_eval up to the call of fire(): the exposure is read here.
taker_eval_begin(m) ==
    /\ Dispatch(m, "TAKER_EVAL")
    /\ snap' = [snap EXCEPT ![m] = exposure]
    /\ pc' = [pc EXCEPT ![m] = "fire"]
    /\ UNCHANGED <<st, pos, close, cooldown, quoteVars, sharedVars, controlVars,
                   accountVars, edges>>

\* Mutant: the room left under the total cap is forgotten.
TakerSizesNoTotalCap(m) == 1..MaxTrade

\* Sizes kelly_size_usdc can return, capped per trade and by the room that was
\* left when the exposure was read.
TakerSizes(m) == {s \in 1..MaxTrade : s <= MaxTotal - snap[m]}

\* SKIPPED, and ERROR before any order is sent.
fire_nothing(m) ==
    /\ st' = [st EXCEPT ![m] = "IDLE"]
    /\ UNCHANGED <<pos, sharedVars, accountVars, cooldown>>

\* ERROR: the Polymarket submission was not confirmed.
fire_error(m) ==
    \E size \in TakerSizes(m) : \E o \in IocOutcomes(size) :
        /\ ~o.ok
        /\ st' = [st EXCEPT ![m] = "IDLE"]
        /\ yes' = [yes EXCEPT ![m] = yes[m] + o.matched]
        /\ UNCHANGED <<pos, sharedVars, btc, closes, cooldown>>

\* Hedge quantities fire() goes on with; below the smallest order it is SKIPPED.
HedgeSizes == {q \in Hedges : q >= HedgeLot}

\* Mutant: the unwind order keeps the side of the entry.
fire_leg_fail_buys(m) ==
    \E size \in TakerSizes(m), q \in HedgeSizes :
    \E o \in IocOutcomes(size), u \in IocOutcomes(size), h \in HedgeOutcomes(q) :
        /\ o.ok /\ o.id /\ ~HedgeFilled(h.exec, q)
        /\ st' = [st EXCEPT ![m] = "IDLE"]
        /\ yes' = [yes EXCEPT ![m] = yes[m] + o.matched + u.matched]
        /\ btc' = [btc EXCEPT ![m] = btc[m] + h.actual]
        /\ UNCHANGED <<pos, sharedVars, closes, cooldown>>

\* LEG_FAIL: poly_filled and coinbase_filled are not both true; the leg that
\* counts as filled is unwound by one order whose result is not looked at.
fire_leg_fail(m) ==
    \E size \in TakerSizes(m), q \in HedgeSizes :
    \E o \in IocOutcomes(size), h \in HedgeOutcomes(q) :
        /\ o.ok
        /\ ~(o.id /\ HedgeFilled(h.exec, q))
        /\ st' = [st EXCEPT ![m] = "IDLE"]
        /\ IF o.id
           THEN \E u \in {x \in IocOutcomes(size) : x.matched \in {0, size}} :
                yes' = [yes EXCEPT ![m] = yes[m] + o.matched - u.matched]
           ELSE yes' = [yes EXCEPT ![m] = yes[m] + o.matched]
        /\ IF ~o.id /\ HedgeFilled(h.exec, q)
           THEN \E c \in HedgeOutcomes(h.exec) :
                btc' = [btc EXCEPT ![m] = btc[m] + h.actual - c.actual]
           ELSE btc' = [btc EXCEPT ![m] = btc[m] + h.actual]
        /\ UNCHANGED <<pos, sharedVars, closes, cooldown>>

\* SUCCESS: both legs count as filled.
fire_success(m) ==
    \E size \in TakerSizes(m), q \in HedgeSizes :
    \E o \in IocOutcomes(size), h \in HedgeOutcomes(q) :
        /\ o.ok /\ o.id
        /\ HedgeFilled(h.exec, q)
        /\ BookOpen(m, size, h.exec)
        /\ st' = [st EXCEPT ![m] = "POSITION_OPEN"]
        /\ cooldown' = [cooldown EXCEPT ![m] = TRUE]
        /\ yes' = [yes EXCEPT ![m] = yes[m] + o.matched]
        /\ btc' = [btc EXCEPT ![m] = btc[m] + h.actual]

taker_eval_end(m) ==
    /\ pc[m] = "fire"
    /\ fire_nothing(m) \/ fire_error(m) \/ fire_leg_fail(m) \/ fire_success(m)
    /\ NextIteration(m)
    /\ snap' = [snap EXCEPT ![m] = 0]
    /\ UNCHANGED <<flags, close, quoteVars, controlVars, edges>>

\* Mutant: the T-30s and T-10s branches return without closing.
handle_position_open_no_deadline(m) ==
    /\ Dispatch(m, "POSITION_OPEN")
    /\ \/ /\ Latched(m) \cap {"force_closed", "positions_closed"} = {}
          /\ close_position(m)
       \/ UNCHANGED <<st, close, accountVars>>
    /\ NextIteration(m)
    /\ UNCHANGED <<pos, cooldown, snap, quoteVars, sharedVars, controlVars, edges>>

\* handle_position_open: closes at the T-30s and T-10s deadlines, otherwise
\* whenever PositionManager::evaluate gives a reason.
handle_position_open(m) ==
    /\ Dispatch(m, "POSITION_OPEN")
    /\ \/ close_position(m)
       \/ /\ Latched(m) \cap {"force_closed", "positions_closed"} = {}
          /\ UNCHANGED <<st, close, accountVars>>
    /\ NextIteration(m)
    /\ UNCHANGED <<pos, cooldown, snap, quoteVars, sharedVars, controlVars, edges>>

\* handle_late_fill: an unhedged position, closed at once at break-even or held.
handle_late_fill(m) ==
    LET late == [size |-> MakerSize, hedge |-> 0] IN
    /\ pos' = [pos EXCEPT ![m] = late]
    /\ exposure' = exposure + MakerSize
    /\ count' = count + 1
    /\ \/ SubmitClose(m, late, 0)
       \/ /\ st' = [st EXCEPT ![m] = "POSITION_OPEN"]
          /\ closes' = [closes EXCEPT ![m] = 0]
          /\ UNCHANGED <<close, yes, btc>>

Filled(r) == r.status \in {"FILLED_BID", "FILLED_ASK"}

\* T-45s: cancel_all, one manage() on the orders still held, then IDLE.
QuotedDeadline(m) ==
    /\ "quotes_cancelled" \in Latched(m)
    /\ \E lost \in LostCancels(quotes[m]), r \in Manage(NoQuotes) :
        /\ quotes' = [quotes EXCEPT ![m] = r.quotes]
        /\ stray' = StrayAfter(m, lost \cup r.left)
        /\ IF Filled(r) THEN handle_late_fill(m)
           ELSE /\ st' = [st EXCEPT ![m] = "IDLE"]
                /\ UNCHANGED <<pos, sharedVars, close, accountVars>>
    /\ UNCHANGED edges

\* Mutant: the quotes are not cancelled before the taker entry.
QuotedToTakerKeepsQuotes(m) ==
    /\ "quotes_cancelled" \notin Latched(m)
    /\ TakerEdge(m)
    /\ st' = [st EXCEPT ![m] = "TAKER_EVAL"]
    /\ edges' = [edges EXCEPT ![m] = edges[m] + 1]
    /\ UNCHANGED <<pos, sharedVars, close, accountVars, quoteVars>>

\* The taker edge is back: cancel_all and go for the taker entry.
QuotedToTaker(m) ==
    /\ "quotes_cancelled" \notin Latched(m)
    /\ TakerEdge(m)
    /\ \E lost \in LostCancels(quotes[m]) : stray' = StrayAfter(m, lost)
    /\ quotes' = [quotes EXCEPT ![m] = NoQuotes]
    /\ st' = [st EXCEPT ![m] = "TAKER_EVAL"]
    /\ edges' = [edges EXCEPT ![m] = edges[m] + 1]
    /\ UNCHANGED <<pos, sharedVars, close, accountVars>>

QuotedManage(m) ==
    /\ "quotes_cancelled" \notin Latched(m)
    /\ \E r \in Manage(quotes[m]) :
        /\ quotes' = [quotes EXCEPT ![m] = r.quotes]
        /\ stray' = StrayAfter(m, r.left)
        /\ IF Filled(r)
           THEN /\ BookOpen(m, MakerSize, 0)
                /\ st' = [st EXCEPT ![m] = "POSITION_OPEN"]
                /\ UNCHANGED <<yes, btc>>
           ELSE /\ st' = IF r.status = "TIMED_OUT"
                         THEN [st EXCEPT ![m] = "IDLE"] ELSE st
                /\ UNCHANGED <<pos, sharedVars, accountVars>>
    /\ UNCHANGED <<close, edges>>

handle_maker_quoted(m) ==
    /\ Dispatch(m, "MAKER_QUOTED")
    /\ QuotedDeadline(m) \/ QuotedToTaker(m) \/ QuotedManage(m)
    /\ NextIteration(m)
    /\ UNCHANGED <<cooldown, snap, controlVars>>

\* handle_closing: without an order id the position is released at once, with
\* one it is released when the order is reported filled or cancelled.
handle_closing(m) ==
    /\ Dispatch(m, "CLOSING")
    /\ \/ /\ BookClose(m)
          /\ st' = [st EXCEPT ![m] = "IDLE"]
       \/ /\ close[m] # "none"
          /\ UNCHANGED <<st, pos, sharedVars, close>>
    /\ NextIteration(m)
    /\ UNCHANGED <<cooldown, snap, quoteVars, controlVars, accountVars, edges>>

-----------------------------------------------------------------------------
(* The other threads, the clock and the book                               *)

\* notify_*: the scanner's lifecycle callback for a deadline that has passed.
notify(m, d) ==
    /\ "notify" \in Controls
    /\ phase[m] >= Due[d]
    /\ d \notin flags[m]
    /\ flags' = [flags EXCEPT ![m] = flags[m] \cup {d}]
    /\ UNCHANGED <<st, pc, pos, close, cooldown, snap, quoteVars, sharedVars,
                   controlVars, accountVars, edges>>

emergency_flatten(m) ==
    /\ "flatten" \in Controls
    /\ flatten' = [flatten EXCEPT ![m] = TRUE]
    /\ UNCHANGED <<machineVars, quoteVars, sharedVars, phase, stop, accountVars, edges>>

stop_machine(m) ==
    /\ "stop" \in Controls
    /\ stop' = [stop EXCEPT ![m] = TRUE]
    /\ UNCHANGED <<machineVars, quoteVars, sharedVars, phase, flatten, accountVars, edges>>

AdvanceTime(m) ==
    /\ phase[m] < Horizon
    /\ phase' = [phase EXCEPT ![m] = phase[m] + 1]
    /\ UNCHANGED <<machineVars, quoteVars, sharedVars, stop, flatten, accountVars, edges>>

CooldownEnds(m) ==
    /\ cooldown[m]
    /\ cooldown' = [cooldown EXCEPT ![m] = FALSE]
    /\ UNCHANGED <<st, pc, pos, flags, close, snap, quoteVars, sharedVars,
                   controlVars, accountVars, edges>>

\* YES lots after a resting order on side s trades.
AfterFill(m, s) == IF s = "bid" THEN yes[m] + MakerSize ELSE yes[m] - MakerSize

FillQuote(m, s) ==
    /\ quotes[m][s] = "live"
    /\ AfterFill(m, s) \in -MaxYes..MaxYes
    /\ quotes' = [quotes EXCEPT ![m][s] = "filled"]
    /\ yes' = [yes EXCEPT ![m] = AfterFill(m, s)]
    /\ UNCHANGED <<machineVars, stray, sharedVars, controlVars, btc, closes, edges>>

FillStray(m, s) ==
    /\ stray[m][s] > 0
    /\ AfterFill(m, s) \in -MaxYes..MaxYes
    /\ stray' = [stray EXCEPT ![m][s] = stray[m][s] - 1]
    /\ yes' = [yes EXCEPT ![m] = AfterFill(m, s)]
    /\ UNCHANGED <<machineVars, quotes, sharedVars, controlVars, btc, closes, edges>>

-----------------------------------------------------------------------------
\* One step of the machine's own thread.
Thread(m) ==
    \/ run_stop(m)
    \/ run_flatten(m)
    \/ evaluate_expired(m)
    \/ handle_idle(m)
    \/ taker_eval_begin(m)
    \/ taker_eval_end(m)
    \/ handle_position_open(m)
    \/ handle_maker_quoted(m)
    \/ handle_closing(m)

Outside(m) ==
    \/ \E d \in Deadlines : notify(m, d)
    \/ emergency_flatten(m)
    \/ stop_machine(m)
    \/ AdvanceTime(m)
    \/ CooldownEnds(m)
    \/ \E s \in Sides : FillQuote(m, s) \/ FillStray(m, s)

Next == \E m \in Markets : Thread(m) \/ Outside(m)

Spec == Init /\ [][Next]_vars

\* Every machine has its own thread, which keeps running, and the clock moves.
Fairness ==
    \A m \in Markets : WF_vars(Thread(m)) /\ WF_vars(AdvanceTime(m))

FairSpec == Spec /\ Fairness

-----------------------------------------------------------------------------
(* Properties                                                              *)

TypeOK ==
    /\ st \in [Markets -> States]
    /\ pc \in [Markets -> {"loop", "eval", "fire", "done"}]
    /\ pos \in [Markets -> [size : Nat, hedge : Nat]]
    /\ flags \in [Markets -> SUBSET Deadlines]
    /\ close \in [Markets -> {"none", "filled", "cancelled"}]
    /\ cooldown \in [Markets -> BOOLEAN]
    /\ snap \in [Markets -> Int]
    /\ quotes \in [Markets -> [Sides -> {"none", "live", "filled"}]]
    /\ stray \in [Markets -> [Sides -> Nat]]
    /\ count \in Int
    /\ exposure \in Int
    /\ phase \in [Markets -> 0..Gone]
    /\ stop \in [Markets -> BOOLEAN]
    /\ flatten \in [Markets -> BOOLEAN]
    /\ yes \in [Markets -> Int]
    /\ btc \in [Markets -> Int]
    /\ closes \in [Markets -> Nat]
    /\ edges \in [Markets -> Nat]

\* A position is booked exactly in the two states that look after one, so the
\* "somehow IDLE with a stale open position" branch of handle_idle never runs
\* and no entry path overwrites a position.
BookedIffOpen ==
    \A m \in Markets : IsOpen(m) <=> st[m] \in {"POSITION_OPEN", "CLOSING"}

\* A taker entry is only fired from TAKER_EVAL, outside the cooldown, and a
\* close order id is only held while CLOSING: flatten requests, deadlines and
\* expiry that cut into the middle of an entry or a close do not break this.
OrdersMatchState ==
    \A m \in Markets :
        /\ pc[m] = "fire" => st[m] = "TAKER_EVAL"
        /\ st[m] = "TAKER_EVAL" => ~cooldown[m]
        /\ close[m] # "none" => st[m] = "CLOSING"

\* open_position_count, which gates entries in every market, is the number of
\* markets with an open position: no path books twice or releases twice.
CountIsOpen == count = Cardinality({m \in Markets : IsOpen(m)})

\* total_exposure_usdc, which caps the size of every entry, is the sum of the
\* sizes of the open positions, counted lot by lot.
BookedLots == UNION {{m} \X (1..pos[m].size) : m \in Markets}
ExposureIsBooked == exposure = Cardinality(BookedLots)

\* The books of all the machines together implement the position ledger.
Ledger == INSTANCE PositionLedger WITH
             held <- [m \in Markets |-> pos[m].size],
             Sizes <- 1..(MaxTrade + MakerSize)
Books == Ledger!Spec

\* A second close order for the same position is only sent on a flatten
\* request or after resolution: the ordinary exits never sell twice.
ClosedOnce ==
    [][\A m \in Markets :
          closes'[m] > closes[m] /\ closes[m] > 0
              => flatten[m] \/ phase[m] >= Expired]_vars

\* Lots and hedge units the accounts should hold for m.
Live(m) == IF st[m] = "POSITION_OPEN" THEN pos[m] ELSE NoPosition

\* Hedges that are lost in the cut to three decimals: fully executed, they still
\* do not count as filled.
CutShort == {q \in HedgeSizes : ~HedgeFilled(FmtQty(q), q)}

\* With working exchanges and taker entries only, every step changes the
\* accounts by exactly what it changes in the books, with two exceptions: another
\* close order for a position that already has one, and an entry whose hedge is
\* cut short, which is taken for a failed leg: its shares are sold again, and the
\* hedge that was executed stays in the account with nothing in the books.
AccountsFollowBooks ==
    [][\A m \in Markets :
          (closes[m] > 0 /\ closes'[m] > closes[m])
          \/ /\ yes'[m] - yes[m] = Live(m)'.size - Live(m).size
             /\ \/ btc'[m] - btc[m] = Live(m)'.hedge - Live(m).hedge
                \/ /\ pc[m] = "fire" /\ st'[m] = "IDLE"
                   /\ btc'[m] - btc[m] \in {FmtQty(q) : q \in CutShort}]_vars

\* A taker entry that fails, with orders that match in part, reports that are
\* lost and unwind orders nobody looks at, books nothing and leaves in each account
\* at most what one trade can hold: no unwind doubles a leg, and no hedge is
\* turned round.
FailedEntryBounded ==
    [][\A m \in Markets :
          pc[m] = "fire" /\ st'[m] = "IDLE" =>
              /\ pos'[m] = pos[m] /\ count' = count /\ exposure' = exposure
              /\ yes'[m] - yes[m] \in -MaxTrade..MaxTrade
              /\ \E q \in Hedges \cup {0} : btc'[m] - btc[m] \in 0..FmtQty(q)]_vars

\* The maker arm is left holding order ids outside MAKER_QUOTED only by a
\* flatten request or at the T-45s deadline.
QuotesLeftBehind ==
    [][\A m \in Markets :
          (/\ st[m] = "MAKER_QUOTED" \/ quotes[m] = NoQuotes
           /\ st'[m] # "MAKER_QUOTED" /\ quotes'[m] # NoQuotes)
              => flatten[m] \/ "quotes_cancelled" \in flags'[m]]_vars

\* After T-120s a machine can still start a taker entry, but only one that was
\* quoting, and only before T-45s; it never quotes anew from IDLE.
LateEntryOnlyFromQuotes ==
    [][\A m \in Markets :
          ("entries_stopped" \in flags'[m] /\ st'[m] # st[m]) =>
              /\ st'[m] # "MAKER_QUOTED"
              /\ st'[m] = "TAKER_EVAL" =>
                    st[m] = "MAKER_QUOTED" /\ "quotes_cancelled" \notin flags'[m]]_vars

\* At most one taker entry waits for the exchanges.
FiresAlone == \A m, k \in Markets : pc[m] = "fire" /\ pc[k] = "fire" => m = k

\* The cap on the total exposure, MAX_TOTAL_EXPOSURE_USDC, is tested against a
\* reading that other machines make stale while fire() waits for the exchanges.
\* Taker entries exceed it only where two of them wait at once: closes, flattens
\* and deadlines during the wait, and entries one after the other, do not.
CapNeedsOverlap ==
    "maker" \notin Signals /\ []FiresAlone => [](exposure <= MaxTotal)

\* Past T-30s a position does not stay in POSITION_OPEN: the machine submits a
\* close, whatever the exit conditions say, unless its thread is stopped.
ClosedBeforeResolution ==
    \A m \in Markets :
        (st[m] = "POSITION_OPEN" /\ phase[m] >= Due["positions_closed"])
            ~> (st[m] # "POSITION_OPEN" \/ pc[m] = "done")

\* A flatten request is served, unless the thread has ended or is stopped.
FlattenServed ==
    \A m \in Markets : flatten[m] ~> (~flatten[m] \/ pc[m] = "done")

\* Every machine eventually stops taking on risk for good.
EntriesEnd ==
    \A m \in Markets : <>[](st[m] \notin {"TAKER_EVAL", "MAKER_QUOTED", "POSITION_OPEN"}
                              \/ pc[m] = "done")

(* What the comments promise and the code does not give.                   *)

\* order_state_machine.hpp: "IDLE - no position, no quotes".
IdleHoldsNothing ==
    \A m \in Markets : st[m] = "IDLE" =>
        yes[m] = 0 /\ btc[m] = 0 /\ quotes[m] = NoQuotes

=============================================================================
