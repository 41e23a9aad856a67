--------------------------- MODULE BacktestRunner ---------------------------
(***************************************************************************)
(* The bt-runner tool: it finds the five-minute windows of a recorded tick *)
(* file, replays an above and a below market for each of them through the  *)
(* PositionManager, one market after the other, and reports the trades by  *)
(* sample.                                                                 *)
(*                                                                         *)
(* A tick file is a function from the times of its ticks to their sources. *)
(* Every Binance tick has a mid.  Whether the signal asks for an entry, of *)
(* which size and edge, and the PnL an evaluation sees are free choices;   *)
(* prices, the outcome of a market and the bankroll, which only scale the  *)
(* sizes and the PnL, are left out.                                        *)
(***************************************************************************)
EXTENDS PositionManager, FiniteSetsExt

CONSTANTS TickFiles,      \* the tick files, with times above 0
          Sizes,          \* kelly_size_usdc of an entry, in lots
          Duration,       \* MARKET_DURATION_US
          Warmup,         \* WARMUP_US
          StopBefore,     \* no entry within 120 s of the resolution
          CloseBefore,    \* HEDGE_CLOSE_BEFORE_EXPIRY_S
          Interval,       \* MIN_TAKER_INTERVAL_S
          Latency,        \* FILL_LATENCY_US
          SampleTenths    \* --sample-frac, in tenths

ASSUME BacktestAssumption ==
    /\ Duration \in Nat \ {0} /\ Warmup \in Nat /\ StopBefore \in Nat
    /\ CloseBefore \in Nat /\ Interval \in Nat /\ Latency \in Nat
    /\ Sizes \subseteq Nat \ {0} /\ SampleTenths \in 0..10
    /\ Latency < CloseBefore /\ CloseBefore < StopBefore
    /\ \A f \in TickFiles : DOMAIN f \subseteq Nat \ {0} /\ IsFiniteSet(DOMAIN f)

VARIABLES
    file,          \* the sorted ticks
    mkt,           \* market being replayed, from 1; odd: above, even: below
    pc,            \* "next" market, "tick", "close", "end" of the loop, "done"
    at,            \* time of the current tick
    entries_stopped, last_entry,
    e_us, size,    \* the open trade: entry time and USDC lots
    exposure,
    trade          \* the last Trade recorded

posVars == vars
loopVars == <<file, mkt, pc, at>>
entryVars == <<entries_stopped, last_entry, e_us, size>>
btVars == <<posVars, loopVars, entryVars, exposure, trade>>

-----------------------------------------------------------------------------
(* detect_markets                                                          *)

Binance(f) == {t \in DOMAIN f : f[t] = "BINANCE"}

\* The first boundary after the first tick.
FirstOpen(f) == (Min(Binance(f)) \div Duration + 1) * Duration

\* Windows that resolve by the last Binance tick; each opens after the first
\* one, so its strike is known.
WindowsOf(f) ==
    IF Binance(f) = {} THEN 0
    ELSE Max({0, (Max(Binance(f)) - FirstOpen(f)) \div Duration})

Windows          == WindowsOf(file)
open_us(w)       == FirstOpen(file) + w * Duration
resolution_us(w) == open_us(w) + Duration
Window(m)        == (m - 1) \div 2       \* markets come in pairs
Opens            == open_us(Window(mkt))
Resolves         == resolution_us(Window(mkt))

\* The first window that is not in the sample, by number of windows.
split_wnd == (SampleTenths * Windows) \div 10
split_us  == IF split_wnd < Windows THEN open_us(split_wnd)
             ELSE resolution_us(Windows - 1)

-----------------------------------------------------------------------------
NoTrade == [market |-> 0, entry |-> 0, exit |-> 0, expired |-> FALSE]

BtInit ==
    /\ Init
    /\ file \in TickFiles
    /\ mkt = 0 /\ pc = "next" /\ at = 0
    /\ entries_stopped = FALSE /\ last_entry = 0 /\ e_us = 0 /\ size = 0
    /\ exposure = 0
    /\ trade = NoTrade

\* The ticks from the warm-up to the resolution of market m, both included.
Replayed(m) ==
    {t \in DOMAIN file :
        open_us(Window(m)) - Warmup <= t /\ t <= resolution_us(Window(m))}

\* main(): the two binary searches, then replay_market with a fresh engine and
\* a fresh PositionManager.
next_market ==
    /\ pc = "next" /\ mkt < 2 * Windows
    /\ mkt' = mkt + 1
    /\ IF Replayed(mkt') = {} THEN UNCHANGED <<pc, at>>
       ELSE pc' = "tick" /\ at' = Min(Replayed(mkt'))
    /\ open' = FALSE /\ edge' = 0 /\ peak' = 0 /\ trailing' = FALSE
    /\ reason' = "NONE" /\ pnl' = 0
    /\ entries_stopped' = FALSE /\ last_entry' = 0 /\ e_us' = 0 /\ size' = 0
    /\ UNCHANGED <<file, exposure, trade>>

\* No tick, no window, or every market replayed.
finish ==
    /\ pc = "next" /\ mkt = 2 * Windows
    /\ pc' = "done"
    /\ UNCHANGED <<posVars, file, mkt, at, entryVars, exposure, trade>>

-----------------------------------------------------------------------------
(* replay_market                                                           *)

t_rem == Resolves - at

\* Mutant: the deadline itself is too early.
past_deadline_strict == t_rem < CloseBefore

past_deadline == t_rem <= CloseBefore

advance ==
    LET later == {t \in Replayed(mkt) : t > at} IN
    IF later = {} THEN pc' = "end" /\ UNCHANGED at
    ELSE pc' = "tick" /\ at' = Min(later)

\* Mutant: the exposure of a closed trade stays.
do_close_keeps_exposure(exit_us, expired) ==
    /\ Close
    /\ trade' = [market |-> mkt, entry |-> e_us, exit |-> exit_us, expired |-> expired]
    /\ size' = 0
    /\ UNCHANGED <<exposure, file, mkt, entries_stopped, last_entry, e_us>>

do_close(exit_us, expired) ==
    /\ Close
    /\ trade' = [market |-> mkt, entry |-> e_us, exit |-> exit_us, expired |-> expired]
    /\ exposure' = Max({0, exposure - size})
    /\ size' = 0
    /\ UNCHANGED <<file, mkt, entries_stopped, last_entry, e_us>>

\* A tick at the resolution settles the position and ends the loop.
settle ==
    /\ pc = "tick" /\ open /\ t_rem <= 0
    /\ do_close(Resolves, TRUE)
    /\ pc' = "next" /\ UNCHANGED at

force_close ==
    /\ pc = "tick" /\ open /\ t_rem > 0 /\ past_deadline
    /\ do_close(at + Latency, FALSE)
    /\ advance

evaluate(p) ==
    /\ pc = "tick" /\ open /\ t_rem > 0 /\ ~past_deadline
    /\ Evaluate(p)
    /\ IF reason' = "NONE" THEN advance ELSE pc' = "close" /\ UNCHANGED at
    /\ UNCHANGED <<file, mkt, entryVars, exposure, trade>>

close_on_reason ==
    /\ pc = "close"
    /\ do_close(at + Latency, FALSE)
    /\ advance

may_enter ==
    /\ file[at] = "BINANCE" /\ at >= Opens
    /\ ~entries_stopped /\ t_rem > StopBefore
    /\ last_entry > 0 => at - last_entry >= Interval

enter(e, sz) ==
    /\ pc = "tick" /\ ~open /\ may_enter
    /\ Open(e)
    /\ e_us' = at + Latency /\ size' = sz
    /\ last_entry' = at
    /\ exposure' = exposure + sz
    /\ advance
    /\ UNCHANGED <<file, mkt, entries_stopped, trade>>

\* No entry on this tick: the regime, the edge, the size or the quote is against
\* it, or the tick is of no use for one.
pass ==
    /\ pc = "tick" /\ ~open
    /\ entries_stopped' = \/ entries_stopped
                          \/ file[at] = "BINANCE" /\ at >= Opens /\ t_rem <= StopBefore
    /\ advance
    /\ UNCHANGED <<posVars, file, mkt, last_entry, e_us, size, exposure, trade>>

\* The ticks are used up: an open position is settled.
end_of_loop ==
    /\ pc = "end"
    /\ pc' = "next" /\ UNCHANGED at
    /\ IF open THEN do_close(Resolves, TRUE)
       ELSE UNCHANGED <<posVars, file, mkt, entryVars, exposure, trade>>

BtNext ==
    \/ next_market \/ finish \/ settle \/ force_close \/ close_on_reason
    \/ pass \/ end_of_loop
    \/ \E p \in Pnls : evaluate(p)
    \/ \E e \in Edges, sz \in Sizes : enter(e, sz)

BtSpec == BtInit /\ [][BtNext]_btVars

-----------------------------------------------------------------------------
(* daily_sharpe counts the trades that leave in a range of times           *)

\* Mutant: the range includes its end.
CountedThrough(from, to) == from <= trade.exit /\ trade.exit <= to

Counted(from, to) == from <= trade.exit /\ trade.exit < to

\* The ranges main() reports on.
t0 == Min(DOMAIN file)
t1 == Max(DOMAIN file)
InSample    == Counted(t0, split_us)
OutOfSample == Counted(split_us, t1)
FullPeriod  == Counted(t0, t1)

-----------------------------------------------------------------------------
\* The replay keeps the books the live machines keep: one position at a time,
\* no position left when a market ends, and the exposure of the open one.
AllMarkets == UNION {1..2 * WindowsOf(f) : f \in TickFiles}
Ledger == INSTANCE PositionLedger WITH
    Markets  <- AllMarkets,
    held     <- [m \in AllMarkets |-> IF open /\ m = mkt THEN size ELSE 0],
    count    <- IF open THEN 1 ELSE 0
ReplayBooks == Ledger!Spec

\* A trade is recorded as expired, at the price of the outcome, only when the
\* recording has no tick in the last 30 s of the market: every other position is
\* sold at the deadline.
ExpiredNeedsGap ==
    trade.expired =>
        \A t \in DOMAIN file :
            ~ /\ resolution_us(Window(trade.market)) - CloseBefore <= t
              /\ t < resolution_us(Window(trade.market))

\* The samples are cut by exit time, the split by window.  A trade of a window
\* behind the split never counts as in-sample.  One of a window before it counts
\* as out-of-sample only when it expired at the split or was sold within the
\* fill latency of it.  Every trade counts once, and one that counts nowhere left
\* at or after the last tick.
SamplesFollowWindows ==
    trade # NoTrade =>
        /\ InSample => Window(trade.market) < split_wnd
        /\ OutOfSample /\ Window(trade.market) < split_wnd =>
               trade.exit < split_us + (IF trade.expired THEN 1 ELSE Latency)
        /\ InSample \/ OutOfSample \/ trade.exit >= t1
        /\ ~(InSample /\ OutOfSample) /\ (FullPeriod <=> InSample \/ OutOfSample)
=============================================================================
