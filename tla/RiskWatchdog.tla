---------------------------- MODULE RiskWatchdog ----------------------------
(***************************************************************************)
(* risk::RiskWatchdog, thread 4, behind the feeds and the signal thread:   *)
(* every 500 ms it records btc_mid in a circular buffer and looks for a    *)
(* move within the last 60 s.  Time advances in units of 500 ms, and an    *)
(* entry carries its age, which stays once it has left the window.         *)
(* What trip() does to the machines is in BotLifecycle.                    *)
(***************************************************************************)
EXTENDS BayesianEngine, FiniteSets

CONSTANTS
    BufSize,        \* BTC_BUF_N
    Window,         \* CB_BTC_SPIKE_WINDOW_S, in units
    SpikePermille   \* CB_BTC_SPIKE_THRESHOLD, in thousandths

\* 256 entries hold the 121 samples a window of 60 s can have.
ASSUME WatchAssumption ==
    /\ BufSize \in Nat /\ Window \in Nat /\ SpikePermille \in Nat
    /\ BufSize > Window

VARIABLES
    btc_buf,     \* btc_buf_: price and age of a sample
    btc_read,    \* btc_read_
    btc_write,   \* btc_write_
    btc_count,   \* btc_count_
    slept,       \* the 500 ms sleep is over
    tripped,     \* tripped_, and SharedState::kill_switch
    samples,     \* history: the samples of the last Window units
    disturbed    \* history: the market price has moved, or a Binance book had one
                 \*   side only

bufVars == <<btc_buf, btc_read, btc_write, btc_count>>
watchVars == <<bufVars, slept, tripped, samples>>
allVars == <<price, engineVars, watchVars, disturbed>>

Slots == 0..(BufSize - 1)

WatchInit ==
    /\ EngineInit
    /\ btc_buf = [i \in Slots |-> [price |-> 0, age |-> Window + 1]]
    /\ btc_read = 0 /\ btc_write = 0 /\ btc_count = 0
    /\ slept = TRUE
    /\ tripped = FALSE
    /\ samples = {}
    /\ disturbed = FALSE

-----------------------------------------------------------------------------
\* A state of the buffer.
Buf == [buf |-> btc_buf, read |-> btc_read, write |-> btc_write, count |-> btc_count]

\* Writes the newest entry; a full buffer loses its oldest.
record_btc(b, p) ==
    [buf |-> [b.buf EXCEPT ![b.write] = [price |-> p, age |-> 0]],
     write |-> (b.write + 1) % BufSize,
     count |-> IF b.count < BufSize THEN b.count + 1 ELSE b.count,
     read |-> IF b.count < BufSize THEN b.read ELSE (b.read + 1) % BufSize]

\* The i-th oldest entry.
Entry(b, i) == b.buf[(b.read + i) % BufSize]

\* Mutant: an entry exactly as old as the window goes too.
StaleEntriesEarly(b) ==
    Cardinality({i \in 0..(b.count - 1) : \A j \in 0..i : Entry(b, j).age >= Window})

\* How many of the oldest entries the eviction loop drops.
StaleEntries(b) ==
    Cardinality({i \in 0..(b.count - 1) : \A j \in 0..i : Entry(b, j).age > Window})

\* The eviction of check_btc_spike, which needs two entries to begin with.
Evicted(b) ==
    IF b.count < 2 THEN b
    ELSE [buf |-> b.buf, write |-> b.write,
          read |-> (b.read + StaleEntries(b)) % BufSize,
          count |-> b.count - StaleEntries(b)]

\* (hi - lo) / lo > threshold for two of the given prices.
Spread(prices) ==
    \E lo, hi \in prices : lo > 0 /\ (hi - lo) * 1000 > SpikePermille * lo

\* check_btc_spike on the buffer b after the eviction.
Spike(b) ==
    b.count >= 2 /\ Spread({Entry(b, i).price : i \in 0..(b.count - 1)})

\* run() and evaluate(), one iteration.  The loss streak, the NAV drawdown and
\* the margin floor never trip: no code writes consecutive_losses, and
\* bankroll_usdc keeps the value main() gives it before the threads start.
evaluate ==
    /\ slept /\ ~tripped
    /\ LET recorded == IF btc_mid > 0 THEN record_btc(Buf, btc_mid) ELSE Buf
           b == Evicted(recorded)
       IN /\ btc_buf' = b.buf /\ btc_read' = b.read
          /\ btc_write' = b.write /\ btc_count' = b.count
          /\ tripped' = Spike(b)
    /\ samples' = IF btc_mid > 0 THEN samples \cup {[price |-> btc_mid, age |-> 0]}
                  ELSE samples
    /\ slept' = FALSE
    /\ UNCHANGED <<price, engineVars, disturbed>>

\* 500 ms pass; a thread that is late may miss evaluations.
AdvanceTime ==
    /\ slept' = TRUE
    /\ btc_buf' = [i \in Slots |->
                     IF btc_buf[i].age > Window THEN btc_buf[i]
                     ELSE [btc_buf[i] EXCEPT !.age = btc_buf[i].age + 1]]
    /\ samples' = {[e EXCEPT !.age = e.age + 1] : e \in {x \in samples : x.age < Window}}
    /\ UNCHANGED <<price, engineVars, btc_read, btc_write, btc_count, tripped,
                   disturbed>>

\* A Binance book in the buffer whose mid is not the market price.
OneSidedBook ==
    \E k \in 1..Len(ring) :
        ring[k].tick.source = "BINANCE" /\ ring[k].tick.mid \notin {0, 2 * price}

WatchNext ==
    \/ evaluate
    \/ AdvanceTime
    \/ /\ EngineNext
       /\ disturbed' = (disturbed \/ price' # price \/ OneSidedBook')
       /\ UNCHANGED watchVars

WatchSpec == WatchInit /\ [][WatchNext]_allVars

-----------------------------------------------------------------------------
\* The indices of the circular buffer agree: the entries counted from the
\* oldest one end where the next one is written.
IndicesAgree ==
    /\ btc_count \in 0..BufSize
    /\ btc_write = (btc_read + btc_count) % BufSize

\* An evaluation trips exactly when two of the mids sampled within the window
\* differ by more than the threshold: no wrap, overwriting or eviction of the
\* buffer hides a move, and no entry that has left the window makes one up.
TripsOnSpikeOnly ==
    [][evaluate => (tripped' <=> Spread({e.price : e \in samples'}))]_allVars

\* At a market price that does not move nothing trips the breaker, whatever ticks
\* are lost, delayed or sampled again, except a Binance book with an empty side:
\* parse_binance_depth gives it half the price as the mid: it passes for a crash.
FalseTripNeedsOneSidedBook == tripped => disturbed
=============================================================================
