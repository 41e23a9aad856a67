# Verification of the Polymarket BTC 5-minute bot

TLA+ models of the trading core of this repository, TLC configurations that
check them on small instances, and TLAPS proofs of the properties that matter
most for instances of any size. Source paths below are relative to the
repository root (`src/execution/...`, `constants.hpp`).

## 1. The system

| Component | Source | State | Operations |
|---|---|---|---|
| Order state machine (one thread per market) | `src/execution/order_state_machine.*` | `state_`, lifecycle flags, stop and flatten flags, close order ids | `run`, `evaluate`, the `handle_*` of each state, `close_position`, `notify_*`, `emergency_flatten`, `stop` |
| Taker arm | `src/execution/taker_arm.*` | time of the last entry | `fire` (two-leg entry), `in_cooldown` |
| Maker arm | `src/execution/maker_arm.*` | order ids of the two quotes, quote time and prices | `quote`, `cancel_all`, `manage` |
| Position manager | `src/execution/position_manager.*`, `src/types/amount.hpp` | the position, peak PnL, trailing flag | `open`, `close`, `evaluate` |
| Sizing | `src/risk/sizing.hpp` | none | `kelly_size_usdc`, `hedge_btc_qty` |
| Exchange clients | `src/execution/clob_client.*`, `coinbase_client.*` | none | submit, cancel, status |
| Nonce manager | `src/wallet/nonce_manager.*` | one atomic counter | `sync`, `next`, `force_resync` |
| Tick ring buffer | `src/data/ring_buffer.hpp` | slots, two free-running counters | `push`, `pop` |
| Feed manager (thread 1) | `src/data/feed_manager.*`, `tick.hpp` | per-source receive times, fault levels and thin-book counters | three connection coroutines, fault monitor, message dispatch, `push_tick` |
| Bayesian engine (thread 2) | `src/signal/*` | prior, last mids, volatility window | pop a tick, `process_tick`, `run_bayesian_update` into `SharedState` |
| Market scanner (thread) | `src/data/market_scanner.*` | `markets_` with lifecycle flags | `scan_once`, `check_lifecycle` |
| Risk watchdog (thread 4) | `src/risk/watchdog.*` | price buffer, NAV window, tripped | `evaluate`, `trip` |
| main | `src/main.cpp` | `osm_map`, threads, `g_shutdown` | start-up, loop, `sync_osms_with_scanner`, shutdown |
| Wallet start-up | `src/wallet/key_manager.*`, `clob_auth.*` | the key, the API credentials | `load`, `authenticate` |
| Likelihood | `src/signal/likelihood.*` | none | `compute_likelihood`, `student_t_cdf` |
| Tick recorder (tool) | `tools/tick_recorder/main.cpp` | two shutdown flags, the file | feed thread, drain thread, main |
| Backtest runner (tool) | `tools/bt_runner/main.cpp` | ticks, exposure, one position, trades | `detect_markets`, `replay_market`, `daily_sharpe` |
| Rest of wallet, infra | `src/wallet`, `src/infra` | heartbeat, log, metrics | signing, output |

How they interact. Thread 1 pushes ticks into the ring buffer, thread 2 pops
them and writes the atomics of `SharedState`. Every machine reads those, enters
and leaves positions through its own HTTP clients, and adds to or subtracts from
two atomics shared by all machines, `open_position_count` and
`total_exposure_usdc`. The scanner calls machines back at T-120s, T-45s, T-30s
and T-10s through `osm_map` under `osm_map_mu`; the watchdog sets `kill_switch`
and calls `emergency_flatten` on every machine under the same mutex; main
creates and joins the machines under it.

What is hard: entries of several machines that check a shared limit before a
long HTTP call and book after it; orders whose answer is lost, that match in
part, or that fill between two polls; flatten requests, deadlines and resolution
that cut into an entry or a close; joins under a mutex that callbacks need;
deadlines that pass between two 30 s polls; a counter that a restart loses; feeds
that fall silent, deliver half a book or never connect; a circular buffer that
is overwritten and evicted from the same indices; a drain thread that tests a
flag and a buffer one after the other; an API key that is created and whose
answer is lost.
`PROJECT.json` lists each of these hazards at its line with the properties that
would catch it going wrong.

## 2. Modules

| Module | Models | Kind |
|---|---|---|
| `OrderStateMachine` | machine, taker arm, maker arm, shared counters, the exchanges' side of the orders | specification |
| `PositionLedger` | what the books of all machines promise | abstract specification |
| `OrderStateMachine_proofs` | | proofs |
| `BotLifecycle` | main, scanner, watchdog, composed with `OrderStateMachine` | composition |
| `BotLifecycle_proofs` | the process, and the machines inside it | proofs |
| `PositionManager` | exit rules of a position | specification |
| `BacktestRunner`, `MCBacktestRunner`, `BacktestRunner_proofs` | the replay of a recording, composed with `PositionManager` | composition, TLC instance, proofs of both |
| `SPSCRingBuffer`, `SPSCRingBuffer_proofs` | the lock-free buffer | specification, proofs |
| `BoundedFifo` | what it promises | abstract specification |
| `TickRecorder`, `TickRecorder_proofs` | the recorder's three threads, composed with `SPSCRingBuffer` | composition, proofs |
| `NonceManager` | the nonce counter | specification |
| `WalletStartup`, `NonceManager_proofs` | key, authentication and nonce at start-up, composed with `NonceManager` | composition, proofs of both |
| `Likelihood` | the Student-t likelihood in fixed-point arithmetic | operators |
| `Ticks` | what the parsers make of a message | operators |
| `FeedManager`, `FeedManager_proofs` | connections, fault monitor and the producer side of the buffer | specification, proofs |
| `BayesianEngine` | the signal thread | specification |
| `RiskWatchdog`, `RiskWatchdog_proofs` | the price buffer and the spike breaker, composed with `BayesianEngine` | composition, proofs |

Operators whose comment starts with "Mutant" are faulty variants of the
definition that follows them: they document which mistake a property would
notice and are not part of any specification.

### OrderStateMachine

One step is one iteration of `run()`: the flatten request if there is one
(`run_flatten`), otherwise `evaluate()`, which latches the deadlines that have
passed and runs the handler of the state. The variables follow the members: `st`
is `state_`, `flags` the four lifecycle flags, `pos` the position manager's
position (0 lots when closed), `close` what the exchange will report for
`close_poly_order_id_` ("none" when there is no id), `quotes` the fate of the
orders whose ids the maker arm holds.

`handle_taker_eval` is two steps, `taker_eval_begin` and `taker_eval_end`,
because the exposure that sizes the entry is read before the HTTP calls of
`fire()` and the result is booked after them. All other handlers are one step:
what they read and write is private to the machine's thread except for the two
counters, which they only change with one `fetch_add` or `fetch_sub` each.
Booking a position changes both counters in one step although the code makes
two atomic operations: no code reads the two together.

The exchanges are external. An order's outcome is chosen from what the clients
can report, together with what really happened (`IocOutcomes`, `HedgeOutcomes`,
`LostCancels`, `QuoteResults`), and `yes` and `btc` record what the accounts
really hold. The constant `Faults` says which unhappy outcomes a run allows.
A hedge order keeps its conversion: `FmtQty` cuts the quantity to whole lots of
0.001 BTC (`HedgeLot`), that much is executed, and `HedgeFilled` compares it with
99 % of the quantity before the cut, as `fire()` does.
`yes` may be negative: a filled ask is a sale of shares the account may not have,
which the model counts as an obligation. Resting quotes can fill at any time
(`FillQuote`), also after the machine has dropped their ids (`FillStray`).

Prices, probabilities and the regime select branches only, so each branch they
select is a disjunct: the entry signals a run allows are the constant `Signals`.
Time is a phase per market: 0 before T-120s, 1..4 after T-120s, T-45s, T-30s and
T-10s, 5 after T, 6 after T+60s. Money is in lots of 100 USDC.

### BotLifecycle

Extends `OrderStateMachine`: `Machine(m)` is a step of m's thread, and the flags
other threads set are set by `fire_callback` (scanner), `flatten_all` (watchdog)
and `sync_osms`, `stop_osms` (main). main is a sequence of named program points
(`main_pc`). `osm_map_mu` is held across steps only while main joins threads
(`MapUnlocked` is false); everything else done under it is one step. `scan_now`
runs before the callbacks are registered, as in main, so a deadline that has
already passed is flagged and never called back; the machines notice it
themselves. `scan_once` may find any subset of the markets that are listed,
which covers failed requests. Which condition trips the watchdog is left open
(`trip` may happen at any time while it runs). The loops of the heartbeat and the
engine end by themselves once they are stopped; one variable, `helpers`, says
whether they have been joined. The feed thread has a variable of its own, `feed`:
after `stop()` it may end (`feed_end`) or wait for ever in a read.

`std::terminate` is part of the model. A start that fails returns with the
heartbeat thread joinable (`main_pc = "terminated"`; what makes it fail is in
`WalletStartup`). An exception that leaves the `noexcept` `scan_once`
(`scan_throws`) or the feed thread, which has no handler (`feed_throws`), ends the
process at any time with machines running (`main_pc = "aborted"`).

### PositionManager and BacktestRunner

`PositionManager` works on whole micro-USDC with the rounding of
`Amount::from_double`; the PnL of each tick is an input. A position is evaluated
only until it is told to leave, as in `handle_position_open`.

`BacktestRunner` replays a tick file through it. A file is a function from times
to sources; which windows it has, where the split falls and which ticks belong to
a market are computed as the code does. The signal, the size and the PnL of a
tick are inputs. Two tests the code makes in one loop iteration, the evaluation
and the close it asks for, are two steps, because the exit reason is what the
properties of `PositionManager` read.

### SPSCRingBuffer, TickRecorder, NonceManager, WalletStartup

`SPSCRingBuffer` makes every atomic load and store a step and copying an element
a step with a beginning and an end; a slot holds `Torn` while it is written. The
acquire and release orderings make sequentially consistent interleavings of
these steps enough. The counters wrap at `Wrap` as `size_t` wraps at 2^64.

`NonceManager` makes the query, the load and the compare-and-swap of
`force_resync` separate steps, with spurious failures. It lets every thread call
every method, which is what the proofs are about; the program calls `sync` once
and then only `next`, and `WalletStartup` takes only those.

`TickRecorder` puts the recorder's threads around the buffer. A push or pop keeps
its atomic steps; `drain_check` and `drain_empty` are the two halves of the drain
loop's condition, with the feed thread free to move between them. Of the
connections only this is kept: each may deliver one more message after `running_`
is cleared, and `run()` may return then or never (`feed_return`). `unwritten` is history: the accepted ticks that are not in the file.

`WalletStartup` follows main() through `load`, `authenticate` and `sync` into the
use of nonces. The exchange side is `clob_create` and `clob_derive`: a creation
can take effect although its answer is lost or an error. `fault` is history, set
only by what the environment does, so that `StartFailsOnlyOnFault` compares the
code's branches with it.

### Ticks, FeedManager, BayesianEngine, Likelihood, RiskWatchdog

`Ticks` keeps of a message how many levels each side of the book has (0, 1, or 2
for more) and one price; a tick is its source, twice its mid and the low-depth
flag. A mid that a parser computes from one side is computed the same way here:
half the price for a Binance depth update, the side itself for a Polymarket
delta, the last trade for Coinbase.

`FeedManager` runs on one thread, so a step is what a coroutine does between two
waits: a connect ends, a read returns and its message is dispatched, a timer
fires. `conn[s]` is where the coroutine of s waits. Receive times are ages, in a
unit that the three thresholds are multiples of. A markPrice message counts as
received and pushes nothing; one whose fields have another JSON type throws in a
`noexcept` parser and ends the process (`mark_price_throws`), where every other
broken message ends in a reconnect (`read_error`). Of the tick buffer only the
number of ticks in it is kept: what it does with them is `SPSCRingBuffer`'s.

`BayesianEngine` pops one tick per step. The posterior is any of `Posteriors`
when the early returns let it be computed (a tick past the resolution and a
vanishing normaliser are the other alternative); the volatility window is the
number of returns in it, and whether the variance is positive is open. The
token a Polymarket tick came from is history: the tick itself does not say.

`Likelihood` evaluates `compute_likelihood` on a grid of distances in fixed-point
numbers, with the continued fraction and its stopping rule as in the code. The
distance is parametrised so that no square root is needed.

`RiskWatchdog` extends `BayesianEngine` with the watchdog's circular buffer. A sample carries
its age in units of 500 ms; the samples of the window are also kept as a set,
which is the reference the buffer is compared with. The loss streak, the NAV
drawdown and the margin floor are left out because nothing in the program writes
`consecutive_losses` and `bankroll_usdc` keeps the value main() gives it: of the
four conditions only the BTC spike can ever trip. `disturbed` is history: the
market price has moved, or a Binance book with an empty side was received.

## 3. Runs

| Run | Instance and bounds | Checks |
|---|---|---|
| `books` | two markets, cap of two open positions, trades of 1 or 2 lots, total cap 3, one edge per market, hedges of 1.01 and 1.5 lots, flatten requests and callbacks, clock up to T-45s, no faults | `CapNeedsOverlap`, `Books`, `AccountsFollowBooks` |
| `machine` | one market, both arms, hedges of 1 and 1.5 lots, all faults, flatten requests, clock through T+60s | `BookedIffOpen`, `OrdersMatchState`, `FailedEntryBounded`, `ClosedOnce`, `QuotesLeftBehind`, `LateEntryOnlyFromQuotes` |
| `live` | one market, both arms, stop and flatten requests, clock up to T-10s, fair | `ClosedBeforeResolution`, `FlattenServed`, `EntriesEnd` |
| `bot` | one market through its whole life with taker entries, a start that may fail, kill switch, signal and uncaught exception at any time, fair | `ThreadHasMachine`, `OneMachinePerMarket`, `CallbacksOnceInOrder`, `RemovedMachinesJoined`, `ShutdownCompletes` |
| `wallet` | two threads, nonces up to 3, two restarts, every answer of the exchange | `StartFailsOnlyOnFault`, `IssuedOnce` |
| `feeds` | Binance and Coinbase, one slot in the buffer, two thin books in a row, thresholds 0, 1, 2, fair | `EscalationNeverLowers`, `FeedReconnects`, `DeadFeedsNoticed`, `StopEndsFeeds` |
| `signals` | BTC at 100 or 102, threshold 1.5%, strike 0 or 1, one slot in the tick buffer, a price buffer of 2 entries for a window of 1 unit | `FalseTripNeedsOneSidedBook`, `TripsOnSpikeOnly` |
| `recorder` | 2 slots, counters modulo 4, two values, two connections, fair | `SlotExclusive`, `ImplementsFifo`, `Drains`, `ClosedFileIsComplete`, `WrittenInOrder`, `RecorderEnds` |
| `backtest` | files over two windows with any subset of ticks at the open, in the entry phase, at the deadline, after it, at the resolution and beyond; edges 0 and 3, PnL -6, -5, 0, 2; split at 70% | `KeptOnlyAtBoundedLoss`, `ExpiredNeedsGap`, `SamplesFollowWindows`, `ReplayBooks` |
| `idle` | maker arm only, working exchanges | `IdleHoldsNothing` is violated |
| `token` | one price, two tokens | `MidOfOwnToken` is violated |
| `likelihood` | 20 distances on each side of the strike, 4 decimals | `LikelihoodIsProbability` is violated |

Why the bounds are enough. The books of a machine interact with other machines
only through the two counters, so two machines show every race between a check
and a booking; the invariants on the counters are proved for any number. One edge per
market (`MaxEdges`) allows one taker entry, which is also followed by quoting and
by another entry through the maker arm. Of a hedge quantity only its place between
two lots matters, within 1 % above the lower one or not: each of the two runs has
one of either kind. Two close orders per position
(`MaxCloses`) are enough to see a double sale, further ones find nothing left.
`MaxStray` and `MaxYes` bound how often forgotten quotes fill. The ring needs
`Wrap = 2N` to see both laps of the counters; both its properties are proved for
any capacity and wrap. In `backtest` a unit of time is about a minute and the fill
latency is stretched to 2 units, below the deadline's 3, so that an exit can fall
behind the resolution and behind the split; two windows with the split between
them give each window both neighbours it can have. Edge 0 puts every threshold of
the position manager at 0. In `likelihood` the rounding error stays below the
tolerance of 1%, and the violation is above 5%. In `bot` one market is enough for
every lock and join to be contended: the machine, main, the scanner and the
watchdog are four threads around one map entry. In `feeds` two exchange feeds are
what `both_cex_dead` is about; the Polymarket coroutine has the same loop and its
ticks the same fields, and the theorems cover any set of feeds. Ages beyond the
last threshold are all alike. In `signals` a buffer of 2 for at most 2 samples of
a window is the smallest that wraps, is overwritten when full and evicts; the
code's 256 entries for at most 121 samples are never full.

What the passing runs show. The books of all machines together are those of the
ledger in every interleaving: no path books over a position or releases it twice. The machine's state, its
position and the order ids agree under every fault, flatten and deadline. A
second close order for a position is only ever sent on a flatten request or
after resolution. Where the code departs from its comments, `QuotesLeftBehind`
and `LateEntryOnlyFromQuotes` bound how: quotes are left behind only by a flatten
request or the T-45s deadline, and after T-120s an entry starts only from a
machine that was quoting. The internal fallback of `evaluate()` is what makes
deadlines hold when callbacks are lost (the mutant without it breaks
`EntriesEnd`). `CapNeedsOverlap`: the exposure that limits the
size of an entry is read before its HTTP calls, so the total can exceed
`MAX_TOTAL_EXPOSURE_USDC` (`README.md`: "$400 across all open positions"), but
taker entries exceed it only where two of them wait for the exchanges at once;
closes, flattens and deadlines during the wait do no harm.
`AccountsFollowBooks`: with working exchanges the accounts move by what the books
move by, with one exception besides repeated close orders. A hedge that is not
within 1 % above a multiple of 0.001 BTC is cut short, filled completely and
taken for a failed leg: the shares are sold again and the hedge stays in the
account without a position. (With the bankroll of 200 USDC that main() sets,
`MAX_HEDGE_FRACTION` leaves 10 USDC for a hedge, so that `fire()` skips every
entry while BTC is above 10,000; the caps are parameters of the model.)
`FailedEntryBounded`: however the two legs of an entry fail and whatever becomes
of the orders that unwind them, nothing is booked and each account is off by at
most one trade; by design of the code it is not always zero.
`StartFailsOnlyOnFault`: a key whose creation was never answered does not stop
the next start, which goes on to derive it.

Tools. The recorder's file is complete and in order when it is closed, also after
an exception in the feed. It ends after a signal if the reads that are blocked
then return and `run()` has set `running_` before: `stop()` does not cancel a
read, and a signal that comes earlier can be overtaken (`run()` sets `running_`
after `stop()` cleared it). Otherwise main() waits in the join, which is why
`RecorderEnds` has the first as its hypothesis and excludes the feed thread's
first step. The backtest keeps the
ledger. It records a trade as expired only when the recording has no tick in the
last 30 s of a market. Its samples are cut by exit time while the split is by
window, so a trade of the last in-sample window counts as out-of-sample when it
leaves at the split or within the fill latency of it, and one that leaves at or
after the last tick of the recording counts nowhere (`SamplesFollowWindows`).

Feeds and signals. No failure takes a feed out for good, except a markPrice field
of the wrong type, which ends the process (`FeedReconnects`). Ticks that find the
buffer full are lost. When both exchanges fall silent `both_cex_dead` becomes true
and stays, but only if both have been heard once (`UnheardStaysNominal`, proved).
A fault level falls only by the monitor's check, never by a thin book that arrives
after a silence (`EscalationNeverLowers`). No thread reads the levels. `stop()`
ends the coroutines only if blocked reads return. The breaker trips exactly on
the mids sampled in the window; while the market price stands still, nothing but a
one-sided Binance book makes it trip (`FalseTripNeedsOneSidedBook`; a price string
that parses to 0 would do the same and is not modelled).

The process. A shutdown ends the thread of every machine and then the process,
except that main() may wait in `t1.join()` for a read on a silent connection, and
for nothing else (`ShutdownCompletes`, `WaitsForFeed`).

What the violated runs show is listed under `findings` in `PROJECT.json`, each
with the sentence of the code base it contradicts. Also met while modelling, and
modelled as they are, without a property that would call them right: a position
still open at resolution is never released, because `evaluate()` returns before
`handle_closing`; it sends a close order on every tick, and `run()` does not reach
its "Exit when the market has been resolved and all positions cleared"; the
trailing stop of `position_manager.hpp` never decides an exit, because a PnL that
arms it leaves at break-even or better in the same evaluation; the level that 30
thin books raise ("escalate to at least DEGRADED", `feed_manager.cpp`) is lost at
the monitor's next check and not raised again while the book stays thin; a restart
seeds the nonce from a transaction count that orders do not move, so nonces of
earlier orders come again where `nonce_manager.hpp` has them "monotonically
increasing and unique"; the markets the scanner finds have strike 0, without which
no posterior is computed: `p_true` stays at 0.5 and every machine trades on the
distance of the market price from 0.5; the T-45s poll for raced fills asks about ids that
`cancel_all` has just cleared (`QuotedDeadline`); a flatten request in
MAKER_QUOTED leaves the quotes on the book (`close_position`); a partly filled
hedge counts as unfilled and stays (`fire_leg_fail`); a close order reported
CANCELLED releases the position whatever it matched (`handle_closing`); the ring
holds N elements where its comment says N - 1; the watchdog records a mid that no
feed has refreshed as a fresh sample; `shared_state.hpp` says that thread 3 reads
`kill_switch` and halts, but only main() reads it, so a machine may start an
entry until main() has told it to flatten or to stop; the fault tiers are 2 s, 5 s
and 30 s where `README.md` has 2 s and 5 s; the reconnect delay ends at 25.6 s
where its comment says 30 s.

Fairness. `live`: each machine has its own OS thread in a loop with a 1 ms sleep
and HTTP calls with timeouts, so its next step is taken eventually, and the
clock moves. `bot`: the same for main, the scanner and the watchdog; nothing
makes the operator type the passphrase, the watchdog trip or a signal arrive, so
the start itself is not fair and `ShutdownCompletes` speaks of the time after it.
Nor is the end of the feed thread fair, in `bot` or in `recorder`: `stop()` clears
a flag and cancels no read, and the suggested client timeout of the websocket
library has no idle timeout. `recorder`: the three threads keep running; nothing
makes a message or a signal arrive. `feeds`: thread 1 serves its timers, time
passes, and connects neither hang nor fail for ever; nothing makes a message
arrive. That a blocked read returns is a hypothesis of `StopEndsFeeds` and
`RecorderEnds`, written into them, and `stop()` is taken to come after `run()` has
begun, as in main(). Deadlock checking is off where the
system really stops: a machine whose thread has ended at the end of its market's
clock, the nonce counter at its bound, a process that has exited, a backtest that
is done. In `feeds` and `signals` it is on.

## 4. Proofs

All for any set of markets or threads, any sizes and bounds that satisfy the
named assumptions of the modules.

- `OrderStateMachine_proofs`. `Inv` is `TypeOK /\ BookedIffOpen /\
  OrdersMatchState`, and it is inductive as it stands; one lemma per action.
  `BookedIffOpen` needs `OrdersMatchState` because booking a taker entry is only
  safe if the machine is still in TAKER_EVAL when `fire()` returns.
  `TypeCorrect`, `PositionsBooked` and `OrdersTracked` are its parts.
  `ImplementsLedger` proves `Spec => Books`: under `Inv` every step of a machine
  maps to `Open`, `Close` or a stutter of `PositionLedger`. `CountExact` and
  `ExposureExact` prove that the two shared counters are what they stand for, the
  number of open positions and the sum of their sizes. Both are cardinality
  arguments on ledger steps, the second on the set of booked lots (`BookedLots`),
  which turns the sum into a count; they need `Markets` to be finite. Four action
  properties follow from `Inv`, action by action: `FailedEntries`, `LateEntries`,
  `QuotesLeft` and `NeverSoldTwice`. The last needs one more
  invariant, that a position in POSITION_OPEN has no close order yet, which holds
  because booking resets the count and every exit leaves POSITION_OPEN.
  `CapExceededByOverlapOnly` proves `CapNeedsOverlap` for any cap and all faults:
  while entries wait one at a time, the exposure is at most the cap and at most
  what the waiting machine has read (`CapInv`), so that the room it has seen is
  still there when it books; `MakerOff` says that without the maker's signal no
  quote can book in between. `SlotsExceededByOverlapOnly` is the same argument for
  `MAX_OPEN_POSITIONS`, where the machine that has passed the test owns a slot
  (`SlotInv`). `AccountsExact` proves `AccountsFollowBooks`, under its two
  hypotheses that the exchanges work and that only takers enter; it needs that a
  machine in CLOSING has sent a close order (`ClosingCounted`) and that the hedge of
  a booked position is a whole number of lots (`HedgeWhole`), which is why closing
  it leaves nothing.
- `SPSCRingBuffer_proofs`. `RingInv` says that the counters are at most N apart
  modulo the wrap and that each side's stale copy of the other's counter errs to
  the safe side; `Exclusion` follows, since the slots of two counters less than N
  apart differ. `DataInv` adds that a slot about to be published holds the pushed
  element and that a finished copy is the oldest element; with it every step maps
  to an enqueue, a dequeue or a stutter of `BoundedFifo` (`RingIsFifo`). For any N
  and any wrap that is a larger multiple of it.
- `TickRecorder_proofs`. The recorder's steps are steps of the ring, so both
  results carry over (`RecorderFifo`). `RecInv` ties the accepted and unwritten
  ticks to the buffer's contents and the tick in hand, and says that the flag is
  set only when the feed thread can push no more; `FileComplete` and
  `FileInOrder` follow.
- `BotLifecycle_proofs`. `BotInv` relates the map, the created machines, the
  snapshot and the machines being joined: a market that is in the snapshot or known
  to the scanner and was created still has its machine, and one that lost it is
  past its resolution. `ThreadsKeepMachines` and `NoSecondMachine` follow for any
  set of markets. `CallbacksOrdered` proves `CallbacksOnceInOrder` from `CallInv`:
  the scanner's flags are closed under earlier deadlines, the callbacks that wait
  are in ascending order and later than those made, and the flags remember both
  as long as the market is in `markets_`; once it is not, its resolution is over
  and it is not found again, which is what keeps a deadline from being called
  twice. `MachinesInProcess` and `ProcessImplementsLedger` carry the results about
  the machines into the whole process: every step of main, the scanner, the
  watchdog and the machines is a step of a machine or of its surroundings, or a
  store into the flags of machines (`BotStepKind`), and such a store breaks none
  of the invariants. `RulesInProcess` and `LimitsInProcess` do the same for the four
  action properties and for the two limits.
- `NonceManager_proofs`. `NonceInv` adds to the types that every issued nonce is
  below the counter and that none is issued before main() has seeded it;
  `NoncesIssuedOnce` follows, for threads that call `next()` and
  `force_resync()` in any order. `WalletNonces` carries it over to `WalletSpec`. `StartsUnlessFault`: the API key exists whenever
  main() is about to derive it, so a failed derive is a fault.
- `BacktestRunner_proofs`. `LossIsBounded`, about `PositionManager` alone, for every
  integer PnL and every non-negative edge: an armed trailing stop means that the PnL
  reached half the edge, which is not negative, so the same evaluation left.
  `ReplayExits` carries it into the replay. `BtInv`, for every recording and any time constants that satisfy the
  assumptions, says where the loop is (`LoopInv`: while a position is open, no
  tick it has passed was within the last 30 s), that the exposure is that of the
  open position (`BooksInv`) and when the last trade left (`TradeInv`);
  `ExpiredOnlyInGap`, `SamplesFollow` and `ReplayImplementsLedger` follow. The loop
  takes the next tick of a set, so the proof needs that a finite set of times has a
  least and a greatest element. This is the one induction over data: it is done by
  a minimal counterexample in the well-founded order of the finite subsets, whose
  theorem has set parameters only.
- `FeedManager_proofs`. A lemma sorts the steps into five kinds by what they do to
  the receive times, the levels and the counters; with the types of these three,
  `UnheardStaysNominal` is inductive (`UnheardNominal`) and every step satisfies
  `EscalationNeverLowers` (`LoweredByMonitorOnly`), for any feeds, limit and
  thresholds.
- `RiskWatchdog_proofs`. `BufInv` adds the ranges of the two indices to
  `IndicesAgree`, without which `%` says nothing; `record_btc` and the eviction
  each preserve it on a buffer of any size larger than the window
  (`BufferIndices`). The number of evicted entries is the cardinality of a prefix
  of the buffer, and no larger than the count. `FalseTrips` carries
  one price through the whole pipeline: while nothing is disturbed every tick in
  the ring, the engine's mid and every counted entry of the price buffer is the
  market price, so no two of them spread. `TripsExactly` proves `TripsOnSpikeOnly`:
  the ages fall from the oldest entry to the newest, one unit or more for each
  entry because the thread sleeps between two samples; so an entry that is
  overwritten has left the window, evicting a prefix removes only such entries, and
  the live ones are exactly the samples of the window (`WindowInv`).

Only model-checked: the liveness properties, because the prover does not handle
fairness (`ClosedBeforeResolution`, `FlattenServed`, `EntriesEnd`,
`RemovedMachinesJoined`, `ShutdownCompletes`, `FeedReconnects`,
`DeadFeedsNoticed`, `StopEndsFeeds`, `Drains`, `RecorderEnds`), and what the
continued fraction of `Likelihood` computes, which is recursive over numbers.
Every invariant, action property and refinement that a passing run checks is
proved.

## 5. Plan

1. Done: order state machine with both arms and the ledger; position manager;
   nonce manager and the start-up of the wallet; ring buffer and tick recorder;
   process lifecycle with scanner, watchdog and failed starts; feed manager;
   signal thread, likelihood and watchdog; backtest runner.
2. Signals into machines: compose `BayesianEngine` with a machine that reads its
   atomics one by one, so that the edge, the book and the regime of one entry
   come from different ticks; the best prices as data.
3. Clock sync and the timestamps of ticks: the prior's reset interval and the
   volatility window under clocks that disagree.
4. Proofs: the machines' results once more when 2. has split their readings.

## 6. Not modelled

Signing, hashing and decryption (right, or the step that uses them fails); HTTP
and JSON beyond the outcomes their callers tell apart; the Kelly formula and the
PnL of a position (floating point; the caps and the roundings are modelled); the
likelihood's lookup table, which the program never loads; metrics, logging and
clock sync (output or one estimate); the Binance client, which the program does
not use; the two Python set-up scripts. Wall-clock jumps are not modelled: time
only moves forward, and the ticks of a recording have distinct times.
