--------------------------- MODULE BayesianEngine ---------------------------
(***************************************************************************)
(* signals::BayesianEngine, thread 2: pops ticks from the buffer and       *)
(* writes the atomics of SharedState.  The feed side is reduced to the     *)
(* ticks FeedManager can push: any message of any source, at the current   *)
(* BTC price, dropped when the buffer is full.                             *)
(*                                                                         *)
(* One step processes one tick: the threads that read the atomics read     *)
(* them one by one, and the one modelled with it (RiskWatchdog) only reads *)
(* btc_mid.  The posterior is floating-point arithmetic: its value is any  *)
(* of Posteriors, when it is computed at all.  Probabilities are in half   *)
(* percents, like the doubled mids of Ticks.                               *)
(***************************************************************************)
EXTENDS Ticks, Sequences

CONSTANTS
    RingSize,     \* capacity of the tick buffer
    Tokens,       \* tokens the Polymarket connection is subscribed to
    OwnToken,     \* config_.token_id: the YES token of the engine's market
    Strikes,      \* config_.strike_price: 0 for every market that main() passes,
                  \*   positive in the replay tool
    Posteriors    \* values of p_post, clamped to 0.01 .. 0.99

ASSUME EngineAssumption ==
    /\ RingSize \in Nat \ {0}
    /\ OwnToken \in Tokens
    /\ Strikes \subseteq Nat
    /\ Posteriors \subseteq 2..198

VARIABLES
    price,      \* the BTC price at the exchange
    ring,       \* ring_: ticks, with the token they came from as history
    strike,     \* config_.strike_price
    p_prior,    \* p_prior_
    was_reset,  \* last_reset_us_ # 0
    cb_seen,    \* prev_cb_mid_ > 0
    returns,    \* vol_state_: returns in the window, 2 stands for two or more
    vol,        \* realized_vol_60s: 0, or 1 when positive
    p_true,     \* SharedState::p_true
    p_market,   \* SharedState::p_market
    btc_mid,    \* SharedState::btc_mid, which is also the engine's btc_mid_
    mid_token   \* history: the token p_market was last taken from

engineVars == <<ring, strike, p_prior, was_reset, cb_seen, returns, vol,
                p_true, p_market, btc_mid, mid_token>>
priorVars  == <<p_prior, was_reset>>
marketVars == <<p_market, mid_token>>

Half == 100   \* a probability of 0.5

EngineInit ==
    /\ price \in Prices
    /\ ring = <<>>
    /\ strike \in Strikes
    /\ p_prior = Half /\ was_reset = FALSE
    /\ cb_seen = FALSE
    /\ returns = 0 /\ vol = 0
    /\ p_true = Half /\ p_market = Half
    /\ btc_mid = 0
    /\ mid_token = OwnToken

-----------------------------------------------------------------------------
(* Outside: the market and the feeds                                       *)

PriceMoves ==
    /\ price' \in Prices \ {price}
    /\ UNCHANGED engineVars

\* FeedManager pushes a tick, unless the buffer is full.
Receive ==
    /\ Len(ring) < RingSize
    /\ \E s \in {"BINANCE", "COINBASE", "POLYMARKET"}, q \in Odds :
          \E t \in TicksOf(s, price, q) \ {NoTick},
             k \in IF s = "POLYMARKET" THEN Tokens ELSE {OwnToken} :
              ring' = Append(ring, [tick |-> t, token |-> k])
    /\ UNCHANGED <<price, strike, priorVars, cb_seen, returns, vol, p_true,
                   marketVars, btc_mid>>

-----------------------------------------------------------------------------
(* process_tick                                                            *)

\* run(): a tick of source s is popped.
Pop(s) ==
    /\ ring # <<>>
    /\ Head(ring).tick.source = s
    /\ ring' = Tail(ring)
    /\ UNCHANGED <<price, strike>>

\* The early returns of run_bayesian_update, for a BTC mid m and a vol v.
CanUpdate(m, v) == m > 0 /\ strike > 0 /\ v > 0

\* A new posterior, published and kept as the prior; nothing when it returns
\* early, the tick is past the resolution or the normaliser is too small.
run_bayesian_update(m, v) ==
    \/ /\ CanUpdate(m, v)
       /\ p_true' \in Posteriors
       /\ p_prior' = p_true'
    \/ UNCHANGED <<p_true, p_prior>>

\* A Coinbase mid triggers an update once both exchanges have been seen.
process_coinbase ==
    /\ Pop("COINBASE")
    /\ LET mid == Head(ring).tick.mid IN
       /\ IF mid > 0 /\ cb_seen THEN run_bayesian_update(btc_mid, vol)
          ELSE UNCHANGED <<p_true, p_prior>>
       /\ cb_seen' = (cb_seen \/ mid > 0)
    /\ UNCHANGED <<was_reset, returns, vol, marketVars, btc_mid>>

\* 0.0 < mid < 1.0; nothing says which token the tick is of.
Usable(e) == e.tick.mid > 0 /\ e.tick.mid < 200

\* Mutant: the mid is taken for the BTC price as well.
process_polymarket_as_btc ==
    /\ Pop("POLYMARKET")
    /\ LET e == Head(ring) IN
       IF ~Usable(e) THEN UNCHANGED <<marketVars, priorVars, btc_mid>>
       ELSE /\ p_market' = e.tick.mid
            /\ mid_token' = e.token
            /\ btc_mid' = e.tick.mid
            /\ UNCHANGED priorVars
    /\ UNCHANGED <<cb_seen, returns, vol, p_true>>

\* A Polymarket mid is published whatever token it is of; the prior is reset to
\* it the first time and after every reset interval.
process_polymarket ==
    /\ Pop("POLYMARKET")
    /\ LET e == Head(ring) IN
       IF ~Usable(e) THEN UNCHANGED <<marketVars, priorVars>>
       ELSE /\ p_market' = e.tick.mid
            /\ mid_token' = e.token
            /\ \/ /\ p_prior' = e.tick.mid
                  /\ was_reset' = TRUE
               \/ /\ was_reset
                  /\ UNCHANGED priorVars
    /\ UNCHANGED <<cb_seen, returns, vol, p_true, btc_mid>>

\* The returns left in the window after one more price: the first price gives
\* none, and the new return is never among those that expire.
ReturnsAfter == IF btc_mid = 0 THEN {returns} ELSE 1..(IF returns < 2 THEN returns + 1 ELSE 2)

\* RollingVolState::realized_vol: 0 with fewer than two returns or no variance.
VolOf(n) == IF n < 2 THEN {0} ELSE {0, 1}

\* A Binance book: mid, volatility, regime, then an update; trades are no mids.
process_binance ==
    /\ Pop("BINANCE")
    /\ LET mid == Head(ring).tick.mid IN
       IF mid = 0 THEN UNCHANGED <<btc_mid, returns, vol, p_true, p_prior>>
       ELSE /\ btc_mid' = mid
            /\ returns' \in ReturnsAfter
            /\ vol' \in VolOf(returns')
            /\ run_bayesian_update(mid, vol')
    /\ UNCHANGED <<was_reset, cb_seen, marketVars>>

Engine == process_coinbase \/ process_polymarket \/ process_binance

EngineNext == PriceMoves \/ Receive \/ Engine

EngineSpec == EngineInit /\ [][EngineNext]_<<price, engineVars>>

-----------------------------------------------------------------------------
\* bayesian_engine.hpp: the "YES token ID (used to route Polymarket ticks)".
MidOfOwnToken == mid_token = OwnToken
=============================================================================
