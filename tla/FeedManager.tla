----------------------------- MODULE FeedManager -----------------------------
(***************************************************************************)
(* data::FeedManager, thread 1: one coroutine per market-data connection   *)
(* and a fault monitor, all run by one io_context on one thread, so that a *)
(* step is what a coroutine does between two of its waits.  Of the tick    *)
(* buffer, which is SPSCRingBuffer, only the number of waiting ticks       *)
(* counts here; its consumer is the signal thread.                         *)
(*                                                                         *)
(* Time is the age of the last message of a source, in a unit that the     *)
(* thresholds are multiples of; beyond the last threshold it stays.  The   *)
(* delays of a reconnect (100 ms doubling to 25.6 s) are waits of any      *)
(* length.                                                                 *)
(***************************************************************************)
EXTENDS Ticks

CONSTANTS
    Sources,        \* the connections, of BINANCE, COINBASE and POLYMARKET
    RingSize,       \* capacity of the tick buffer
    LowDepthLimit,  \* 30 low-depth ticks in a row
    Degraded,       \* FEED_DEGRADED_THRESHOLD_S
    Fallback,       \* FEED_FALLBACK_THRESHOLD_S
    Flatten         \* FEED_FLATTEN_SLICE_COUNT * FEED_FLATTEN_SLICE_INTERVAL_S

ASSUME FeedAssumption ==
    /\ Sources \subseteq {"BINANCE", "COINBASE", "POLYMARKET"}
    /\ RingSize \in Nat \ {0} /\ LowDepthLimit \in Nat \ {0}
    /\ Degraded \in Nat /\ Fallback \in Nat /\ Flatten \in Nat
    /\ Degraded < Fallback /\ Fallback < Flatten

VARIABLES
    running,   \* running_
    conn,      \* conn[s]: where the coroutine of s waits: "off", "connect"
               \*   (connect_wss), "read" (async_read), "backoff", "ended"
               \*   or, with the process, "terminated"
    monitor,   \* the fault monitor: "off", "sleep", "ended" or "terminated"
    age,       \* age[s]: time since last_received_us_[s]; Never when that is 0
    fault,     \* fault_level_
    low,       \* consecutive_low_depth_, no further than LowDepthLimit + 1
    ring       \* ticks waiting in ring_

feedVars == <<running, conn, monitor, age, fault, low, ring>>

Never == -1
Silent == Flatten + 1   \* an age beyond every threshold

Init ==
    /\ running = FALSE
    /\ conn = [s \in Sources |-> "off"]
    /\ monitor = "off"
    /\ age = [s \in Sources |-> Never]
    /\ fault = [s \in Sources |-> "NOMINAL"]
    /\ low = [s \in Sources |-> 0]
    /\ ring = 0

\* run(): all coroutines are spawned and get as far as their first wait.
run ==
    /\ monitor = "off"
    /\ running' = TRUE
    /\ conn' = [s \in Sources |-> "connect"]
    /\ monitor' = "sleep"
    /\ UNCHANGED <<age, fault, low, ring>>

\* stop(), called by main() long after thread 1 has entered run().
stop ==
    /\ monitor \notin {"off", "terminated"}
    /\ running' = FALSE
    /\ UNCHANGED <<conn, monitor, age, fault, low, ring>>

-----------------------------------------------------------------------------
(* Receiving a tick                                                        *)

\* The counter of low-depth ticks in a row after tick t.
LowAfter(t) ==
    IF ~t.low THEN 0
    ELSE IF low[t.source] > LowDepthLimit THEN low[t.source]
    ELSE low[t.source] + 1

\* Mutant: the current level is not looked at.
RaisesLevelAnyway(t) == t.low /\ LowAfter(t) = LowDepthLimit

RaisesLevel(t) == t.low /\ LowAfter(t) = LowDepthLimit /\ fault[t.source] = "NOMINAL"

\* The buffer after ring_.push: a tick that finds it full is dropped.
Pushed == IF ring < RingSize THEN ring + 1 ELSE ring

\* record_received, then push_tick.
push_tick(t) ==
    /\ age' = [age EXCEPT ![t.source] = 0]
    /\ low' = [low EXCEPT ![t.source] = LowAfter(t)]
    /\ fault' = IF RaisesLevel(t) THEN [fault EXCEPT ![t.source] = "DEGRADED"]
                ELSE fault
    /\ ring' = Pushed

\* A markPrice message counts as received, also when its fields are missing, and is
\* no tick.
MarkPrice(s) ==
    /\ s = "BINANCE"
    /\ age' = [age EXCEPT ![s] = 0]
    /\ UNCHANGED <<fault, low, ring>>

\* A message of another kind, or one whose parser returns false.
Ignored == UNCHANGED <<age, fault, low, ring>>

\* dispatch_*_msg for any message of s.
dispatch(s) ==
    \/ \E p \in Prices, q \in Odds : \E t \in TicksOf(s, p, q) \ {NoTick} : push_tick(t)
    \/ MarkPrice(s)
    \/ Ignored

-----------------------------------------------------------------------------
(* The connection loops                                                    *)

Moves(s, from, to) ==
    /\ conn[s] = from
    /\ conn' = [conn EXCEPT ![s] = to]

\* Into the read loop, or past it when running_ is already false.
connect_ok(s) ==
    /\ Moves(s, "connect", IF running THEN "read" ELSE "backoff")
    /\ UNCHANGED <<running, monitor, age, fault, low, ring>>

connect_fail(s) ==
    /\ Moves(s, "connect", "backoff")
    /\ UNCHANGED <<running, monitor, age, fault, low, ring>>

read_message(s) ==
    /\ Moves(s, "read", IF running THEN "read" ELSE "backoff")
    /\ dispatch(s)
    /\ UNCHANGED <<running, monitor>>

\* Mutant: the exception leaves the coroutine.
read_error_escapes(s) ==
    /\ Moves(s, "read", "ended")
    /\ UNCHANGED <<running, monitor, age, fault, low, ring>>

\* The connection breaks, or a field of the wrong JSON type throws before
\* anything is recorded: a tick's, or the envelope's.
read_error(s) ==
    /\ Moves(s, "read", "backoff")
    /\ UNCHANGED <<running, monitor, age, fault, low, ring>>

\* A mark price or a funding rate of the wrong JSON type throws in
\* parse_binance_funding, which is noexcept: std::terminate.
mark_price_throws(s) ==
    /\ s = "BINANCE" /\ conn[s] = "read"
    /\ conn' = [x \in Sources |-> "terminated"]
    /\ monitor' = "terminated"
    /\ UNCHANGED <<running, age, fault, low, ring>>

\* Mutant: running_ is not tested again after the wait.
backoff_end_always(s) ==
    /\ Moves(s, "backoff", "connect")
    /\ UNCHANGED <<running, monitor, age, fault, low, ring>>

backoff_end(s) ==
    /\ Moves(s, "backoff", IF running THEN "connect" ELSE "ended")
    /\ UNCHANGED <<running, monitor, age, fault, low, ring>>

-----------------------------------------------------------------------------
(* The fault monitor                                                       *)

Level(a) ==
    CASE a <= Degraded -> "NOMINAL"
      [] a > Degraded /\ a <= Fallback -> "DEGRADED"
      [] a > Fallback /\ a <= Flatten -> "REST_FALLBACK"
      [] a > Flatten -> "EMERGENCY_FLATTEN"

Severity == [NOMINAL |-> 0, DEGRADED |-> 1, REST_FALLBACK |-> 2, EMERGENCY_FLATTEN |-> 3]

\* Mutant: the level is only ever raised to REST_FALLBACK.
CheckedNoFlatten ==
    [s \in Sources |-> IF age[s] = Never THEN fault[s]
                       ELSE IF age[s] > Fallback THEN "REST_FALLBACK" ELSE Level(age[s])]

\* The levels after one pass over the sources.
Checked == [s \in Sources |-> IF age[s] = Never THEN fault[s] ELSE Level(age[s])]

\* The 500 ms wait ends: one pass, then the test of running_.
fault_check ==
    /\ monitor = "sleep"
    /\ fault' = Checked
    /\ monitor' = IF running THEN "sleep" ELSE "ended"
    /\ UNCHANGED <<running, conn, age, low, ring>>

both_cex_dead ==
    \A s \in Sources \cap {"BINANCE", "COINBASE"} : fault[s] = "EMERGENCY_FLATTEN"

-----------------------------------------------------------------------------
AdvanceTime ==
    /\ age' = [s \in Sources |-> IF age[s] \in {Never, Silent} THEN age[s] ELSE age[s] + 1]
    /\ UNCHANGED <<running, conn, monitor, fault, low, ring>>

\* The signal thread pops a tick.
Consume ==
    /\ ring > 0 /\ monitor # "terminated"
    /\ ring' = ring - 1
    /\ UNCHANGED <<running, conn, monitor, age, fault, low>>

Connection(s) ==
    \/ connect_ok(s) \/ connect_fail(s) \/ read_message(s) \/ read_error(s)
    \/ mark_price_throws(s) \/ backoff_end(s)

Next ==
    \/ run \/ stop \/ fault_check \/ AdvanceTime \/ Consume
    \/ \E s \in Sources : Connection(s)

Spec == Init /\ [][Next]_feedVars

\* Thread 1 runs its timers, time passes, connection attempts come to an end
\* and do not fail for ever; nothing makes a message arrive.
Fairness ==
    /\ WF_feedVars(run) /\ WF_feedVars(fault_check) /\ WF_feedVars(AdvanceTime)
    /\ \A s \in Sources : SF_feedVars(connect_ok(s)) /\ WF_feedVars(backoff_end(s))

FairSpec == Spec /\ Fairness

\* As well, a read returns: a message comes or the connection breaks.
ReadsReturn ==
    \A s \in Sources :
        WF_feedVars(read_message(s) \/ read_error(s) \/ mark_price_throws(s))
-----------------------------------------------------------------------------
\* A source that has never delivered anything is reported NOMINAL however long
\* the silence lasts, so both_cex_dead cannot become true before both exchange
\* feeds have worked once.
UnheardStaysNominal == \A s \in Sources : age[s] = Never => fault[s] = "NOMINAL"

\* "escalate to at least DEGRADED" (push_tick): thin books never lower a level, not
\* even the first tick after a long silence.  A level falls only by the monitor's
\* check, and only to that of the time since the last message.
EscalationNeverLowers ==
    [][\A s \in Sources :
          Severity[fault'[s]] < Severity[fault[s]] =>
              age'[s] = age[s] /\ fault'[s] = Level(age[s])]_feedVars

\* Whatever breaks a connection, a message with broken fields included, the feed is
\* read again, unless it is stopped or the process is ended by std::terminate.
FeedReconnects ==
    \A s \in Sources :
        running ~> (conn[s] = "read" \/ ~running \/ monitor = "terminated")

\* When no exchange feed delivers any more, both_cex_dead comes to stay while the
\* monitor runs: no reconnect without data, and no stale low-depth level, hides
\* the silence.
DeadFeedsNoticed ==
    (\A s \in Sources \cap {"BINANCE", "COINBASE"} : <>[](age[s] = Silent))
        => <>[](both_cex_dead \/ monitor \in {"ended", "terminated"})

\* stop() ends all coroutines, and with them run() and thread 1, provided that
\* blocked reads return: stop() does not cancel them.
StopEndsFeeds ==
    ReadsReturn =>
        ((monitor # "off" /\ ~running)
             ~> \/ monitor = "terminated"
                \/ monitor = "ended" /\ \A s \in Sources : conn[s] = "ended")
=============================================================================
