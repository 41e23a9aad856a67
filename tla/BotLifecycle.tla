---------------------------- MODULE BotLifecycle ----------------------------
(***************************************************************************)
(* The process around the order state machines: main() with its start-up,  *)
(* its 500 ms loop, sync_osms_with_scanner and the shutdown sequence; the  *)
(* MarketScanner thread, which discovers markets, removes them after       *)
(* resolution and calls the machines back at the deadlines; the            *)
(* RiskWatchdog thread, which trips the kill switch and flattens; the feed *)
(* thread, which ends when its blocked reads return, if they do; and the   *)
(* threads that only have to be stopped and joined (heartbeat and engine). *)
(* What the start-up does with the wallet is in WalletStartup.  The        *)
(* machines are those of OrderStateMachine, one per created thread.        *)
(*                                                                         *)
(* An exception that leaves the feed thread or a noexcept function ends    *)
(* the process in std::terminate, whatever the other threads do.           *)
(*                                                                         *)
(* osm_map_mu is held across steps only by main() while it joins threads;  *)
(* a callback takes it, does its stores and gives it back in one step.     *)
(***************************************************************************)
EXTENDS OrderStateMachine, Sequences

VARIABLES
    main_pc,      \* where main() is
    snapshot,     \* sync_osms_with_scanner: the copy of markets_
    to_clean,     \* sync_osms_with_scanner: machines that are being joined
    osm_map,      \* osm_map
    created,      \* markets for which a machine has been created
    scan_pc,      \* the scanner thread: "off", "sleep", "scan", "check",
                  \*   "fire" or "ended"
    known,        \* markets_
    fired,        \* the lifecycle flags of markets_
    pending,      \* callbacks collected by check_lifecycle, per market
    told,         \* callbacks fired so far, per market
    wd_pc,        \* the watchdog thread: "off", "run", "flatten", "ended"
    kill_switch,  \* SharedState::kill_switch
    helpers,      \* the heartbeat thread and, from the build on, the engine
                  \*   thread: "run" or "joined"
    feed,         \* t1, the feed thread: "off", "run" or "ended"
    g_shutdown    \* g_shutdown, set by the signal handler

mainVars    == <<main_pc, snapshot, to_clean, osm_map, created>>
scannerVars == <<scan_pc, known, fired, pending, told>>
watchVars   == <<wd_pc, kill_switch, helpers, feed>>
botVars == <<vars, mainVars, scannerVars, watchVars, g_shutdown>>

\* OSM variables that no other thread writes.
osmPrivate == <<st, pc, pos, close, cooldown, snap, quoteVars, sharedVars, phase,
                accountVars, edges>>

BotInit ==
    /\ Init
    /\ main_pc = "start"
    /\ snapshot = {} /\ to_clean = {} /\ osm_map = {} /\ created = {}
    /\ scan_pc = "off"
    /\ known = {}
    /\ fired = [m \in Markets |-> {}]
    /\ pending = [m \in Markets |-> <<>>]
    /\ told = [m \in Markets |-> {}]
    /\ wd_pc = "off" /\ kill_switch = FALSE /\ helpers = "run" /\ feed = "off"
    /\ g_shutdown = FALSE

\* The scanner's running_ and the watchdog's stop_flag_, which main() writes
\* once, in its shutdown sequence.
Running     == main_pc \in {"loop", "sync_lock", "sync_join"}
WatchStopped == main_pc \in {"stop_osms", "join_watchdog", "join_osms", "exited"}

\* The process is over: main() has returned, with every thread joined or not, or
\* std::terminate was called.  The model ends with it.
Over == main_pc \in {"exited", "terminated", "aborted"}

\* main() is not joining threads under osm_map_mu.
MapUnlocked == main_pc \notin {"sync_join", "join_osms"}

-----------------------------------------------------------------------------
(* MarketScanner                                                           *)

\* Mutant: markets that are past their resolution are not skipped.
DiscoverableExpiredToo == {m \in Markets : m \notin known}

\* What scan_once can add: markets the exchange lists that are not known and
\* not past their resolution.
Discoverable == {m \in Markets : m \notin known /\ phase[m] < Expired}

\* Mutant: the lifecycle flags are not set.
FiredAfterUnset(k) == fired

\* The lifecycle flags after check_lifecycle over the markets k.
FiredAfter(k) ==
    [m \in Markets |-> IF m \in k /\ phase[m] < Gone
                       THEN fired[m] \cup {d \in Deadlines : phase[m] >= Due[d]}
                       ELSE IF m \in k THEN {} ELSE fired[m]]

\* The callbacks check_lifecycle collects, in the order of its tests.
Collected(m, d) == IF phase[m] >= Due[d] /\ d \notin fired[m] THEN <<d>> ELSE <<>>

DueCallbacks(m) ==
    Collected(m, "entries_stopped") \o Collected(m, "quotes_cancelled")
    \o Collected(m, "positions_closed") \o Collected(m, "force_closed")

\* scan_once: a request that fails, or a market that is not listed yet, leaves
\* the market out.
scan_once ==
    /\ scan_pc = "scan"
    /\ \E found \in SUBSET Discoverable : known' = known \cup found
    /\ scan_pc' = "check"
    /\ UNCHANGED <<vars, mainVars, fired, pending, told, watchVars, g_shutdown>>

\* A field of the answer that is missing or of the wrong type throws outside the
\* try of scan_once, which is noexcept: in the scanner thread or in scan_now().
scan_throws ==
    /\ scan_pc = "scan" \/ main_pc = "scan_now"
    /\ ~Over
    /\ main_pc' = "aborted"
    /\ UNCHANGED <<vars, snapshot, to_clean, osm_map, created, scannerVars, watchVars,
                   g_shutdown>>

\* check_lifecycle under the write lock: flags, callbacks to fire, and the
\* markets that resolved 60 s ago erased.
check_lifecycle ==
    /\ scan_pc = "check"
    /\ pending' = [m \in Markets |-> IF m \in known THEN DueCallbacks(m) ELSE <<>>]
    /\ fired' = FiredAfter(known)
    /\ known' = {m \in known : phase[m] < Gone}
    /\ scan_pc' = "fire"
    /\ UNCHANGED <<vars, mainVars, told, watchVars, g_shutdown>>

\* A callback: under osm_map_mu the flag of the machine, if there is one.
fire_callback(m) ==
    /\ scan_pc = "fire" /\ pending[m] # <<>>
    /\ MapUnlocked
    /\ LET d == Head(pending[m]) IN
        /\ flags' = IF m \in osm_map
                    THEN [flags EXCEPT ![m] = flags[m] \cup {d}] ELSE flags
        /\ told' = [told EXCEPT ![m] = told[m] \cup {d}]
    /\ pending' = [pending EXCEPT ![m] = Tail(pending[m])]
    /\ UNCHANGED <<osmPrivate, stop, flatten, mainVars, scan_pc, known, fired,
                   watchVars, g_shutdown>>

fire_done ==
    /\ scan_pc = "fire"
    /\ \A m \in Markets : pending[m] = <<>>
    /\ scan_pc' = "sleep"
    /\ UNCHANGED <<vars, mainVars, known, fired, pending, told, watchVars, g_shutdown>>

\* run_loop: running_ is looked at before and after the 30 s sleep.
run_loop ==
    /\ scan_pc = "sleep"
    /\ scan_pc' = IF Running THEN "scan" ELSE "ended"
    /\ UNCHANGED <<vars, mainVars, known, fired, pending, told, watchVars, g_shutdown>>

Scanner ==
    /\ ~Over
    /\ \/ scan_once \/ check_lifecycle \/ fire_done \/ run_loop
       \/ \E m \in Markets : fire_callback(m)

-----------------------------------------------------------------------------
(* RiskWatchdog                                                            *)

\* trip(): the kill switch is set before the callbacks run.
trip ==
    /\ wd_pc = "run" /\ ~kill_switch /\ ~Over
    /\ kill_switch' = TRUE
    /\ wd_pc' = "flatten"
    /\ UNCHANGED <<vars, mainVars, scannerVars, helpers, feed, g_shutdown>>

\* The flatten callback: every machine of osm_map, under osm_map_mu.
flatten_all ==
    /\ wd_pc = "flatten"
    /\ MapUnlocked
    /\ flatten' = [m \in Markets |-> m \in osm_map \/ flatten[m]]
    /\ wd_pc' = "run"
    /\ UNCHANGED <<osmPrivate, flags, stop, mainVars, scannerVars, kill_switch,
                   helpers, feed, g_shutdown>>

watchdog_end ==
    /\ wd_pc = "run" /\ WatchStopped
    /\ wd_pc' = "ended"
    /\ UNCHANGED <<vars, mainVars, scannerVars, kill_switch, helpers, feed, g_shutdown>>

Watchdog == ~Over /\ (flatten_all \/ watchdog_end)

-----------------------------------------------------------------------------
(* The feed thread                                                         *)

\* ioc.run() returns when the coroutines have ended: stop() only clears a flag,
\* which each of them sees when its read returns (FeedManager, StopEndsFeeds).
feed_end ==
    /\ feed = "run" /\ WatchStopped /\ ~Over
    /\ feed' = "ended"
    /\ UNCHANGED <<vars, mainVars, scannerVars, wd_pc, kill_switch, helpers, g_shutdown>>

\* t1 has no handler: what run() throws, or the noexcept parser of the mark price,
\* ends the process.
feed_throws ==
    /\ feed = "run" /\ ~Over
    /\ main_pc' = "aborted"
    /\ UNCHANGED <<vars, snapshot, to_clean, osm_map, created, scannerVars, watchVars,
                   g_shutdown>>

-----------------------------------------------------------------------------
(* main()                                                                  *)

\* A thread object destroyed before it is joined ends the process in
\* std::terminate.
return_from_main ==
    main_pc' = IF helpers = "joined" THEN "exited" ELSE "terminated"

\* The key is loaded, the wallet authenticated, the nonce seeded; the heartbeat
\* runs.  The first of these waits for the operator's passphrase.
start_ok ==
    /\ main_pc = "start"
    /\ main_pc' = "scan_now"
    /\ UNCHANGED <<vars, snapshot, to_clean, osm_map, created, scannerVars,
                   watchVars, g_shutdown>>

start_fails ==
    /\ main_pc = "start"
    /\ return_from_main
    /\ UNCHANGED <<vars, snapshot, to_clean, osm_map, created, scannerVars,
                   watchVars, g_shutdown>>

\* scan_now(): the callbacks are not registered yet, so a deadline that has
\* passed is flagged and its callback skipped.
scan_now ==
    /\ main_pc = "scan_now"
    /\ \E found \in SUBSET Discoverable :
        /\ known' = found
        /\ fired' = FiredAfter(found)
    /\ main_pc' = "build"
    /\ UNCHANGED <<vars, snapshot, to_clean, osm_map, created, scan_pc, pending,
                   told, watchVars, g_shutdown>>

\* The machines of the first scan, then the feed, the engine, the watchdog and
\* the scanner threads.
build_osms ==
    /\ main_pc = "build"
    /\ osm_map' = known /\ created' = known
    /\ scan_pc' = "sleep" /\ wd_pc' = "run" /\ feed' = "run"
    /\ main_pc' = "loop"
    /\ UNCHANGED <<vars, snapshot, to_clean, known, fired, pending, told,
                   kill_switch, helpers, g_shutdown>>

\* The loop ends on a signal or on the kill switch; running_ is cleared.
loop_break ==
    /\ main_pc = "loop"
    /\ g_shutdown \/ kill_switch
    /\ main_pc' = "join_scanner"
    /\ UNCHANGED <<vars, snapshot, to_clean, osm_map, created, scannerVars,
                   watchVars, g_shutdown>>

\* Every 30 s: sync_osms_with_scanner copies markets_.
sync_snapshot ==
    /\ main_pc = "loop" /\ ~g_shutdown /\ ~kill_switch
    /\ snapshot' = known
    /\ main_pc' = "sync_lock"
    /\ UNCHANGED <<vars, to_clean, osm_map, created, scannerVars, watchVars,
                   g_shutdown>>

\* Mutant: machines of markets that are gone are kept.
sync_osms_no_clean ==
    /\ main_pc = "sync_lock"
    /\ osm_map' = osm_map \cup snapshot
    /\ created' = created \cup snapshot
    /\ to_clean' = {}
    /\ main_pc' = "sync_join"
    /\ UNCHANGED <<vars, snapshot, scannerVars, watchVars, g_shutdown>>

\* Under osm_map_mu: machines for new markets, stop() for those that are gone.
sync_osms ==
    /\ main_pc = "sync_lock"
    /\ osm_map' = osm_map \cup snapshot
    /\ created' = created \cup snapshot
    /\ to_clean' = osm_map \ snapshot
    /\ stop' = [m \in Markets |-> m \in osm_map \ snapshot \/ stop[m]]
    /\ main_pc' = "sync_join"
    /\ UNCHANGED <<osmPrivate, flags, flatten, snapshot, scannerVars, watchVars,
                   g_shutdown>>

\* Mutant: the machine is destroyed without waiting for its thread.
sync_erase_running(m) ==
    /\ main_pc = "sync_join" /\ m \in to_clean
    /\ osm_map' = osm_map \ {m}
    /\ to_clean' = to_clean \ {m}
    /\ UNCHANGED <<vars, main_pc, snapshot, created, scannerVars, watchVars, g_shutdown>>

\* Join the thread, then destroy the machine; osm_map_mu is held meanwhile.
sync_join(m) ==
    /\ main_pc = "sync_join" /\ m \in to_clean
    /\ pc[m] = "done"
    /\ osm_map' = osm_map \ {m}
    /\ to_clean' = to_clean \ {m}
    /\ UNCHANGED <<vars, main_pc, snapshot, created, scannerVars, watchVars, g_shutdown>>

sync_done ==
    /\ main_pc = "sync_join" /\ to_clean = {}
    /\ main_pc' = "loop"
    /\ UNCHANGED <<vars, snapshot, to_clean, osm_map, created, scannerVars,
                   watchVars, g_shutdown>>

\* scanner.stop() joins; then the stop flags of the feed, the engine, the
\* watchdog and the heartbeat.
stop_threads ==
    /\ main_pc = "join_scanner"
    /\ scan_pc = "ended"
    /\ main_pc' = "stop_osms"
    /\ UNCHANGED <<vars, snapshot, to_clean, osm_map, created, scannerVars,
                   watchVars, g_shutdown>>

\* Mutant: the machines of markets that are past their resolution are left out.
stop_osms_unresolved ==
    /\ main_pc = "stop_osms"
    /\ stop' = [m \in Markets |-> (m \in osm_map /\ phase[m] < Expired) \/ stop[m]]
    /\ main_pc' = "join_watchdog"
    /\ UNCHANGED <<osmPrivate, flags, flatten, snapshot, to_clean, osm_map, created,
                   scannerVars, watchVars, g_shutdown>>

stop_osms ==
    /\ main_pc = "stop_osms"
    /\ stop' = [m \in Markets |-> m \in osm_map \/ stop[m]]
    /\ main_pc' = "join_watchdog"
    /\ UNCHANGED <<osmPrivate, flags, flatten, snapshot, to_clean, osm_map, created,
                   scannerVars, watchVars, g_shutdown>>

\* t1, t2, t4 and the heartbeat.  The loops of the engine and of the heartbeat wait
\* for nobody and end by themselves once their flags are set.
join_watchdog ==
    /\ main_pc = "join_watchdog"
    /\ feed = "ended" /\ wd_pc = "ended"
    /\ helpers' = "joined"
    /\ main_pc' = "join_osms"
    /\ UNCHANGED <<vars, snapshot, to_clean, osm_map, created, scannerVars,
                   wd_pc, kill_switch, feed, g_shutdown>>

\* The last joins, under osm_map_mu; main() returns.
join_osms ==
    /\ main_pc = "join_osms"
    /\ \A m \in osm_map : pc[m] = "done"
    /\ return_from_main
    /\ UNCHANGED <<vars, snapshot, to_clean, osm_map, created, scannerVars,
                   watchVars, g_shutdown>>

Main ==
    \/ scan_now \/ build_osms \/ loop_break
    \/ sync_snapshot \/ sync_osms \/ (\E m \in Markets : sync_join(m)) \/ sync_done
    \/ stop_threads \/ stop_osms \/ join_watchdog \/ join_osms

signal_handler ==
    /\ ~g_shutdown /\ ~Over
    /\ g_shutdown' = TRUE
    /\ UNCHANGED <<vars, mainVars, scannerVars, watchVars>>

-----------------------------------------------------------------------------
\* The thread of a machine, and the world around it.
Machine(m) ==
    /\ m \in created /\ ~Over
    /\ Thread(m)
    /\ UNCHANGED <<mainVars, scannerVars, watchVars, g_shutdown>>

World(m) ==
    /\ ~Over
    /\ AdvanceTime(m) \/ CooldownEnds(m)
       \/ \E s \in Sides : FillQuote(m, s) \/ FillStray(m, s)
    /\ UNCHANGED <<mainVars, scannerVars, watchVars, g_shutdown>>

BotNext ==
    \/ start_ok \/ start_fails
    \/ Main \/ Scanner \/ Watchdog \/ trip \/ signal_handler
    \/ feed_end \/ feed_throws \/ scan_throws
    \/ \E m \in Markets : Machine(m) \/ World(m)

BotSpec == BotInit /\ [][BotNext]_botVars

\* Every thread keeps running and every curl call returns (they have timeouts);
\* nothing makes the operator type the passphrase, the watchdog trip, a signal
\* arrive, a read of the feed thread return or an exception happen.
BotFairSpec ==
    /\ BotSpec
    /\ WF_botVars(Main) /\ WF_botVars(Scanner) /\ WF_botVars(Watchdog)
    /\ \A m \in Markets : WF_botVars(Machine(m))

-----------------------------------------------------------------------------
(* Properties                                                              *)

\* A thread that still runs has its machine: no path destroys a machine whose
\* thread has not been joined, and none is left when main() returns.  main()
\* returns with a joinable thread only from a failed start, before any machine; an
\* uncaught exception is the one end of the process with machines running.
ThreadHasMachine ==
    /\ \A m \in created :
          pc[m] # "done" => m \in osm_map /\ main_pc # "exited"
    /\ main_pc = "exited" => wd_pc = "ended" /\ scan_pc = "ended"
    /\ main_pc = "terminated" => created = {} /\ wd_pc = "off"

\* A market gets one machine in its life: once the machine is destroyed the
\* scanner never brings the market back, so no second machine starts over
\* with empty books, not even from a snapshot that is out of date.
OneMachinePerMarket ==
    [][\A m \in Markets : m \in osm_map' \ osm_map => m \notin created]_botVars

\* market_scanner.hpp: "Each is invoked once per market, in order": deadlines
\* that pass together between two polls are still called back in their order.
CallbacksOnceInOrder ==
    [][\A m \in Markets :
          scan_pc = "fire" /\ pending'[m] # pending[m] =>
              \A e \in told[m] : Due[e] < Due[Head(pending[m])]]_botVars

\* main() waits for t1, and t1 for a read that stop() does not cancel.
WaitsForFeed == main_pc = "join_watchdog" /\ feed = "run"

\* The machine of a market that was removed is eventually joined and
\* destroyed, or the process shuts down, as far as the feed thread lets it.
RemovedMachinesJoined ==
    \A m \in Markets :
        (m \in osm_map /\ m \notin known) ~> (m \notin osm_map \/ WaitsForFeed \/ Over)

\* Once the passphrase is in, a signal or a tripped breaker ends the process, or
\* leaves main() waiting for the feed thread alone, with the thread of every machine
\* ended; so the end follows whenever the feed thread ends.  Callbacks that wait
\* for osm_map_mu and joins under it never block each other for ever.
ShutdownCompletes ==
    main_pc # "start" /\ (g_shutdown \/ kill_switch)
        ~> Over \/ (WaitsForFeed /\ \A m \in created : pc[m] = "done")
=============================================================================
