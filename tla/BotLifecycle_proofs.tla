------------------------ MODULE BotLifecycle_proofs ------------------------
(***************************************************************************)
(* Proofs about the life of the machines' threads, for any set of markets. *)
(***************************************************************************)
EXTENDS BotLifecycle, OrderStateMachine_proofs

USE DEF vars, machineVars, quoteVars, sharedVars, controlVars, accountVars,
        mainVars, scannerVars, watchVars, botVars, osmPrivate

PcValues == {"loop", "eval", "fire", "done"}

\* What the threads of the machines and the clock can do to the process: the
\* threads go on, none comes back, and time does not go back.
Lives ==
    /\ pc' \in [Markets -> PcValues] /\ phase' \in [Markets -> Nat]
    /\ \A m \in Markets : pc[m] = "done" => pc'[m] = "done"
    /\ \A m \in Markets : phase[m] <= phase'[m]

\* A machine's thread that has ended does not run again.
LEMMA ThreadLives ==
    ASSUME pc \in [Markets -> PcValues], phase \in [Markets -> Nat],
           NEW m \in Markets, Thread(m)
    PROVE  Lives
<1>1. UNCHANGED phase
  BY DEF Thread, run_stop, run_flatten, evaluate_expired, handle_idle, taker_eval_begin,
     taker_eval_end, handle_position_open, handle_maker_quoted, handle_closing
<1>2. pc[m] # "done"
  BY DEF Thread, run_stop, run_flatten, evaluate_expired, handle_idle, taker_eval_begin,
     taker_eval_end, handle_position_open, handle_maker_quoted, handle_closing, Dispatch,
     InEvaluate
<1>3. \E v \in PcValues : pc' = [pc EXCEPT ![m] = v]
  <2>1. CASE evaluate_expired(m)
    BY <2>1 DEF evaluate_expired, PcValues
  <2>2. CASE run_stop(m) \/ run_flatten(m) \/ taker_eval_begin(m)
    BY <2>2 DEF run_stop, run_flatten, taker_eval_begin, PcValues
  <2>3. CASE handle_idle(m) \/ taker_eval_end(m) \/ handle_position_open(m)
             \/ handle_maker_quoted(m) \/ handle_closing(m)
    BY <2>3 DEF handle_idle, taker_eval_end, handle_position_open, handle_maker_quoted,
       handle_closing, NextIteration, PcValues
  <2> QED  BY <2>1, <2>2, <2>3 DEF Thread
<1> QED  BY <1>1, <1>2, <1>3 DEF Lives, PcValues

\* The clock and the counterparties leave the threads alone.
LEMMA WorldLives ==
    ASSUME pc \in [Markets -> PcValues], phase \in [Markets -> Nat],
           NEW m \in Markets,
           AdvanceTime(m) \/ CooldownEnds(m) \/ (\E s \in Sides : FillQuote(m, s) \/ FillStray(m, s))
    PROVE  Lives
<1>1. UNCHANGED pc
  BY DEF AdvanceTime, CooldownEnds, FillQuote, FillStray
<1>2. CASE UNCHANGED phase
  BY <1>1, <1>2 DEF Lives
<1>3. CASE AdvanceTime(m)
  BY <1>1, <1>3 DEF AdvanceTime, Lives
<1> QED  BY <1>2, <1>3 DEF CooldownEnds, FillQuote, FillStray

-----------------------------------------------------------------------------
(* The invariant.                                                          *)

Before == {"start", "scan_now", "build", "terminated"}

BotType ==
    /\ pc \in [Markets -> PcValues] /\ phase \in [Markets -> Nat]
    /\ known \subseteq Markets /\ snapshot \subseteq Markets /\ created \subseteq Markets
    /\ osm_map \subseteq created /\ to_clean \subseteq osm_map

\* Where the other threads are, by where main() is.
ThreadsByMain ==
    /\ main_pc \in Before => created = {} /\ snapshot = {} /\ wd_pc = "off" /\ scan_pc = "off"
    /\ main_pc \in {"stop_osms", "join_watchdog", "join_osms", "exited"} => scan_pc = "ended"
    /\ main_pc \in {"join_osms", "exited"} => wd_pc = "ended" /\ helpers = "joined"
    /\ helpers = "joined" => main_pc \in {"join_osms", "exited", "aborted"}
    /\ main_pc = "exited" => \A m \in osm_map : pc[m] = "done"

\* A machine leaves osm_map only after its thread has been joined.
JoinedFirst == \A m \in created \ osm_map : pc[m] = "done"

\* A market that was known leaves markets_ only 60 s after its resolution; a
\* machine that is gone belongs to such a market, and no copy of markets_ that
\* is still to be used has it.
Left(m) == m \notin known /\ phase[m] >= Gone

GoneForGood ==
    /\ \A m \in created \cup snapshot : m \in known \/ phase[m] >= Gone
    /\ main_pc \in {"sync_lock", "sync_join"} => \A m \in created \ snapshot : Left(m)
    /\ \A m \in created \ osm_map : Left(m)
    /\ main_pc = "sync_lock" => (created \ osm_map) \cap snapshot = {}
    /\ main_pc = "sync_join" => to_clean \cap snapshot = {}

BotInv == BotType /\ ThreadsByMain /\ JoinedFirst /\ GoneForGood

\* The initial state satisfies the invariant.
LEMMA BotStart == BotInit => BotInv
  BY DEF BotInit, Init, BotInv, BotType, ThreadsByMain, JoinedFirst, GoneForGood, Before,
     PcValues

\* The machines' threads and the clock keep the invariant.
LEMMA MachineStep ==
    ASSUME BotInv, Lives, UNCHANGED <<mainVars, scannerVars, watchVars, g_shutdown>>
    PROVE  BotInv'
<1>1. BotType'
  BY DEF Lives, BotInv, BotType
<1>2. ThreadsByMain' /\ JoinedFirst'
  BY DEF Lives, BotInv, BotType, ThreadsByMain, JoinedFirst
<1>3. \A m \in Markets : phase[m] >= Gone => phase'[m] >= Gone
  BY DEF Lives, BotInv, BotType, Gone
<1>4. GoneForGood'
  BY <1>3 DEF BotInv, BotType, GoneForGood, Left
<1> QED  BY <1>1, <1>2, <1>4 DEF BotInv

\* The scanner, the watchdog and the signal handler keep the invariant.
LEMMA HelperStep ==
    ASSUME BotInv, Scanner \/ Watchdog \/ trip \/ feed_end \/ signal_handler
    PROVE  BotInv'
<1>1. UNCHANGED <<pc, phase, mainVars>>
  BY DEF Scanner, Watchdog, scan_once, check_lifecycle, fire_done, run_loop, fire_callback,
     trip, flatten_all, watchdog_end, signal_handler, feed_end
<1>2. ThreadsByMain'
  BY <1>1 DEF BotInv, ThreadsByMain, Before, WatchStopped, Running, Scanner, Watchdog,
     scan_once, check_lifecycle, fire_done, run_loop, fire_callback, trip, flatten_all,
     watchdog_end, signal_handler, feed_end
<1>3. JoinedFirst'
  BY <1>1 DEF BotInv, JoinedFirst
<1>4. CASE UNCHANGED known
  BY <1>1, <1>2, <1>3, <1>4 DEF BotInv, BotType, GoneForGood, Left
<1>5. CASE scan_once
  <2>1. PICK found \in SUBSET Discoverable : known' = known \cup found
    BY <1>5 DEF scan_once
  <2>2. \A m \in found : m \in Markets /\ ~(phase[m] >= Gone)
    BY <2>1 DEF Discoverable, BotInv, BotType, Expired, Gone
  <2>3. BotType' /\ GoneForGood'
    BY <1>1, <2>1, <2>2 DEF BotInv, BotType, GoneForGood, Left
  <2> QED  BY <1>2, <1>3, <2>3 DEF BotInv
<1>6. CASE check_lifecycle
  <2>1. known' = {m \in known : phase[m] < Gone}
    BY <1>6 DEF check_lifecycle
  <2>2. \A m \in Markets : phase[m] >= Gone <=> ~(phase[m] < Gone)
    BY DEF BotInv, BotType, Gone
  <2>3. BotType' /\ GoneForGood'
    BY <1>1, <2>1, <2>2 DEF BotInv, BotType, GoneForGood, Left
  <2> QED  BY <1>2, <1>3, <2>3 DEF BotInv
<1> QED
  BY <1>4, <1>5, <1>6 DEF Scanner, Watchdog, fire_done, run_loop, fire_callback, trip,
     flatten_all, watchdog_end, signal_handler, feed_end

\* std::terminate leaves everything as it is, and nothing runs any more.
LEMMA AbortStep ==
    ASSUME BotInv, feed_throws \/ scan_throws
    PROVE  BotInv'
  BY DEF feed_throws, scan_throws, BotInv, BotType, ThreadsByMain, Before, JoinedFirst,
     GoneForGood, Left

\* main() keeps the invariant.
LEMMA MainStep ==
    ASSUME BotInv, start_ok \/ start_fails \/ Main
    PROVE  BotInv'
<1>1. UNCHANGED <<pc, phase>>
  BY DEF start_ok, start_fails, Main, scan_now, build_osms, loop_break, sync_snapshot,
     sync_osms, sync_join, sync_done, stop_threads, stop_osms, join_watchdog, join_osms
<1>2. CASE start_ok \/ start_fails
  BY <1>1, <1>2
  DEF start_ok, start_fails, return_from_main, BotInv, BotType, ThreadsByMain, Before,
      JoinedFirst, GoneForGood, Left
<1>3. CASE scan_now
  <2>1. known' \subseteq Markets /\ created = {} /\ snapshot = {}
    BY <1>3 DEF scan_now, Discoverable, BotInv, ThreadsByMain, Before
  <2> QED
    BY <1>1, <1>3, <2>1
    DEF scan_now, BotInv, BotType, ThreadsByMain, Before, JoinedFirst, GoneForGood, Left
<1>4. CASE build_osms
  <2>1. created = {} /\ snapshot = {} /\ osm_map = {} /\ to_clean = {} /\ helpers # "joined"
    BY <1>4 DEF build_osms, BotInv, BotType, ThreadsByMain, Before
  <2> QED
    BY <1>1, <1>4, <2>1
    DEF build_osms, BotInv, BotType, ThreadsByMain, Before, JoinedFirst, GoneForGood, Left
<1>5. CASE loop_break \/ stop_threads \/ stop_osms \/ sync_done
  BY <1>1, <1>5
  DEF loop_break, stop_threads, stop_osms, sync_done, BotInv, BotType, ThreadsByMain, Before,
      JoinedFirst, GoneForGood, Left
<1>6. CASE sync_snapshot
  BY <1>1, <1>6
  DEF sync_snapshot, BotInv, BotType, ThreadsByMain, Before, JoinedFirst, GoneForGood, Left
<1>7. CASE sync_osms
  BY <1>1, <1>7
  DEF sync_osms, BotInv, BotType, ThreadsByMain, Before, JoinedFirst, GoneForGood, Left
<1>8. ASSUME NEW m \in Markets, sync_join(m) PROVE BotInv'
  BY <1>1, <1>8
  DEF sync_join, BotInv, BotType, ThreadsByMain, Before, JoinedFirst, GoneForGood, Left
<1>9. CASE join_watchdog \/ join_osms
  BY <1>1, <1>9
  DEF join_watchdog, join_osms, return_from_main, BotInv, BotType, ThreadsByMain, Before,
      JoinedFirst, GoneForGood, Left
<1> QED  BY <1>2, <1>3, <1>4, <1>5, <1>6, <1>7, <1>8, <1>9 DEF Main

\* The invariant holds for any number of markets and machines.
THEOREM BotInvariance == BotSpec => []BotInv
<1>1. ASSUME BotInv, [BotNext]_botVars PROVE BotInv'
  <2>1. pc \in [Markets -> PcValues] /\ phase \in [Markets -> Nat]
    BY <1>1 DEF BotInv, BotType
  <2>2. CASE UNCHANGED botVars
    BY <2>2, <1>1 DEF BotInv, BotType, ThreadsByMain, JoinedFirst, GoneForGood, Left
  <2>3. ASSUME NEW m \in Markets, Machine(m) \/ World(m) PROVE BotInv'
    BY <1>1, <2>1, <2>3, ThreadLives, WorldLives, MachineStep DEF Machine, World
  <2> QED  BY <1>1, <2>2, <2>3, HelperStep, AbortStep, MainStep DEF BotNext
<1> QED  BY <1>1, BotStart, PTL DEF BotSpec

\* No interleaving of scans, syncs, flattens and shutdown destroys a machine under
\* its running thread, or returns from main() with a machine's thread unjoined.
THEOREM ThreadsKeepMachines == BotSpec => []ThreadHasMachine
<1>1. BotInv => ThreadHasMachine
  BY DEF BotInv, BotType, ThreadsByMain, JoinedFirst, ThreadHasMachine, Before
<1> QED  BY <1>1, BotInvariance, PTL

\* A destroyed machine is never made again: a stale copy of markets_ is the only
\* way back, and it is gone before the machine is.
THEOREM NoSecondMachine == BotSpec => OneMachinePerMarket
<1>1. ASSUME BotInv, [BotNext]_botVars
      PROVE  [\A m \in Markets : m \in osm_map' \ osm_map => m \notin created]_botVars
  <2>1. CASE build_osms
    BY <1>1, <2>1 DEF build_osms, BotInv, ThreadsByMain, Before
  <2>2. CASE sync_osms
    BY <1>1, <2>2 DEF sync_osms, BotInv, GoneForGood
  <2>3. CASE osm_map' \subseteq osm_map
    BY <2>3
  <2> QED
    BY <1>1, <2>1, <2>2, <2>3 DEF BotNext, Main, Scanner, Watchdog, start_ok, start_fails,
       scan_now, loop_break, sync_snapshot, sync_join, sync_done, stop_threads, stop_osms,
       join_watchdog, join_osms, scan_once, check_lifecycle, fire_done, run_loop,
       fire_callback, trip, flatten_all, watchdog_end, signal_handler, feed_end, feed_throws,
       scan_throws, Machine, World
<1> QED  BY <1>1, BotInvariance, PTL DEF BotSpec, OneMachinePerMarket

-----------------------------------------------------------------------------
(* The lifecycle callbacks.                                                *)

\* Deadlines in the order of their times.
Ascending(s) == \A i, j \in 1..Len(s) : i < j => Due[s[i]] < Due[s[j]]

\* Every deadline of s comes before every one of t.
Precedes(s, t) == \A i \in 1..Len(s), j \in 1..Len(t) : Due[s[i]] < Due[t[j]]

CallType ==
    /\ fired \in [Markets -> SUBSET Deadlines]
    /\ told \in [Markets -> SUBSET Deadlines]
    /\ pending \in [Markets -> Seq(Deadlines)]

\* A flag is set only together with those of the earlier deadlines.
FlagsClosed ==
    \A m \in Markets, d, e \in Deadlines : d \in fired[m] /\ Due[e] <= Due[d] => e \in fired[m]

\* What has been called back came before what is still to be.
CallsOrdered ==
    \A m \in Markets :
        /\ Ascending(pending[m])
        /\ \A e \in told[m], i \in 1..Len(pending[m]) : Due[e] < Due[pending[m][i]]

\* The flags remember every callback of a market in markets_; a market that is
\* not there has none, or is gone and will not be found again.
CallsFlagged ==
    \A m \in Markets :
        /\ m \in known =>
              told[m] \subseteq fired[m] /\ \A i \in 1..Len(pending[m]) : pending[m][i] \in fired[m]
        /\ m \notin known /\ phase[m] < Gone => told[m] = {} /\ pending[m] = <<>>

\* Callbacks wait only while the scanner fires them, and none comes before its
\* thread runs.
CallsWhenFiring ==
    /\ scan_pc # "fire" => \A m \in Markets : pending[m] = <<>>
    /\ scan_pc = "off" => \A m \in Markets : told[m] = {}

CallInv == CallType /\ FlagsClosed /\ CallsOrdered /\ CallsFlagged /\ CallsWhenFiring

\* Appending later deadlines keeps the order.
LEMMA AppendLater ==
    ASSUME NEW s \in Seq(Deadlines), NEW t \in Seq(Deadlines),
           Ascending(s), Ascending(t), Precedes(s, t)
    PROVE  Ascending(s \o t)
<1>1. /\ Len(s \o t) = Len(s) + Len(t)
      /\ \A i \in 1..Len(s) + Len(t) :
            (s \o t)[i] = IF i <= Len(s) THEN s[i] ELSE t[i - Len(s)]
  OBVIOUS
<1>2. SUFFICES ASSUME NEW i \in 1..Len(s) + Len(t), NEW j \in 1..Len(s) + Len(t), i < j
               PROVE  Due[(s \o t)[i]] < Due[(s \o t)[j]]
  BY <1>1 DEF Ascending
<1>3. CASE j <= Len(s)
  BY <1>1, <1>2, <1>3 DEF Ascending
<1>4. CASE i <= Len(s) /\ ~(j <= Len(s))
  <2>1. j - Len(s) \in 1..Len(t)
    BY <1>2, <1>4
  <2> QED  BY <1>1, <1>2, <1>4, <2>1 DEF Precedes
<1>5. CASE ~(i <= Len(s))
  <2>1. i - Len(s) \in 1..Len(t) /\ j - Len(s) \in 1..Len(t) /\ i - Len(s) < j - Len(s)
    BY <1>2, <1>5
  <2> QED  BY <1>1, <1>2, <1>5, <2>1 DEF Ascending
<1> QED  BY <1>3, <1>4, <1>5

\* What an appended list holds.
LEMMA AppendHolds ==
    ASSUME NEW s \in Seq(Deadlines), NEW t \in Seq(Deadlines),
           NEW i \in 1..Len(s \o t)
    PROVE  \/ \E k \in 1..Len(s) : (s \o t)[i] = s[k]
           \/ \E k \in 1..Len(t) : (s \o t)[i] = t[k]
<1>1. CASE i <= Len(s)
  BY <1>1
<1>2. CASE ~(i <= Len(s))
  <2>1. i - Len(s) \in 1..Len(t) /\ (s \o t)[i] = t[i - Len(s)]
    BY <1>2
  <2> QED  BY <2>1
<1> QED  BY <1>1, <1>2

\* One test of check_lifecycle.
LEMMA CollectedOne ==
    ASSUME NEW m \in Markets, NEW d \in Deadlines
    PROVE  /\ Collected(m, d) \in Seq(Deadlines) /\ Ascending(Collected(m, d))
           /\ \A i \in 1..Len(Collected(m, d)) :
                 Collected(m, d)[i] = d /\ phase[m] >= Due[d] /\ d \notin fired[m]
<1>1. CASE phase[m] >= Due[d] /\ d \notin fired[m]
  <2>1. Collected(m, d) = <<d>>
    BY <1>1 DEF Collected
  <2> QED  BY <1>1, <2>1 DEF Ascending
<1>2. CASE ~(phase[m] >= Due[d] /\ d \notin fired[m])
  <2>1. Collected(m, d) = <<>>
    BY <1>2 DEF Collected
  <2> QED  BY <2>1 DEF Ascending
<1> QED  BY <1>1, <1>2

\* check_lifecycle collects deadlines that have passed and are not flagged, in
\* the order of their times.
LEMMA DueInOrder ==
    ASSUME NEW m \in Markets
    PROVE  /\ DueCallbacks(m) \in Seq(Deadlines) /\ Ascending(DueCallbacks(m))
           /\ \A i \in 1..Len(DueCallbacks(m)) :
                 LET d == DueCallbacks(m)[i]
                 IN  d \in Deadlines /\ phase[m] >= Due[d] /\ d \notin fired[m]
<1> DEFINE New(s) == s \in Seq(Deadlines) /\ Ascending(s)
                     /\ \A i \in 1..Len(s) : s[i] \in Deadlines
                          /\ phase[m] >= Due[s[i]] /\ s[i] \notin fired[m]
           Upto(s, n) == \A i \in 1..Len(s) : Due[s[i]] <= n
           C(d) == Collected(m, d)
<1>1. /\ Due["entries_stopped"] = 1 /\ Due["quotes_cancelled"] = 2
      /\ Due["positions_closed"] = 3 /\ Due["force_closed"] = 4
      /\ Deadlines = {"entries_stopped", "quotes_cancelled", "positions_closed", "force_closed"}
  BY DEF Due, Deadlines
<1>2. ASSUME NEW d \in Deadlines, NEW s, New(s), Upto(s, Due[d] - 1)
      PROVE  New(s \o C(d)) /\ Upto(s \o C(d), Due[d])
  <2>1. C(d) \in Seq(Deadlines) /\ Ascending(C(d))
        /\ \A i \in 1..Len(C(d)) : C(d)[i] = d /\ phase[m] >= Due[d] /\ d \notin fired[m]
    BY CollectedOne
  <2>2. Due[d] \in Nat /\ \A i \in 1..Len(s) : Due[s[i]] \in Nat
    BY <1>1, <1>2
  <2>3. Precedes(s, C(d))
    BY <1>2, <2>1, <2>2 DEF Precedes
  <2>4. s \o C(d) \in Seq(Deadlines) /\ Ascending(s \o C(d))
    BY <1>2, <2>1, <2>3, AppendLater
  <2>5. \A i \in 1..Len(s \o C(d)) :
           \/ (s \o C(d))[i] = d /\ phase[m] >= Due[d] /\ d \notin fired[m]
           \/ \E k \in 1..Len(s) : (s \o C(d))[i] = s[k]
    BY <1>2, <2>1, AppendHolds
  <2>6. \A i \in 1..Len(s \o C(d)) : Due[(s \o C(d))[i]] <= Due[d]
    <3> SUFFICES ASSUME NEW i \in 1..Len(s \o C(d))
                 PROVE  Due[(s \o C(d))[i]] <= Due[d]
      OBVIOUS
    <3>1. PICK x : x = (s \o C(d))[i]  OBVIOUS
    <3>2. x = d \/ \E k \in 1..Len(s) : x = s[k]  BY <2>5, <3>1
    <3>3. ASSUME NEW k \in 1..Len(s)
          PROVE  Due[s[k]] <= Due[d]
      <4>1. Due[s[k]] <= Due[d] - 1 /\ Due[s[k]] \in Nat  BY <1>2, <2>2
      <4> QED  BY <2>2, <4>1
    <3>4. Due[d] <= Due[d]  BY <2>2
    <3>5. Due[x] <= Due[d]  BY <3>2, <3>3, <3>4
    <3> QED  BY <3>1, <3>5
  <2> QED  BY <1>2, <2>4, <2>5, <2>6
<1>3. New(C("entries_stopped")) /\ Upto(C("entries_stopped"), 1)
  BY <1>1, CollectedOne
<1> HIDE DEF New, Upto, C
<1>4. New(C("entries_stopped") \o C("quotes_cancelled"))
      /\ Upto(C("entries_stopped") \o C("quotes_cancelled"), 2)
  <2>1. Due["quotes_cancelled"] - 1 = 1
    BY <1>1
  <2> QED  BY <1>1, <1>2, <1>3, <2>1
<1>5. New(C("entries_stopped") \o C("quotes_cancelled") \o C("positions_closed"))
      /\ Upto(C("entries_stopped") \o C("quotes_cancelled") \o C("positions_closed"), 3)
  <2>1. Due["positions_closed"] - 1 = 2
    BY <1>1
  <2> QED  BY <1>1, <1>2, <1>4, <2>1
<1>6. New(C("entries_stopped") \o C("quotes_cancelled") \o C("positions_closed")
          \o C("force_closed"))
  <2>1. Due["force_closed"] - 1 = 3
    BY <1>1
  <2> QED  BY <1>1, <1>2, <1>5, <2>1
<1> QED  BY <1>6 DEF DueCallbacks, New, C

\* The flags after check_lifecycle: those of the deadlines that have passed join
\* the earlier ones, so they stay closed under earlier deadlines.
LEMMA FlagsAfter ==
    ASSUME NEW k \in SUBSET Markets, phase \in [Markets -> Nat],
           fired \in [Markets -> SUBSET Deadlines], FlagsClosed
    PROVE  /\ FiredAfter(k) \in [Markets -> SUBSET Deadlines]
           /\ \A m \in Markets, d, e \in Deadlines :
                 d \in FiredAfter(k)[m] /\ Due[e] <= Due[d] => e \in FiredAfter(k)[m]
           /\ \A m \in k : phase[m] < Gone =>
                 FiredAfter(k)[m] = fired[m] \cup {d \in Deadlines : phase[m] >= Due[d]}
           /\ \A m \in Markets \ k : FiredAfter(k)[m] = fired[m]
<1>1. \A d \in Deadlines : Due[d] \in Nat
  BY DEF Due, Deadlines
<1>2. FiredAfter(k) \in [Markets -> SUBSET Deadlines]
  BY DEF FiredAfter
<1>3. ASSUME NEW m \in Markets, NEW d \in Deadlines, NEW e \in Deadlines,
             d \in FiredAfter(k)[m], Due[e] <= Due[d]
      PROVE  e \in FiredAfter(k)[m]
  <2>1. phase[m] \in Nat /\ (d \in fired[m] => e \in fired[m])
        /\ (phase[m] >= Due[d] => phase[m] >= Due[e])
    BY <1>1, <1>3 DEF FlagsClosed
  <2> QED  BY <1>3, <2>1 DEF FiredAfter
<1> QED  BY <1>2, <1>3 DEF FiredAfter

\* Steps that leave the scanner's state alone, or only move its thread on when it
\* has nothing to call back.
LEMMA CallsStay ==
    ASSUME CallInv, phase \in [Markets -> Nat], phase' \in [Markets -> Nat],
           UNCHANGED <<known, fired, pending, told>>,
           \A m \in Markets : phase[m] <= phase'[m],
           \/ UNCHANGED scan_pc
           \/ scan_pc' # "off" /\ \A m \in Markets : pending[m] = <<>>
    PROVE  CallInv'
<1>1. CallType' /\ FlagsClosed' /\ CallsOrdered'
  BY DEF CallInv, CallType, FlagsClosed, CallsOrdered, Ascending
<1>2. \A m \in Markets : phase'[m] < Gone => phase[m] < Gone
  BY DEF Gone
<1>3. CallsFlagged'
  BY <1>2 DEF CallInv, CallsFlagged
<1>4. CallsWhenFiring'
  BY DEF CallInv, CallsWhenFiring
<1> QED  BY <1>1, <1>3, <1>4 DEF CallInv

\* scan_once: a market that is found has not been called back.
LEMMA CallsScan ==
    ASSUME CallInv, phase \in [Markets -> Nat], scan_once
    PROVE  CallInv'
<1>1. UNCHANGED <<phase, fired, pending, told>> /\ scan_pc' = "check" /\ scan_pc = "scan"
  BY DEF scan_once
<1>2. PICK found \in SUBSET Discoverable : known' = known \cup found
  BY DEF scan_once
<1>3. \A m \in found : m \in Markets /\ m \notin known /\ phase[m] < Gone
  BY <1>2 DEF Discoverable, Expired, Gone
<1>4. CallType' /\ FlagsClosed' /\ CallsOrdered' /\ CallsWhenFiring'
  BY <1>1 DEF CallInv, CallType, FlagsClosed, CallsOrdered, Ascending, CallsWhenFiring
<1>5. CallsFlagged'
  <2>1. \A m \in Markets : pending[m] = <<>>
    BY <1>1 DEF CallInv, CallsWhenFiring
  <2>2. \A m \in found : told[m] = {}
    BY <1>3 DEF CallInv, CallsFlagged
  <2> QED  BY <1>1, <1>2, <2>1, <2>2 DEF CallInv, CallsFlagged
<1> QED  BY <1>4, <1>5 DEF CallInv

\* check_lifecycle: what it collects was not flagged, so everything called back
\* before came earlier.
LEMMA CallsCollect ==
    ASSUME CallInv, phase \in [Markets -> Nat], known \subseteq Markets, check_lifecycle
    PROVE  CallInv'
<1>1. /\ UNCHANGED <<phase, told>> /\ scan_pc' = "fire" /\ fired' = FiredAfter(known)
      /\ pending' = [m \in Markets |-> IF m \in known THEN DueCallbacks(m) ELSE <<>>]
      /\ known' = {m \in known : phase[m] < Gone} /\ scan_pc = "check"
  BY DEF check_lifecycle
<1>2. /\ fired' \in [Markets -> SUBSET Deadlines] /\ FlagsClosed'
      /\ \A m \in known' : fired'[m] = fired[m] \cup {d \in Deadlines : phase[m] >= Due[d]}
  <2>1. known \in SUBSET Markets /\ fired \in [Markets -> SUBSET Deadlines] /\ FlagsClosed
    BY DEF CallInv, CallType
  <2>2. FiredAfter(known) \in [Markets -> SUBSET Deadlines]
    BY <2>1, FlagsAfter
  <2>3. \A m \in Markets, d, e \in Deadlines :
           d \in FiredAfter(known)[m] /\ Due[e] <= Due[d] => e \in FiredAfter(known)[m]
    BY <2>1, FlagsAfter
  <2>4. \A m \in known : phase[m] < Gone =>
           FiredAfter(known)[m] = fired[m] \cup {d \in Deadlines : phase[m] >= Due[d]}
    BY <2>1, FlagsAfter
  <2> QED  BY <1>1, <2>2, <2>3, <2>4 DEF FlagsClosed
<1>3. \A m \in known :
         /\ pending'[m] = DueCallbacks(m) /\ pending'[m] \in Seq(Deadlines)
         /\ Ascending(pending'[m])
         /\ \A i \in 1..Len(pending'[m]) :
               /\ pending'[m][i] \in Deadlines /\ pending'[m][i] \notin fired[m]
               /\ phase[m] >= Due[pending'[m][i]]
  BY <1>1, DueInOrder
<1>4. \A m \in Markets \ known : pending'[m] = <<>>
  BY <1>1
<1>5. CallType'
  <2>1. ASSUME NEW m \in Markets PROVE pending'[m] \in Seq(Deadlines)
    <3>1. CASE m \in known
      BY <1>3, <3>1
    <3>2. CASE m \notin known
      <4>1. pending'[m] = <<>>
        BY <1>4, <3>2
      <4> QED  BY <4>1
    <3> QED  BY <3>1, <3>2
  <2>2. pending' = [m \in Markets |-> pending'[m]]
    BY <1>1
  <2>3. pending' \in [Markets -> Seq(Deadlines)]
    BY <2>1, <2>2
  <2> QED  BY <1>1, <1>2, <2>3 DEF CallInv, CallType
<1>6. CallsOrdered'
  <2>1. ASSUME NEW m \in Markets PROVE Ascending(pending'[m])
    BY <1>3, <1>4 DEF Ascending
  <2>2. ASSUME NEW m \in Markets, NEW e \in told'[m], NEW i \in 1..Len(pending'[m])
        PROVE  Due[e] < Due[pending'[m][i]]
    <3>1. m \in known
      BY <1>4, <2>2
    <3>2. e \in fired[m] /\ e \in Deadlines
      BY <1>1, <2>2, <3>1 DEF CallInv, CallType, CallsFlagged
    <3>3. pending'[m][i] \in Deadlines /\ pending'[m][i] \notin fired[m]
      BY <1>3, <2>2, <3>1
    <3>4. ~(Due[pending'[m][i]] <= Due[e])
      BY <3>2, <3>3 DEF CallInv, FlagsClosed
    <3>5. Due[e] \in Nat /\ Due[pending'[m][i]] \in Nat
      BY <3>2, <3>3 DEF Due, Deadlines
    <3> QED  BY <3>4, <3>5
  <2> QED  BY <2>1, <2>2 DEF CallsOrdered, Ascending
<1>7. CallsFlagged'
  <2>1. ASSUME NEW m \in Markets, m \in known'
        PROVE  told'[m] \subseteq fired'[m] /\ \A i \in 1..Len(pending'[m]) : pending'[m][i] \in fired'[m]
    <3>1. m \in known
      BY <1>1, <2>1
    <3>2. told[m] \subseteq fired[m]
      BY <3>1 DEF CallInv, CallsFlagged
    <3> QED  BY <1>1, <1>2, <1>3, <2>1, <3>1, <3>2
  <2>2. ASSUME NEW m \in Markets, m \notin known', phase'[m] < Gone
        PROVE  told'[m] = {} /\ pending'[m] = <<>>
    <3>1. m \notin known
      BY <1>1, <2>2
    <3> QED  BY <1>1, <1>4, <2>2, <3>1 DEF CallInv, CallsFlagged
  <2> QED  BY <2>1, <2>2 DEF CallsFlagged
<1>8. CallsWhenFiring'
  BY <1>1 DEF CallsWhenFiring
<1> QED  BY <1>2, <1>5, <1>6, <1>7, <1>8 DEF CallInv

\* A callback: the first of those that wait is the earliest, and it is later than
\* everything called back before.
LEMMA CallsFire ==
    ASSUME CallInv, NEW n \in Markets, fire_callback(n)
    PROVE  CallInv' /\ \A e \in told[n] : Due[e] < Due[Head(pending[n])]
<1>1. /\ UNCHANGED <<phase, known, fired, scan_pc>> /\ scan_pc = "fire" /\ pending[n] # <<>>
      /\ told' = [told EXCEPT ![n] = told[n] \cup {Head(pending[n])}]
      /\ pending' = [pending EXCEPT ![n] = Tail(pending[n])]
  BY DEF fire_callback
<1>2. pending[n] \in Seq(Deadlines) /\ told[n] \in SUBSET Deadlines
  BY DEF CallInv, CallType
<1>3. /\ Len(pending[n]) \in Nat \ {0} /\ Head(pending[n]) = pending[n][1]
      /\ Head(pending[n]) \in Deadlines
      /\ Tail(pending[n]) \in Seq(Deadlines) /\ Len(Tail(pending[n])) = Len(pending[n]) - 1
      /\ \A i \in 1..Len(Tail(pending[n])) : Tail(pending[n])[i] = pending[n][i + 1]
  BY <1>1, <1>2
<1>4. \A e \in told[n] : Due[e] < Due[Head(pending[n])]
  BY <1>3 DEF CallInv, CallsOrdered
<1>5. told'[n] = told[n] \cup {Head(pending[n])} /\ pending'[n] = Tail(pending[n])
      /\ \A m \in Markets \ {n} : told'[m] = told[m] /\ pending'[m] = pending[m]
  BY <1>1 DEF CallInv, CallType
<1>6. CallType'
  BY <1>1, <1>2, <1>3 DEF CallInv, CallType
<1>7. FlagsClosed'
  BY <1>1 DEF CallInv, FlagsClosed
<1>8. CallsOrdered'
  <2>1. ASSUME NEW i \in 1..Len(Tail(pending[n]))
        PROVE  /\ i + 1 \in 1..Len(pending[n]) /\ Tail(pending[n])[i] = pending[n][i + 1]
               /\ Due[pending[n][1]] < Due[pending[n][i + 1]]
    BY <1>3 DEF CallInv, CallsOrdered, Ascending
  <2>2. Ascending(pending'[n])
    BY <1>3, <1>5, <2>1 DEF CallInv, CallsOrdered, Ascending
  <2>3. ASSUME NEW e \in told'[n], NEW i \in 1..Len(pending'[n])
        PROVE  Due[e] < Due[pending'[n][i]]
    <3>1. i \in 1..Len(Tail(pending[n])) /\ pending'[n][i] = pending[n][i + 1]
      BY <1>5, <2>1
    <3>2. CASE e \in told[n]  BY <2>1, <3>1, <3>2 DEF CallInv, CallsOrdered
    <3>3. CASE e = pending[n][1]  BY <2>1, <3>1, <3>3
    <3> QED  BY <1>3, <1>5, <3>2, <3>3
  <2> QED  BY <1>5, <2>2, <2>3 DEF CallInv, CallsOrdered, Ascending
<1>9. CallsFlagged'
  <2>1. n \in known \/ ~(phase[n] < Gone)
    BY <1>1 DEF CallInv, CallsFlagged
  <2>2. n \in known => told'[n] \subseteq fired[n] /\ \A i \in 1..Len(pending'[n]) : pending'[n][i] \in fired[n]
    BY <1>3, <1>5 DEF CallInv, CallsFlagged
  <2> QED  BY <1>1, <1>5, <2>1, <2>2 DEF CallInv, CallsFlagged
<1>10. CallsWhenFiring'
  BY <1>1 DEF CallInv, CallsWhenFiring
<1> QED  BY <1>4, <1>6, <1>7, <1>8, <1>9, <1>10 DEF CallInv

\* scan_now: flags without callbacks.
LEMMA CallsFirstScan ==
    ASSUME BotInv, CallInv, scan_now
    PROVE  CallInv'
<1>1. UNCHANGED <<phase, pending, told, scan_pc>> /\ scan_pc = "off"
  BY DEF scan_now, BotInv, ThreadsByMain, Before
<1>2. \A m \in Markets : pending[m] = <<>> /\ told[m] = {}
  BY <1>1 DEF CallInv, CallsWhenFiring
<1>3. PICK found \in SUBSET Discoverable : known' = found /\ fired' = FiredAfter(found)
  BY DEF scan_now
<1>4. found \in SUBSET Markets
  BY <1>3 DEF Discoverable
<1>5. fired' \in [Markets -> SUBSET Deadlines] /\ FlagsClosed'
  BY <1>3, <1>4, FlagsAfter DEF BotInv, BotType, CallInv, CallType, FlagsClosed
<1>6. CallType' /\ CallsOrdered' /\ CallsFlagged' /\ CallsWhenFiring'
  BY <1>1, <1>2, <1>5 DEF CallInv, CallType, CallsOrdered, Ascending, CallsFlagged, CallsWhenFiring
<1> QED  BY <1>5, <1>6 DEF CallInv

\* The order of the callbacks is kept by every step of every thread.
LEMMA CallStep ==
    ASSUME BotInv, CallInv, [BotNext]_botVars
    PROVE  CallInv'
<1>1. pc \in [Markets -> PcValues] /\ phase \in [Markets -> Nat] /\ known \subseteq Markets
  BY DEF BotInv, BotType
<1>2. CASE scan_once \/ check_lifecycle \/ scan_now \/ \E m \in Markets : fire_callback(m)
  BY <1>1, <1>2, CallsScan, CallsCollect, CallsFirstScan, CallsFire
<1>3. CASE fire_done \/ run_loop \/ build_osms
  <2>1. UNCHANGED <<phase, known, fired, pending, told>> /\ scan_pc' # "off"
    BY <1>3 DEF fire_done, run_loop, build_osms
  <2>2. \A m \in Markets : pending[m] = <<>>
    BY <1>3 DEF fire_done, run_loop, build_osms, CallInv, CallsWhenFiring, BotInv, ThreadsByMain, Before
  <2> QED  BY <1>1, <2>1, <2>2, CallsStay
<1>4. ASSUME NEW m \in Markets, Machine(m) \/ World(m) PROVE CallInv'
  <2>1. Lives
    BY <1>1, <1>4, ThreadLives, WorldLives DEF Machine, World
  <2>2. UNCHANGED <<known, fired, pending, told, scan_pc>>
    BY <1>4 DEF Machine, World
  <2> QED  BY <1>1, <2>1, <2>2, CallsStay DEF Lives
<1>5. CASE UNCHANGED <<phase, known, fired, pending, told, scan_pc>>
  BY <1>1, <1>5, CallsStay
<1> QED
  BY <1>2, <1>3, <1>4, <1>5 DEF BotNext, Main, Scanner, Watchdog, start_ok, start_fails,
     loop_break, sync_snapshot, sync_osms, sync_join, sync_done, stop_threads, stop_osms,
     join_watchdog, join_osms, trip, flatten_all, watchdog_end, signal_handler,
     feed_end, feed_throws, scan_throws

\* Nothing has been called back at first.
LEMMA CallStart ==
    ASSUME BotInit
    PROVE  CallInv
<1>1. \A m \in Markets : fired[m] = {} /\ told[m] = {} /\ pending[m] = <<>>
  BY DEF BotInit
<1>2. CallType
  BY DEF BotInit, CallType
<1> QED
  BY <1>1, <1>2 DEF CallInv, FlagsClosed, CallsOrdered, Ascending, CallsFlagged, CallsWhenFiring

\* For any number of markets each deadline is called back at most once, and after
\* every earlier one, also when several pass between two polls, when the scanner
\* waits for main() to join threads, and for the markets of the first scan.
THEOREM CallbacksOrdered == BotSpec => CallbacksOnceInOrder
<1>1. BotInit => CallInv
  BY CallStart
<1>2. ASSUME BotInv, CallInv, [BotNext]_botVars
      PROVE  [\A m \in Markets : scan_pc = "fire" /\ pending'[m] # pending[m] =>
                 \A e \in told[m] : Due[e] < Due[Head(pending[m])]]_botVars
  <2>1. ASSUME NEW n \in Markets, fire_callback(n), NEW m \in Markets, pending'[m] # pending[m]
        PROVE  \A e \in told[m] : Due[e] < Due[Head(pending[m])]
    <3>1. m = n
      BY <1>2, <2>1 DEF fire_callback, CallInv, CallType
    <3> QED  BY <1>2, <2>1, <3>1, CallsFire
  <2>2. CASE scan_pc # "fire" \/ UNCHANGED pending
    BY <2>2
  <2> QED
    BY <1>2, <2>1, <2>2 DEF BotNext, Main, Scanner, Watchdog, start_ok, start_fails, scan_now,
       build_osms, loop_break, sync_snapshot, sync_osms, sync_join, sync_done, stop_threads,
       stop_osms, join_watchdog, join_osms, scan_once, check_lifecycle, fire_done, run_loop,
       trip, flatten_all, watchdog_end, signal_handler, feed_end, feed_throws, scan_throws,
       Machine, World
<1> QED  BY <1>1, <1>2, CallStep, BotInvariance, PTL DEF BotSpec, CallbacksOnceInOrder

-----------------------------------------------------------------------------
(* The machines inside the process.                                        *)

\* A store of another thread into the flags of the machines: a callback, a flatten
\* of every machine at once, stop().
Stores ==
    /\ UNCHANGED osmPrivate
    /\ flags' \in [Markets -> SUBSET Deadlines]
    /\ stop' \in [Markets -> BOOLEAN] /\ flatten' \in [Markets -> BOOLEAN]

\* To the machines, a step of the process is one of their own, one of the world
\* around them, or a store into their flags.
LEMMA BotStepKind ==
    ASSUME TypeOK, CallInv, [BotNext]_botVars
    PROVE  [Next]_vars \/ Stores
<1>1. flags \in [Markets -> SUBSET Deadlines] /\ stop \in [Markets -> BOOLEAN]
      /\ flatten \in [Markets -> BOOLEAN]
  BY DEF TypeOK
<1>2. ASSUME NEW m \in Markets, Machine(m) \/ World(m) PROVE Next
  <2>1. Thread(m) \/ Outside(m)
    BY <1>2 DEF Machine, World, Outside
  <2> QED  BY <2>1 DEF Next
<1>3. ASSUME NEW m \in Markets, fire_callback(m) PROVE Stores
  <2>1. Head(pending[m]) \in Deadlines
    BY <1>3 DEF fire_callback, CallInv, CallType
  <2>2. flags' \in [Markets -> SUBSET Deadlines]
    BY <1>1, <1>3, <2>1 DEF fire_callback
  <2> QED  BY <1>1, <1>3, <2>2 DEF fire_callback, Stores
<1>4. CASE flatten_all
  <2>1. flatten' = [m \in Markets |-> m \in osm_map \/ flatten[m]]
    BY <1>4 DEF flatten_all
  <2>2. flatten' \in [Markets -> BOOLEAN]
    BY <2>1, Zenon
  <2> QED  BY <1>1, <1>4, <2>2 DEF flatten_all, Stores
<1>5. CASE sync_osms \/ stop_osms
  <2>1. stop' \in [Markets -> BOOLEAN]
    BY <1>5, Zenon DEF sync_osms, stop_osms
  <2> QED  BY <1>1, <1>5, <2>1 DEF sync_osms, stop_osms, Stores
<1>6. CASE UNCHANGED vars
  BY <1>6
<1> QED
  BY <1>2, <1>3, <1>4, <1>5, <1>6 DEF BotNext, Main, Scanner, Watchdog, start_ok, start_fails,
     scan_now, build_osms, loop_break, sync_snapshot, sync_join, sync_done, stop_threads,
     join_watchdog, join_osms, scan_once, check_lifecycle, fire_done, run_loop, trip,
     watchdog_end, signal_handler, feed_end, feed_throws, scan_throws

\* What the machines keep by themselves they keep inside the process.
MachinesInv == Inv /\ CountIsOpen /\ LotsInv

LEMMA MachinesStep ==
    ASSUME MachinesInv, CallInv, [BotNext]_botVars
    PROVE  MachinesInv' /\ [Ledger!Next]_(Ledger!ledgerVars)
<1>1. TypeOK /\ Inv
  BY DEF MachinesInv, Inv
<1>2. CASE [Next]_vars
  <2>1. Inv' /\ TypeOK'
    BY <1>1, <1>2, InvStep DEF Inv
  <2>2. [Ledger!Next]_(Ledger!ledgerVars)
    BY <1>1, <1>2, BooksStep
  <2> QED  BY <1>1, <2>1, <2>2, CountStep, LotsStep DEF MachinesInv
<1>3. CASE Stores
  <2>1. Inv'
    BY <1>1, <1>3 DEF Stores, Inv, TypeOK, BookedIffOpen, OrdersMatchState, IsOpen
  <2>2. UNCHANGED <<pos, count, exposure>>
    BY <1>3 DEF Stores
  <2>3. CountIsOpen' /\ LotsInv'
    BY <2>2 DEF MachinesInv, CountIsOpen, IsOpen, LotsInv, BookedLots
  <2> QED  BY <2>1, <2>2, <2>3, Stutter DEF MachinesInv
<1> QED  BY <1>1, <1>2, <1>3, BotStepKind

\* In the whole process, from start-up to shutdown, with callbacks, flattening and
\* joins from other threads at any time: every position is booked in the states
\* that look after it, orders match states, and the two counters that all machines
\* share are the number and the sum of the open positions.
THEOREM MachinesInProcess ==
    BotSpec => [](BookedIffOpen /\ OrdersMatchState /\ CountIsOpen /\ ExposureIsBooked)
<1>1. BotInit => MachinesInv /\ CallInv
  BY InitInv, CountInit, LotsInit, CallStart DEF BotInit, MachinesInv
<1>2. MachinesInv => BookedIffOpen /\ OrdersMatchState /\ CountIsOpen /\ ExposureIsBooked
  BY DEF MachinesInv, Inv, LotsInv, ExposureIsBooked
<1> QED  BY <1>1, <1>2, MachinesStep, CallStep, BotInvariance, PTL DEF BotSpec

\* The machines of the running process implement the position ledger.
THEOREM ProcessImplementsLedger == BotSpec => Books
<1>1. BotInit => MachinesInv /\ CallInv /\ Ledger!Init
  BY InitInv, CountInit, LotsInit, LedgerInit, CallStart DEF BotInit, MachinesInv
<1> QED
  BY <1>1, MachinesStep, CallStep, BotInvariance, PTL DEF BotSpec, Books, Ledger!Spec

\* A store into the flags takes no part in what the machines may not do.
LEMMA RulesStep ==
    ASSUME MachinesInv, OpenUnclosed, CallInv, [BotNext]_botVars
    PROVE  /\ OpenUnclosed'
           /\ [OnceStep]_vars /\ [FailedStep]_vars
           /\ [LateStep]_vars /\ [LeftStep]_vars
<1>1. TypeOK /\ Inv
  BY DEF MachinesInv, Inv
<1>2. CASE [Next]_vars
  BY <1>1, <1>2, UnclosedStep, OnceHolds, FailedHolds, LateHolds, LeftHolds
<1>3. CASE Stores
  <2>1. UNCHANGED <<st, pos, pc, closes, quotes>>
    BY <1>3 DEF Stores, osmPrivate
  <2>2. OpenUnclosed' /\ LateStep /\ LeftStep
    BY <2>1 DEF OpenUnclosed, LateStep, LateEntryOf, LeftStep, LeftBehind
  <2>3. OnceStep
    BY <1>1, <2>1 DEF OnceStep, TypeOK
  <2>4. FailedStep
    BY <1>1, <2>1 DEF FailedStep, Inv, OrdersMatchState
  <2> QED  BY <2>2, <2>3, <2>4
<1> QED  BY <1>1, <1>2, <1>3, BotStepKind

\* The rules of the machines hold in the process, whichever thread calls them and
\* when: ordinary exits do not sell twice, a failed entry leaves at most one trade
\* in an account, after T-120s only a quoting machine enters, and quotes are left
\* behind for two reasons only.
THEOREM RulesInProcess ==
    BotSpec => /\ ClosedOnce /\ FailedEntryBounded
               /\ LateEntryOnlyFromQuotes /\ QuotesLeftBehind
<1>1. BotInit => MachinesInv /\ CallInv /\ OpenUnclosed
  BY InitInv, CountInit, LotsInit, CallStart, UnclosedInit DEF BotInit, MachinesInv
<1>2. BotSpec => /\ [][OnceStep]_vars /\ [][FailedStep]_vars
                 /\ [][LateStep]_vars /\ [][LeftStep]_vars
  BY <1>1, RulesStep, MachinesStep, CallStep, BotInvariance, PTL DEF BotSpec
<1> QED
  BY <1>2 DEF ClosedOnce, OnceStep, FailedEntryBounded,
     FailedStep, LateEntryOnlyFromQuotes, LateStep, LateEntryOf, QuotesLeftBehind, LeftStep,
     LeftBehind

\* What limits the books while entries do not overlap, no other thread disturbs.
LEMMA LimitsStep ==
    ASSUME "maker" \notin Signals, MachinesInv, MakerOff, CallInv, [BotNext]_botVars
    PROVE  /\ MakerOff'
           /\ FiresAlone /\ CapInv => CapInv'
           /\ EvalsAlone /\ SlotInv => SlotInv'
<1>1. TypeOK /\ Inv
  BY DEF MachinesInv, Inv
<1>2. CASE [Next]_vars
  BY <1>1, <1>2, MakerOffStep, CapStep, SlotStep
<1>3. CASE Stores
  <2>1. UNCHANGED <<st, pc, snap, quotes, stray, count, exposure>>
    BY <1>3 DEF Stores, osmPrivate
  <2> QED  BY <2>1 DEF MakerOff, CapInv, SlotInv
<1> QED  BY <1>1, <1>2, <1>3, BotStepKind

\* The two limits on all machines together, in the process: with taker entries only,
\* MAX_TOTAL_EXPOSURE_USDC and MAX_OPEN_POSITIONS are exceeded only where entries
\* of two machines overlap. Neither the kill switch nor a deadline, a machine that
\* is stopped or one that is created while another waits makes them fail.
THEOREM LimitsInProcess ==
    BotSpec => /\ CapNeedsOverlap
               /\ "maker" \notin Signals => ([]EvalsAlone => [](count <= MaxOpen))
<1> SUFFICES ASSUME "maker" \notin Signals
             PROVE  BotSpec => /\ []FiresAlone => [](exposure <= MaxTotal)
                               /\ []EvalsAlone => [](count <= MaxOpen)
  BY DEF CapNeedsOverlap
<1>1. BotInit => MachinesInv /\ CallInv /\ MakerOff /\ CapInv /\ SlotInv
  BY InitInv, CountInit, LotsInit, CallStart, MakerOffInit, CapInit, SlotInit
  DEF BotInit, MachinesInv
<1>2. MachinesInv /\ MakerOff /\ CallInv /\ [BotNext]_botVars =>
        /\ MakerOff'
        /\ FiresAlone /\ CapInv => CapInv'
        /\ EvalsAlone /\ SlotInv => SlotInv'
  BY LimitsStep
<1>3. (CapInv => exposure <= MaxTotal) /\ (SlotInv => count <= MaxOpen)
  BY DEF CapInv, SlotInv
<1> QED
  BY <1>1, <1>2, <1>3, MachinesStep, CallStep, BotInvariance, PTL DEF BotSpec

=============================================================================
