---------------------------- MODULE TickRecorder ----------------------------
(***************************************************************************)
(* The tick-recorder tool: the feed thread pushes ticks into the buffer of *)
(* SPSCRingBuffer, the drain thread pops and writes them, and main() waits *)
(* for a signal, stops the feed and joins both.  Pushes and pops keep the  *)
(* atomic steps of the buffer.                                             *)
(*                                                                         *)
(* The connections are those of FeedManager, reduced to what matters here: *)
(* each may deliver one more message after running_ has been cleared.      *)
(* The file is the ticks still to be written to it; fwrite succeeds.       *)
(***************************************************************************)
EXTENDS SPSCRingBuffer

CONSTANT Connections    \* coroutines that read from an exchange

ASSUME ConnectionsAssumption == Connections \in Nat

VARIABLES
    main_pc,      \* "open", "watch", "stop", "join_feed", "join_drain", "exited"
    feed_pc,      \* the feed thread: "off", "enter", "run", "return", "ended"
    drain_pc,     \* the drain thread: "off", "loop", "empty", "pop", "write",
                  \*   "flush", "ended"
    g_shutdown, g_feed_done,
    running,      \* FeedManager::running_
    reading,      \* coroutines that have not seen running_ cleared
    unwritten     \* history: ticks push() accepted that are not in the file

mainVars   == <<main_pc, g_shutdown>>
feedVars   == <<feed_pc, g_feed_done, reading>>
ringVars   == vars
recorderVars == <<ringVars, mainVars, feedVars, drain_pc, running, unwritten>>

RecInit ==
    /\ Init
    /\ main_pc = "open" /\ feed_pc = "off" /\ drain_pc = "off"
    /\ g_shutdown = FALSE /\ g_feed_done = FALSE
    /\ running = FALSE /\ reading = Connections
    /\ unwritten = <<>>

-----------------------------------------------------------------------------
(* main()                                                                  *)

\* The directory or the file cannot be opened: main() returns 1.
open_fails ==
    /\ main_pc = "open"
    /\ main_pc' = "exited"
    /\ UNCHANGED <<ringVars, g_shutdown, feedVars, drain_pc, running, unwritten>>

\* The file is open and both threads are created.
start_threads ==
    /\ main_pc = "open"
    /\ main_pc' = "watch" /\ feed_pc' = "enter" /\ drain_pc' = "loop"
    /\ UNCHANGED <<ringVars, g_shutdown, g_feed_done, reading, running, unwritten>>

\* The handler is installed before the file is opened.
sig_handler ==
    /\ ~g_shutdown /\ main_pc # "exited"
    /\ g_shutdown' = TRUE
    /\ UNCHANGED <<ringVars, main_pc, feedVars, drain_pc, running, unwritten>>

watch_ends ==
    /\ main_pc = "watch" /\ g_shutdown
    /\ main_pc' = "stop"
    /\ UNCHANGED <<ringVars, g_shutdown, feedVars, drain_pc, running, unwritten>>

\* Mutant: main() joins the feed thread without stopping the feed.
stop_feed_omitted ==
    /\ main_pc = "stop"
    /\ main_pc' = "join_feed"
    /\ UNCHANGED <<ringVars, g_shutdown, feedVars, drain_pc, running, unwritten>>

\* feed.stop().
stop_feed ==
    /\ main_pc = "stop"
    /\ running' = FALSE
    /\ main_pc' = "join_feed"
    /\ UNCHANGED <<ringVars, g_shutdown, feedVars, drain_pc, unwritten>>

join_feed ==
    /\ main_pc = "join_feed" /\ feed_pc = "ended"
    /\ main_pc' = "join_drain"
    /\ UNCHANGED <<ringVars, g_shutdown, feedVars, drain_pc, running, unwritten>>

join_drain ==
    /\ main_pc = "join_drain" /\ drain_pc = "ended"
    /\ main_pc' = "exited"
    /\ UNCHANGED <<ringVars, g_shutdown, feedVars, drain_pc, running, unwritten>>

MainThread == watch_ends \/ stop_feed \/ join_feed \/ join_drain

-----------------------------------------------------------------------------
(* The feed thread                                                         *)

\* run() sets running_, whatever stop() has done before.
feed_enter ==
    /\ feed_pc = "enter"
    /\ running' = TRUE
    /\ feed_pc' = "run"
    /\ UNCHANGED <<ringVars, mainVars, g_feed_done, reading, drain_pc, unwritten>>

\* run() throws: main() is told to shut down.
feed_throws ==
    /\ feed_pc = "run" /\ push_pc = "idle"
    /\ feed_pc' = "return"
    /\ g_shutdown' = TRUE
    /\ UNCHANGED <<ringVars, main_pc, g_feed_done, reading, drain_pc, running, unwritten>>

\* A message is received; its coroutine goes on only while running_ is set.
feed_message(v) ==
    /\ feed_pc = "run"
    /\ reading > 0
    /\ reading' = IF running THEN reading ELSE reading - 1
    /\ PushLoad(v)
    /\ UNCHANGED <<mainVars, feed_pc, g_feed_done, drain_pc, running, unwritten>>

feed_push ==
    /\ PushFull \/ PushWriteBegin \/ PushWriteEnd
    /\ UNCHANGED <<mainVars, feedVars, drain_pc, running, unwritten>>

feed_publish ==
    /\ PushPublish
    /\ unwritten' = Append(unwritten, push_v)
    /\ UNCHANGED <<mainVars, feedVars, drain_pc, running>>

\* Every coroutine has ended, at its last message or by an error: run() returns.
\* stop() only clears running_, so this may never happen.
feed_return ==
    /\ feed_pc = "run" /\ ~running /\ push_pc = "idle"
    /\ feed_pc' = "return"
    /\ UNCHANGED <<ringVars, mainVars, g_feed_done, reading, drain_pc, running, unwritten>>

\* Mutant: the drain thread is told before the last messages are handled.
feed_done_early ==
    /\ feed_pc \in {"run", "return"} /\ ~running
    /\ g_feed_done' = TRUE
    /\ feed_pc' = IF feed_pc = "return" THEN "ended" ELSE feed_pc
    /\ UNCHANGED <<ringVars, mainVars, reading, drain_pc, running, unwritten>>

feed_done ==
    /\ feed_pc = "return"
    /\ g_feed_done' = TRUE
    /\ feed_pc' = "ended"
    /\ UNCHANGED <<ringVars, mainVars, reading, drain_pc, running, unwritten>>

FeedThread == feed_enter \/ feed_push \/ feed_publish \/ feed_done

-----------------------------------------------------------------------------
(* The drain thread                                                        *)

DrainMoves(from, to) ==
    /\ drain_pc = from
    /\ drain_pc' = to

\* The first half of the loop condition.
drain_check ==
    /\ DrainMoves("loop", IF g_feed_done THEN "empty" ELSE "pop")
    /\ UNCHANGED <<ringVars, mainVars, feedVars, running, unwritten>>

\* Mutant: the thread ends with the feed, whatever is left in the buffer.
drain_empty_ignored ==
    /\ DrainMoves("empty", "flush")
    /\ UNCHANGED <<ringVars, mainVars, feedVars, running, unwritten>>

\* The second half: ring.empty(); only this thread writes tail_.
drain_empty ==
    /\ DrainMoves("empty", IF head = tail THEN "flush" ELSE "pop")
    /\ UNCHANGED <<ringVars, mainVars, feedVars, running, unwritten>>

drain_pop ==
    /\ drain_pc = "pop"
    /\ PopLoad \/ PopCopyBegin \/ PopCopyEnd
    /\ UNCHANGED <<mainVars, feedVars, drain_pc, running, unwritten>>

\* pop() fails: 50 us later the loop begins again.
drain_pop_empty ==
    /\ DrainMoves("pop", "loop")
    /\ PopEmpty
    /\ UNCHANGED <<mainVars, feedVars, running, unwritten>>

drain_pop_done ==
    /\ DrainMoves("pop", "write")
    /\ PopRelease
    /\ UNCHANGED <<mainVars, feedVars, running, unwritten>>

drain_write ==
    /\ DrainMoves("write", "loop")
    /\ unwritten' = Tail(unwritten)
    /\ UNCHANGED <<ringVars, mainVars, feedVars, running>>

\* fflush and fclose.
drain_close ==
    /\ DrainMoves("flush", "ended")
    /\ UNCHANGED <<ringVars, mainVars, feedVars, running, unwritten>>

DrainThread ==
    \/ drain_check \/ drain_empty \/ drain_pop \/ drain_pop_empty \/ drain_pop_done
    \/ drain_write \/ drain_close

-----------------------------------------------------------------------------
RecNext ==
    \/ open_fails \/ start_threads \/ sig_handler \/ feed_throws \/ feed_return
    \/ MainThread \/ FeedThread \/ DrainThread
    \/ \E v \in Ticks : feed_message(v)

RecSpec == RecInit /\ [][RecNext]_recorderVars

\* The three threads keep running.  Nothing makes a message or a signal arrive,
\* and nothing ends a read that waits for one: stop() does not cancel it and no
\* idle timeout is set, so the return of run() is not fair.
RecFairSpec ==
    /\ RecSpec
    /\ WF_recorderVars(start_threads \/ open_fails)
    /\ WF_recorderVars(MainThread) /\ WF_recorderVars(FeedThread)
    /\ WF_recorderVars(DrainThread)

-----------------------------------------------------------------------------
\* tick_recorder/main.cpp: "guaranteeing no tick is lost to a race between stop()
\* and the final push_tick() calls": when the file is closed every tick the
\* buffer accepted is in it, and no thread can push another.
ClosedFileIsComplete ==
    drain_pc \in {"flush", "ended"} => unwritten = <<>> /\ feed_pc = "ended"

\* What is written is the oldest tick that has not been: the file has the ticks
\* in the order they were received, none twice, none torn.
WrittenInOrder ==
    [][drain_write => unwritten # <<>> /\ out = Head(unwritten)]_recorderVars

\* Once run() has set running_, a signal or an exception in the feed ends the
\* process with the file closed, provided the reads that are blocked when stop()
\* is called return: on a silent connection main() waits in feed_thread.join().
\* Before run() has set it there is no such promise even so: stop() can overtake
\* run(), which then sets running_ for good.
RecorderEnds ==
    WF_recorderVars(feed_return) =>
      (\/ g_shutdown /\ main_pc = "watch" /\ feed_pc # "enter"
       \/ feed_pc = "return"
       ~> main_pc = "exited" /\ drain_pc = "ended")
=============================================================================
