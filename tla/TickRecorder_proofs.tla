------------------------ MODULE TickRecorder_proofs ------------------------
(***************************************************************************)
(* Proofs about the tick recorder, for every capacity of the buffer, every *)
(* set of ticks and any number of connections.                             *)
(***************************************************************************)
EXTENDS TickRecorder, SPSCRingBuffer_proofs

\* Which thread can be where: a push belongs to a running feed, a pop to the
\* drain loop, and the drain thread leaves its loop only after the feed thread
\* is done, with an empty buffer.
ThreadsAgree ==
    /\ main_pc = "open" => feed_pc = "off" /\ drain_pc = "off"
    /\ push_pc # "idle" => feed_pc = "run"
    /\ pop_pc # "idle" => drain_pc = "pop"
    /\ g_feed_done => feed_pc = "ended"
    /\ drain_pc \in {"empty", "flush", "ended"} => g_feed_done
    /\ drain_pc \in {"flush", "ended"} => head = tail

\* Every accepted tick that is not in the file is in the buffer, or has been
\* popped and is about to be written.
NothingLost ==
    /\ unwritten \in Seq(Elements)
    /\ IF drain_pc = "write"
       THEN unwritten # <<>> /\ Head(unwritten) = out /\ Tail(unwritten) = Contents
       ELSE unwritten = Contents

RecInv == RingInv /\ DataInv /\ ThreadsAgree /\ NothingLost

USE DEF producerVars, consumerVars, vars, mainVars, feedVars, ringVars, recorderVars

\* Every step of the recorder is a step of the buffer or leaves it alone.
LEMMA RingSteps ==
    ASSUME [RecNext]_recorderVars
    PROVE  [Next]_vars
  BY DEF RecNext, MainThread, FeedThread, DrainThread, open_fails, start_threads,
     sig_handler, watch_ends, stop_feed, join_feed, join_drain, feed_enter, feed_throws,
     feed_message, feed_push, feed_publish, feed_return, feed_done, DrainMoves, drain_check,
     drain_empty, drain_pop, drain_pop_empty, drain_pop_done, drain_write, drain_close,
     Next, Push, Pop

\* The initial state satisfies the invariant.
LEMMA RecStart == RecInit => RecInv
<1> SUFFICES ASSUME RecInit PROVE RecInv
  OBVIOUS
<1>1. RingInv
  BY RingStart DEF RecInit
<1>2. ThreadsAgree
  BY DEF RecInit, Init, ThreadsAgree
<1>3. DataInv
  BY DEF RecInit, Init, DataInv, Elements
<1>4. Contents = <<>>
  <2>1. Minus(head, tail) = 0
    BY <1>1, MinusValue DEF RecInit, Init, RingInv, RingTypeOK
  <2> QED  BY <1>1, <1>3, <2>1, ContentsType, EmptySeq
<1>5. NothingLost
  BY <1>4, EmptySeq DEF RecInit, NothingLost
<1> QED  BY <1>1, <1>2, <1>3, <1>5 DEF RecInv

\* Steps that touch neither the buffer nor the file.
LEMMA ControlSteps ==
    ASSUME RecInv,
           \/ UNCHANGED recorderVars
           \/ open_fails \/ start_threads \/ sig_handler \/ feed_throws \/ MainThread
           \/ feed_enter \/ feed_return \/ feed_done
           \/ drain_check \/ drain_empty \/ drain_close
    PROVE  ThreadsAgree' /\ NothingLost'
<1>1. UNCHANGED <<buf, head, tail, out, unwritten>> /\ (drain_pc' = "write" <=> drain_pc = "write")
  BY DEF RecInv, ThreadsAgree, open_fails, start_threads, sig_handler, watch_ends, stop_feed,
     join_feed, join_drain, MainThread, feed_enter, feed_throws, feed_return, feed_done,
     DrainMoves, drain_check, drain_empty, drain_close
<1>2. Contents' = Contents
  BY <1>1 DEF Contents
<1>3. NothingLost'
  BY <1>1, <1>2 DEF RecInv, NothingLost
<1>4. ThreadsAgree'
  BY DEF RecInv, RingInv, RingTypeOK, ThreadsAgree, open_fails, start_threads, sig_handler,
     watch_ends, stop_feed, join_feed, join_drain, MainThread, feed_enter, feed_throws,
     feed_return, feed_done, DrainMoves, drain_check, drain_empty, drain_close
<1> QED  BY <1>3, <1>4

\* The steps of push(): a tick enters the buffer and the history together.
LEMMA PushSteps ==
    ASSUME RecInv, [RecNext]_recorderVars,
           feed_push \/ feed_publish \/ \E v \in Ticks : feed_message(v)
    PROVE  ThreadsAgree' /\ NothingLost'
<1>1. ContentsStep
  BY RingSteps, ContentsMove DEF RecInv
<1>2. UNCHANGED <<drain_pc, g_feed_done, main_pc, feed_pc, pop_pc, out>>
  BY DEF feed_push, feed_publish, feed_message, PushFull, PushWriteBegin, PushWriteEnd,
     PushPublish, PushLoad
<1>3. feed_pc = "run"
  BY DEF RecInv, ThreadsAgree, feed_push, feed_publish, feed_message, PushFull,
     PushWriteBegin, PushWriteEnd, PushPublish
<1>4. ThreadsAgree'
  BY <1>2, <1>3 DEF RecInv, ThreadsAgree
<1>5. ~PopRelease
  BY DEF feed_push, feed_publish, feed_message, PushFull, PushWriteBegin, PushWriteEnd,
     PushPublish, PushLoad, PopRelease
<1>6. CASE PushPublish
  <2>1. push_v \in Ticks /\ Contents' = Append(Contents, push_v)
    BY <1>1, <1>5, <1>6 DEF ContentsStep
  <2>2. unwritten' = Append(unwritten, push_v)
    BY <1>6 DEF feed_push, feed_publish, feed_message, PushFull, PushWriteBegin, PushWriteEnd,
       PushPublish, PushLoad
  <2>3. push_v \in Elements /\ unwritten \in Seq(Elements)
    BY <2>1 DEF RecInv, NothingLost, Elements
  <2>4. CASE drain_pc = "write"
    <3>1. /\ unwritten # <<>> /\ Head(unwritten) = out /\ Tail(unwritten) = Contents
      BY <2>4 DEF RecInv, NothingLost
    <3>2. /\ Append(unwritten, push_v) \in Seq(Elements) /\ Append(unwritten, push_v) # <<>>
          /\ Head(Append(unwritten, push_v)) = Head(unwritten)
          /\ Tail(Append(unwritten, push_v)) = Append(Tail(unwritten), push_v)
      BY <2>3, <3>1, AppendProperties, HeadTailAppend
    <3> QED  BY <1>2, <1>4, <2>1, <2>2, <2>4, <3>1, <3>2 DEF NothingLost
  <2>5. CASE drain_pc # "write"
    <3>1. unwritten = Contents
      BY <2>5 DEF RecInv, NothingLost
    <3>2. Append(unwritten, push_v) \in Seq(Elements)
      BY <2>3
    <3> QED  BY <1>2, <1>4, <2>1, <2>2, <2>5, <3>1, <3>2 DEF NothingLost
  <2> QED  BY <2>4, <2>5
<1>7. CASE ~PushPublish
  <2>1. Contents' = Contents
    BY <1>1, <1>5, <1>7 DEF ContentsStep
  <2>2. unwritten' = unwritten
    BY <1>7 DEF feed_push, feed_publish, feed_message
  <2> QED  BY <1>2, <1>4, <2>1, <2>2 DEF RecInv, NothingLost
<1> QED  BY <1>6, <1>7

\* The steps of pop() and the write to the file.
LEMMA DrainSteps ==
    ASSUME RecInv, [RecNext]_recorderVars,
           drain_pop \/ drain_pop_empty \/ drain_pop_done \/ drain_write
    PROVE  ThreadsAgree' /\ NothingLost'
<1>1. ContentsStep
  BY RingSteps, ContentsMove DEF RecInv
<1>2. UNCHANGED <<g_feed_done, main_pc, feed_pc, push_pc>> /\ ~PushPublish
  BY DEF drain_pop, drain_pop_empty, drain_pop_done, drain_write, PopLoad, PopEmpty,
     PopCopyBegin, PopCopyEnd, PopRelease, PushPublish
<1>3. ThreadsAgree'
  BY <1>2 DEF RecInv, RingInv, RingTypeOK, ThreadsAgree, DrainMoves, drain_pop,
     drain_pop_empty, drain_pop_done, drain_write, PopLoad, PopEmpty, PopCopyBegin,
     PopCopyEnd, PopRelease
<1>4. CASE drain_pop \/ drain_pop_empty
  <2>1. Contents' = Contents
    BY <1>1, <1>2, <1>4 DEF ContentsStep, drain_pop, drain_pop_empty, PopLoad, PopEmpty,
       PopCopyBegin, PopCopyEnd, PopRelease
  <2>2. unwritten' = unwritten /\ drain_pc # "write" /\ drain_pc' # "write"
    BY <1>4 DEF drain_pop, drain_pop_empty, DrainMoves
  <2> QED  BY <1>3, <2>1, <2>2 DEF RecInv, NothingLost
<1>5. CASE drain_pop_done
  <2>1. /\ Contents # <<>> /\ out = Head(Contents) /\ Contents' = Tail(Contents)
    BY <1>1, <1>2, <1>5 DEF ContentsStep, drain_pop_done, PopRelease
  <2>2. unwritten' = unwritten /\ out' = out /\ drain_pc = "pop" /\ drain_pc' = "write"
    BY <1>5 DEF drain_pop_done, DrainMoves, PopRelease
  <2> QED  BY <1>3, <2>1, <2>2 DEF RecInv, NothingLost
<1>6. CASE drain_write
  <2>1. /\ drain_pc = "write" /\ drain_pc' = "loop" /\ unwritten' = Tail(unwritten)
        /\ UNCHANGED <<buf, head, tail>>
    BY <1>6 DEF drain_write, DrainMoves
  <2>2. Contents' = Contents
    BY <2>1 DEF Contents
  <2>3. Tail(unwritten) \in Seq(Elements)
    BY <2>1, HeadTailProperties DEF RecInv, NothingLost
  <2> QED  BY <1>3, <2>1, <2>2, <2>3 DEF RecInv, NothingLost
<1> QED  BY <1>4, <1>5, <1>6

\* The invariant of the three threads together.
THEOREM RecorderInvariance == RecSpec => []RecInv
<1>1. ASSUME RecInv, [RecNext]_recorderVars PROVE RecInv'
  <2>1. RingInv' /\ DataInv'
    BY <1>1, RingSteps, RingStep, DataStep DEF RecInv
  <2>2. ThreadsAgree' /\ NothingLost'
    BY <1>1, ControlSteps, PushSteps, DrainSteps DEF RecNext, FeedThread, DrainThread
  <2> QED  BY <2>1, <2>2 DEF RecInv
<1> QED  BY <1>1, RecStart, PTL DEF RecSpec

\* No race between stop(), the last pushes and the drain loop loses a tick: the
\* file is closed only when it has every tick the buffer accepted.
THEOREM FileComplete == RecSpec => []ClosedFileIsComplete
<1>1. RecInv => ClosedFileIsComplete
  <2> SUFFICES ASSUME RecInv, drain_pc \in {"flush", "ended"}
               PROVE  unwritten = <<>> /\ feed_pc = "ended"
    BY DEF ClosedFileIsComplete
  <2>1. feed_pc = "ended" /\ head = tail /\ unwritten = Contents
    BY DEF RecInv, ThreadsAgree, NothingLost
  <2>2. Minus(head, tail) = 0
    BY <2>1, MinusValue DEF RecInv, RingInv, RingTypeOK, Counters
  <2>3. Contents = <<>>
    BY <2>2, ContentsType, EmptySeq DEF RecInv
  <2> QED  BY <2>1, <2>3
<1> QED  BY <1>1, RecorderInvariance, PTL

\* What is written to the file is always the oldest tick that is not in it.
THEOREM FileInOrder == RecSpec => WrittenInOrder
<1>1. RecInv => (drain_write => unwritten # <<>> /\ out = Head(unwritten))
  BY DEF RecInv, NothingLost, drain_write, DrainMoves
<1> QED  BY <1>1, RecorderInvariance, PTL DEF WrittenInOrder

\* Inside the recorder, with threads that start and stop, the buffer still
\* implements the bounded FIFO.
THEOREM RecorderFifo == RecSpec => ImplementsFifo
<1>1. RecInit => Init
  BY DEF RecInit
<1>2. [RecNext]_recorderVars => [Next]_vars
  BY RingSteps
<1>3. RecSpec => Spec
  BY <1>1, <1>2, PTL DEF RecSpec, Spec
<1> QED  BY <1>3, RingIsFifo, PTL

=============================================================================
