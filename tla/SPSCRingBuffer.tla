--------------------------- MODULE SPSCRingBuffer ---------------------------
(***************************************************************************)
(* data::SPSCRingBuffer, the lock-free buffer between the feed thread,     *)
(* which pushes ticks, and the signal thread, which pops them.  Every      *)
(* atomic load and store is a step; copying an element is a step with a    *)
(* beginning and an end, and a slot holds Torn while it is being written.  *)
(* The free-running counters wrap at Wrap, as size_t does at 2^64.         *)
(***************************************************************************)
EXTENDS Integers, Sequences

CONSTANTS N,        \* capacity, a power of two
          Wrap,     \* number of values of size_t
          Ticks,    \* the elements
          Torn      \* contents of a slot that is being written

ASSUME RingAssumption ==
    /\ N \in Nat \ {0} /\ Wrap \in Nat
    /\ Wrap >= 2 * N /\ Wrap % N = 0
    /\ Torn \notin Ticks

VARIABLES buf, head, tail,
          push_pc, push_v, push_t,   \* push(): position, v, t
          pop_pc, pop_h, out         \* pop(): position, h, out

producerVars == <<push_pc, push_v, push_t>>
consumerVars == <<pop_pc, pop_h, out>>
vars == <<buf, head, tail, producerVars, consumerVars>>

Slots == 0..(N - 1)
Minus(a, b) == (a - b) % Wrap
Succ(a) == (a + 1) % Wrap

Init ==
    /\ buf = [i \in Slots |-> Torn]
    /\ head = 0 /\ tail = 0
    /\ push_pc = "idle" /\ push_v = Torn /\ push_t = 0
    /\ pop_pc = "idle" /\ pop_h = 0 /\ out = Torn

-----------------------------------------------------------------------------
\* push: load head_ (only this thread writes it) and tail_.
PushLoad(v) ==
    /\ push_pc = "idle"
    /\ push_pc' = "loaded" /\ push_v' = v /\ push_t' = tail
    /\ UNCHANGED <<buf, head, tail, consumerVars>>

PushFull ==
    /\ push_pc = "loaded"
    /\ Minus(head, push_t) = N
    /\ push_pc' = "idle"
    /\ UNCHANGED <<buf, head, tail, push_v, push_t, consumerVars>>

\* Mutant: without the test for a full buffer.
PushWriteBeginUnchecked ==
    /\ push_pc = "loaded"
    /\ buf' = [buf EXCEPT ![head % N] = Torn]
    /\ push_pc' = "writing"
    /\ UNCHANGED <<head, tail, push_v, push_t, consumerVars>>

PushWriteBegin ==
    /\ push_pc = "loaded"
    /\ Minus(head, push_t) # N
    /\ buf' = [buf EXCEPT ![head % N] = Torn]
    /\ push_pc' = "writing"
    /\ UNCHANGED <<head, tail, push_v, push_t, consumerVars>>

\* Mutant: the element goes to the slot after the one that is published.
PushWriteNextSlot ==
    /\ push_pc = "writing"
    /\ buf' = [buf EXCEPT ![(head + 1) % N] = push_v]
    /\ push_pc' = "written"
    /\ UNCHANGED <<head, tail, push_v, push_t, consumerVars>>

PushWriteEnd ==
    /\ push_pc = "writing"
    /\ buf' = [buf EXCEPT ![head % N] = push_v]
    /\ push_pc' = "written"
    /\ UNCHANGED <<head, tail, push_v, push_t, consumerVars>>

PushPublish ==
    /\ push_pc = "written"
    /\ head' = Succ(head)
    /\ push_pc' = "idle"
    /\ UNCHANGED <<buf, tail, push_v, push_t, consumerVars>>

\* pop: load tail_ (only this thread writes it) and head_.
PopLoad ==
    /\ pop_pc = "idle"
    /\ pop_pc' = "loaded" /\ pop_h' = head
    /\ UNCHANGED <<buf, head, tail, producerVars, out>>

PopEmpty ==
    /\ pop_pc = "loaded"
    /\ tail = pop_h
    /\ pop_pc' = "idle"
    /\ UNCHANGED <<buf, head, tail, producerVars, pop_h, out>>

PopCopyBegin ==
    /\ pop_pc = "loaded"
    /\ tail # pop_h
    /\ pop_pc' = "copying"
    /\ UNCHANGED <<buf, head, tail, producerVars, pop_h, out>>

\* Mutant: the slot after the oldest element is copied.
PopCopySecond ==
    /\ pop_pc = "copying"
    /\ out' = buf[(tail + 1) % N]
    /\ pop_pc' = "copied"
    /\ UNCHANGED <<buf, head, tail, producerVars, pop_h>>

PopCopyEnd ==
    /\ pop_pc = "copying"
    /\ out' = buf[tail % N]
    /\ pop_pc' = "copied"
    /\ UNCHANGED <<buf, head, tail, producerVars, pop_h>>

PopRelease ==
    /\ pop_pc = "copied"
    /\ tail' = Succ(tail)
    /\ pop_pc' = "idle"
    /\ UNCHANGED <<buf, head, producerVars, pop_h, out>>

Push == PushFull \/ PushWriteBegin \/ PushWriteEnd \/ PushPublish
Pop  == PopLoad \/ PopEmpty \/ PopCopyBegin \/ PopCopyEnd \/ PopRelease

Next == Push \/ Pop \/ \E v \in Ticks : PushLoad(v)

Spec == Init /\ [][Next]_vars

-----------------------------------------------------------------------------
\* The two threads never touch the same slot at once, though they share no
\* lock and each works from a stale copy of the other's counter.
SlotExclusive ==
    ~(push_pc = "writing" /\ pop_pc = "copying" /\ head % N = tail % N)

\* The elements between tail_ and head_.
Contents == [i \in 1..Minus(head, tail) |-> buf[(tail + i - 1) % N]]

\* The buffer is a FIFO of N elements, across the wrap of the counters.
Fifo == INSTANCE BoundedFifo WITH Values <- Ticks, Capacity <- N, queue <- Contents
ImplementsFifo == Fifo!Spec

\* A full buffer is eventually read from: with a consumer that keeps polling, the
\* feed thread never drops ticks for ever.
Drains == (Minus(head, tail) = N) ~> (Minus(head, tail) < N)

=============================================================================
