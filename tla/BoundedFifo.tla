---------------------------- MODULE BoundedFifo ----------------------------
(***************************************************************************)
(* What the tick buffer promises its two threads: values come out in the   *)
(* order they were accepted, none twice, none invented, and at most        *)
(* Capacity of them wait.                                                  *)
(***************************************************************************)
EXTENDS Naturals, Sequences

CONSTANTS Values, Capacity

VARIABLE queue

Init == queue = <<>>

Enqueue(v) ==
    /\ Len(queue) < Capacity
    /\ queue' = Append(queue, v)

Dequeue ==
    /\ queue # <<>>
    /\ queue' = Tail(queue)

Next == Dequeue \/ \E v \in Values : Enqueue(v)

Spec == Init /\ [][Next]_queue
=============================================================================
