----------------------- MODULE SPSCRingBuffer_proofs -----------------------
(***************************************************************************)
(* Proofs about the ring buffer, for every capacity and every width of the *)
(* counters that is a multiple of it.                                      *)
(***************************************************************************)
EXTENDS SPSCRingBuffer, SequenceTheorems, TLAPS

Counters == 0..(Wrap - 1)

\* The difference of two counters is computed across the wrap.
LEMMA MinusValue ==
    ASSUME NEW a \in Counters, NEW b \in Counters
    PROVE  Minus(a, b) = IF a >= b THEN a - b ELSE a - b + Wrap
<1>1. Wrap \in Nat /\ Wrap > 0
  BY RingAssumption
<1>2. ASSUME NEW x \in Int, 0 <= x, x < Wrap PROVE x % Wrap = x
  BY <1>1, <1>2
<1>3. ASSUME NEW x \in Int, -Wrap <= x, x < 0 PROVE x % Wrap = x + Wrap
  BY <1>1, <1>3
<1> QED  BY <1>1, <1>2, <1>3 DEF Minus, Counters

\* The successor of a counter.
LEMMA SuccValue ==
    ASSUME NEW a \in Counters
    PROVE  Succ(a) = IF a = Wrap - 1 THEN 0 ELSE a + 1
<1>1. Wrap \in Nat /\ Wrap > 0
  BY RingAssumption
<1>2. ASSUME NEW x \in Int, 0 <= x, x < Wrap PROVE x % Wrap = x
  BY <1>1, <1>2
<1>3. Wrap % Wrap = 0
  BY <1>1
<1> QED  BY <1>1, <1>2, <1>3 DEF Succ, Counters
\* Moving one counter moves the difference by one, across the wrap.
LEMMA MinusMoves ==
    ASSUME NEW a \in Counters, NEW b \in Counters
    PROVE  /\ Succ(a) \in Counters
           /\ Minus(a, b) + 1 < Wrap => Minus(Succ(a), b) = Minus(a, b) + 1
           /\ Minus(a, b) > 0 => Minus(a, Succ(b)) = Minus(a, b) - 1
<1>1. Wrap \in Nat /\ Wrap > 0 /\ a \in Int /\ b \in Int
  BY RingAssumption DEF Counters
<1>2. Succ(a) \in Counters /\ Succ(b) \in Counters
  BY <1>1, SuccValue DEF Counters
<1>3. Minus(a, b) + 1 < Wrap => Minus(Succ(a), b) = Minus(a, b) + 1
  <2>1. /\ Minus(a, b) = IF a >= b THEN a - b ELSE a - b + Wrap
        /\ Minus(Succ(a), b) = IF Succ(a) >= b THEN Succ(a) - b ELSE Succ(a) - b + Wrap
        /\ Succ(a) = IF a = Wrap - 1 THEN 0 ELSE a + 1
    BY <1>2, SuccValue, MinusValue
  <2> QED  BY <1>1, <2>1 DEF Counters
<1>4. Minus(a, b) > 0 => Minus(a, Succ(b)) = Minus(a, b) - 1
  <2>1. /\ Minus(a, b) = IF a >= b THEN a - b ELSE a - b + Wrap
        /\ Minus(a, Succ(b)) = IF a >= Succ(b) THEN a - Succ(b) ELSE a - Succ(b) + Wrap
        /\ Succ(b) = IF b = Wrap - 1 THEN 0 ELSE b + 1
    BY <1>2, SuccValue, MinusValue
  <2> QED  BY <1>1, <2>1 DEF Counters
<1> QED  BY <1>2, <1>3, <1>4

\* A remainder is determined by its range.
LEMMA ModUnique ==
    ASSUME NEW x \in Int, NEW q \in Int, NEW r \in Slots, x = N * q + r
    PROVE  x % N = r
<1>1. N \in Nat \ {0} /\ r \in Int /\ 0 <= r /\ r < N
  BY RingAssumption DEF Slots
<1> DEFINE p == x \div N
           s == x % N
<1>2. x = N * p + s /\ p \in Int /\ s \in Int /\ 0 <= s /\ s < N
  BY <1>1
<1> HIDE DEF p, s
<1>3. N * (q - p) = s - r
  BY <1>1, <1>2
<1>4. CASE q - p >= 1
  <2>1. N * (q - p) >= N  BY <1>1, <1>2, <1>4
  <2> QED  BY <1>1, <1>2, <1>3, <2>1
<1>5. CASE q - p <= -1
  <2>1. N * (q - p) <= -N  BY <1>1, <1>2, <1>5
  <2> QED  BY <1>1, <1>2, <1>3, <2>1
<1>6. CASE q = p
  BY <1>1, <1>2, <1>6 DEF s
<1> QED  BY <1>2, <1>4, <1>5, <1>6

\* Slots repeat every N positions, and the wrap of the counters is one of them.
LEMMA SlotPeriod ==
    ASSUME NEW x \in Nat, NEW y \in Nat, x = y + Wrap
    PROVE  x % N = y % N
<1>1. N \in Nat \ {0} /\ Wrap \in Nat /\ Wrap % N = 0
  BY RingAssumption
<1>2. \A z \in Nat : z = N * (z \div N) + (z % N) /\ z \div N \in Int /\ z % N \in Slots
  BY <1>1 DEF Slots
<1> DEFINE p == y \div N
           r == y % N
           k == Wrap \div N
<1>3. y = N * p + r /\ Wrap = N * k /\ p \in Int /\ k \in Int /\ r \in Slots /\ r \in Int
  BY <1>1, <1>2
<1> HIDE DEF p, r, k
<1>4. x = N * (p + k) + r
  BY <1>1, <1>3
<1>5. x % N = r
  BY <1>3, <1>4, ModUnique
<1> QED  BY <1>5 DEF r

\* Positions less than N apart use different slots.
LEMMA CloseSlots ==
    ASSUME NEW x \in Nat, NEW y \in Nat, 0 < x - y, x - y < N
    PROVE  x % N # y % N
<1>1. N \in Nat \ {0}
  BY RingAssumption
<1>2. SUFFICES ASSUME x % N = y % N PROVE FALSE
  OBVIOUS
<1> DEFINE p == x \div N
           q == y \div N
           r == x % N
<1>3. x = N * p + r /\ y = N * q + r /\ p \in Int /\ q \in Int /\ r \in Int
  BY <1>1, <1>2
<1> HIDE DEF p, q, r
<1>4. x - y = N * (p - q)
  BY <1>1, <1>3
<1>5. CASE p - q >= 1
  <2>1. N * (p - q) >= N  BY <1>1, <1>3, <1>5
  <2> QED  BY <1>1, <1>4, <2>1
<1>6. CASE p - q <= 0
  <2>1. N * (p - q) <= 0  BY <1>1, <1>3, <1>6
  <2> QED  BY <1>1, <1>4, <2>1
<1> QED  BY <1>3, <1>5, <1>6

\* The slot after a counter, across the wrap.
LEMMA NextSlot ==
    ASSUME NEW a \in Counters, NEW j \in Nat
    PROVE  (Succ(a) + j) % N = (a + 1 + j) % N
<1>1. Wrap \in Nat /\ a \in Nat
  BY RingAssumption DEF Counters
<1>2. CASE a = Wrap - 1
  <2>1. Succ(a) + j = j /\ a + 1 + j = j + Wrap /\ j + Wrap \in Nat
    BY <1>1, <1>2, SuccValue
  <2> QED  BY <2>1, SlotPeriod
<1>3. CASE a # Wrap - 1
  BY <1>1, <1>3, SuccValue
<1> QED  BY <1>2, <1>3

\* The slot of head_ is Minus(head, tail) slots after the slot of tail_.
LEMMA HeadSlot ==
    ASSUME NEW a \in Counters, NEW b \in Counters
    PROVE  a % N = (b + Minus(a, b)) % N
<1>1. Wrap \in Nat /\ a \in Nat /\ b \in Nat
  BY RingAssumption DEF Counters
<1>2. CASE a >= b
  BY <1>1, <1>2, MinusValue
<1>3. CASE ~(a >= b)
  <2>1. b + Minus(a, b) = a + Wrap /\ a + Wrap \in Nat
    BY <1>1, <1>3, MinusValue
  <2> QED  BY <1>1, <2>1, SlotPeriod
<1> QED  BY <1>2, <1>3

\* The slot of head_ is none of those in use, unless the buffer is full.
LEMMA FreeSlot ==
    ASSUME NEW a \in Counters, NEW b \in Counters, Minus(a, b) < N,
           NEW j \in Nat, j < Minus(a, b)
    PROVE  (b + j) % N # a % N
<1>1. a \in Nat /\ b \in Nat /\ Minus(a, b) \in Int /\ N \in Nat
  BY RingAssumption, MinusValue DEF Counters
<1>2. (b + Minus(a, b)) % N # (b + j) % N
  <2>1. b + Minus(a, b) \in Nat /\ b + j \in Nat
    BY <1>1
  <2>2. 0 < (b + Minus(a, b)) - (b + j) /\ (b + Minus(a, b)) - (b + j) < N
    BY <1>1
  <2> QED  BY <2>1, <2>2, CloseSlots
<1> QED  BY <1>2, HeadSlot

-----------------------------------------------------------------------------
(* The inductive invariant.  Each thread works from a copy of the other's  *)
(* counter; a copy errs on the safe side: the producer's makes the buffer  *)
(* look fuller than it is, the consumer's makes it look emptier.           *)

RingTypeOK ==
    /\ head \in Counters /\ tail \in Counters
    /\ push_t \in Counters /\ pop_h \in Counters
    /\ push_pc \in {"idle", "loaded", "writing", "written"}
    /\ pop_pc \in {"idle", "loaded", "copying", "copied"}

CopiesAreSafe ==
    /\ Minus(head, tail) <= N
    /\ push_pc = "loaded" =>
          Minus(head, tail) <= Minus(head, push_t) /\ Minus(head, push_t) <= N
    /\ push_pc \in {"writing", "written"} => Minus(head, tail) < N
    /\ pop_pc = "loaded" => Minus(pop_h, tail) <= Minus(head, tail)
    /\ pop_pc \in {"copying", "copied"} => Minus(head, tail) > 0

RingInv == RingTypeOK /\ CopiesAreSafe

USE DEF producerVars, consumerVars, vars

\* Every step of either thread keeps the invariant.
LEMMA RingStep ==
    ASSUME RingInv, [Next]_vars PROVE RingInv'
<1>1. /\ N \in Nat \ {0} /\ Wrap \in Nat /\ Wrap >= 2 * N
      /\ head \in Counters /\ tail \in Counters
      /\ push_t \in Counters /\ pop_h \in Counters
  BY RingAssumption DEF RingInv, RingTypeOK
<1>2. ASSUME NEW a \in Counters, NEW b \in Counters
      PROVE  Minus(a, b) \in Nat /\ (a # b => Minus(a, b) > 0)
  BY <1>1, MinusValue DEF Counters
<1>3. /\ Minus(head, tail) \in Nat /\ Minus(head, push_t) \in Nat
      /\ Minus(pop_h, tail) \in Nat
      /\ pop_h # tail => Minus(pop_h, tail) > 0
  BY <1>1, <1>2
<1>4. CASE UNCHANGED vars
  BY <1>4 DEF RingInv, RingTypeOK, CopiesAreSafe
<1>5. ASSUME NEW v \in Ticks, PushLoad(v) PROVE RingInv'
  BY <1>1, <1>3, <1>5 DEF PushLoad, RingInv, RingTypeOK, CopiesAreSafe
<1>6. CASE PushFull
  BY <1>6 DEF PushFull, RingInv, RingTypeOK, CopiesAreSafe
<1>7. CASE PushWriteBegin
  <2>1. Minus(head, tail) < N
    BY <1>3, <1>1, <1>7 DEF PushWriteBegin, RingInv, CopiesAreSafe
  <2> QED  BY <1>7, <2>1 DEF PushWriteBegin, RingInv, RingTypeOK, CopiesAreSafe
<1>8. CASE PushWriteEnd
  BY <1>8 DEF PushWriteEnd, RingInv, RingTypeOK, CopiesAreSafe
<1>9. CASE PushPublish
  <2>1. head' = Succ(head) /\ tail' = tail /\ pop_h' = pop_h
    BY <1>9 DEF PushPublish
  <2>2. Minus(head, tail) + 1 <= N /\ Minus(head, tail) + 1 < Wrap
    BY <1>3, <1>1, <1>9 DEF PushPublish, RingInv, CopiesAreSafe
  <2>3. head' \in Counters /\ Minus(head', tail) = Minus(head, tail) + 1
    BY <1>1, <2>1, <2>2, MinusMoves
  <2> QED
    BY <1>3, <1>1, <1>9, <2>1, <2>2, <2>3
    DEF PushPublish, RingInv, RingTypeOK, CopiesAreSafe
<1>10. CASE PopLoad
  BY <1>3, <1>10 DEF PopLoad, RingInv, RingTypeOK, CopiesAreSafe
<1>11. CASE PopEmpty
  BY <1>11 DEF PopEmpty, RingInv, RingTypeOK, CopiesAreSafe
<1>12. CASE PopCopyBegin
  <2>1. Minus(head, tail) > 0
    BY <1>3, <1>12 DEF PopCopyBegin, RingInv, CopiesAreSafe
  <2> QED  BY <1>12, <2>1 DEF PopCopyBegin, RingInv, RingTypeOK, CopiesAreSafe
<1>13. CASE PopCopyEnd
  BY <1>13 DEF PopCopyEnd, RingInv, RingTypeOK, CopiesAreSafe
<1>14. CASE PopRelease
  <2>1. tail' = Succ(tail) /\ head' = head /\ push_t' = push_t
    BY <1>14 DEF PopRelease
  <2>2. Minus(head, tail) > 0
    BY <1>14 DEF PopRelease, RingInv, CopiesAreSafe
  <2>3. tail' \in Counters /\ Minus(head, tail') = Minus(head, tail) - 1
    BY <1>1, <2>1, <2>2, MinusMoves
  <2> QED
    BY <1>3, <1>1, <1>14, <2>1, <2>3 DEF PopRelease, RingInv, RingTypeOK, CopiesAreSafe
<1> QED
  BY <1>4, <1>5, <1>6, <1>7, <1>8, <1>9, <1>10, <1>11, <1>12, <1>13, <1>14
  DEF Next, Push, Pop

\* The initial counters are equal.
LEMMA RingStart == Init => RingInv
<1> SUFFICES ASSUME Init PROVE RingInv
  OBVIOUS
<1>1. 0 \in Counters /\ N \in Nat
  BY RingAssumption DEF Counters
<1>2. Minus(0, 0) = 0
  BY <1>1, MinusValue
<1> QED  BY <1>1, <1>2 DEF Init, RingInv, RingTypeOK, CopiesAreSafe

\* No lock is needed: for every capacity the producer and the consumer are never
\* in the same slot, though each acts on a stale copy of the other's counter.
THEOREM Exclusion == Spec => []SlotExclusive
<1>1. Spec => []RingInv
  BY RingStart, RingStep, PTL DEF Spec
<1>2. RingInv => SlotExclusive
  <2> SUFFICES ASSUME RingInv, push_pc = "writing", pop_pc = "copying"
               PROVE  head % N # tail % N
    BY DEF SlotExclusive
  <2>1. /\ head \in Counters /\ tail \in Counters
        /\ 0 < Minus(head, tail) /\ Minus(head, tail) < N /\ tail + 0 = tail
    BY DEF RingInv, RingTypeOK, CopiesAreSafe, Counters
  <2>2. (tail + 0) % N # head % N
    BY <2>1, FreeSlot
  <2> QED  BY <2>1, <2>2
<1> QED  BY <1>1, <1>2, PTL

-----------------------------------------------------------------------------
(* What the buffer holds.                                                  *)

Elements == Ticks \cup {Torn}

\* The n elements of b from counter t on.
Stretch(b, t, n) == [i \in 1..n |-> b[(t + i - 1) % N]]

\* A stretch of the buffer is a sequence of elements.
LEMMA StretchType ==
    ASSUME NEW b \in [Slots -> Elements], NEW t \in Nat, NEW n \in Nat
    PROVE  /\ Stretch(b, t, n) \in Seq(Elements) /\ Len(Stretch(b, t, n)) = n
           /\ \A i \in 1..n : Stretch(b, t, n)[i] = b[(t + i - 1) % N]
<1>1. N \in Nat \ {0}
  BY RingAssumption
<1>2. ASSUME NEW i \in 1..n PROVE b[(t + i - 1) % N] \in Elements
  <2>1. t + i - 1 \in Nat
    OBVIOUS
  <2>2. (t + i - 1) % N \in Slots
    BY <1>1, <2>1 DEF Slots
  <2> QED  BY <2>2
<1>3. Stretch(b, t, n) \in Seq(Elements)
  BY <1>2, IsASeq DEF Stretch
<1> QED  BY <1>3 DEF Stretch

\* Writing a slot outside a stretch does not change it.
LEMMA StretchKept ==
    ASSUME NEW b, NEW c, NEW t \in Nat, NEW n \in Nat,
           \A j \in Nat : j < n => c[(t + j) % N] = b[(t + j) % N]
    PROVE  Stretch(c, t, n) = Stretch(b, t, n)
<1>1. ASSUME NEW i \in 1..n PROVE c[(t + i - 1) % N] = b[(t + i - 1) % N]
  <2>1. i - 1 \in Nat /\ i - 1 < n /\ t + (i - 1) = t + i - 1
    OBVIOUS
  <2> QED  BY <2>1
<1> QED  BY <1>1, Zenon DEF Stretch

\* Publishing one more element appends it.
LEMMA StretchGrows ==
    ASSUME NEW b \in [Slots -> Elements], NEW t \in Nat, NEW n \in Nat
    PROVE  Stretch(b, t, n + 1) = Append(Stretch(b, t, n), b[(t + n) % N])
<1>1. /\ Stretch(b, t, n) \in Seq(Elements) /\ Len(Stretch(b, t, n)) = n
      /\ \A i \in 1..n : Stretch(b, t, n)[i] = b[(t + i - 1) % N]
      /\ Stretch(b, t, n + 1) \in Seq(Elements) /\ Len(Stretch(b, t, n + 1)) = n + 1
      /\ \A i \in 1..(n + 1) : Stretch(b, t, n + 1)[i] = b[(t + i - 1) % N]
  <2>1. n + 1 \in Nat
    OBVIOUS
  <2> QED  BY <2>1, StretchType
<1>2. t + (n + 1) - 1 = t + n
  OBVIOUS
<1>3. b[(t + n) % N] \in Elements
  BY <1>1, <1>2, ElementOfSeq
<1> DEFINE s == Append(Stretch(b, t, n), b[(t + n) % N])
<1>4. /\ s \in Seq(Elements) /\ Len(s) = n + 1
      /\ \A i \in 1..n : s[i] = Stretch(b, t, n)[i]
      /\ s[n + 1] = b[(t + n) % N]
  BY <1>1, <1>3
<1> HIDE DEF s
<1>5. ASSUME NEW i \in 1..(n + 1) PROVE Stretch(b, t, n + 1)[i] = s[i]
  <2>1. CASE i = n + 1
    BY <1>1, <1>2, <1>4, <2>1
  <2>2. CASE i # n + 1
    <3>1. i \in 1..n  BY <2>2
    <3> QED  BY <1>1, <1>4, <3>1
  <2> QED  BY <2>1, <2>2
<1>6. Stretch(b, t, n + 1) = s
  BY <1>1, <1>4, <1>5, SeqEqual
<1> QED  BY <1>6 DEF s

\* Releasing the oldest element removes it, across the wrap.
LEMMA StretchShrinks ==
    ASSUME NEW b \in [Slots -> Elements], NEW t \in Counters, NEW n \in Nat \ {0}
    PROVE  /\ Stretch(b, t, n) # <<>> /\ Head(Stretch(b, t, n)) = b[t % N]
           /\ Tail(Stretch(b, t, n)) = Stretch(b, Succ(t), n - 1)
<1>1. t \in Nat /\ Succ(t) \in Nat /\ n - 1 \in Nat
  BY RingAssumption, MinusMoves DEF Counters
<1>2. /\ Stretch(b, t, n) \in Seq(Elements) /\ Len(Stretch(b, t, n)) = n
      /\ \A i \in 1..n : Stretch(b, t, n)[i] = b[(t + i - 1) % N]
  BY <1>1, StretchType
<1>3. /\ Stretch(b, Succ(t), n - 1) \in Seq(Elements) /\ Len(Stretch(b, Succ(t), n - 1)) = n - 1
      /\ \A i \in 1..(n - 1) : Stretch(b, Succ(t), n - 1)[i] = b[(Succ(t) + i - 1) % N]
  BY <1>1, StretchType
<1>4. Stretch(b, t, n) # <<>>
  BY <1>2
<1>5. Head(Stretch(b, t, n)) = b[t % N]
  <2>1. Stretch(b, t, n)[1] = b[(t + 1 - 1) % N] /\ t + 1 - 1 = t
    BY <1>1, <1>2
  <2> QED  BY <1>2, <1>4, <2>1
<1> DEFINE s == Tail(Stretch(b, t, n))
<1>6. s \in Seq(Elements) /\ Len(s) = n - 1 /\ \A i \in 1..(n - 1) : s[i] = Stretch(b, t, n)[i + 1]
  BY <1>2, <1>4, HeadTailProperties
<1>7. ASSUME NEW i \in 1..(n - 1) PROVE Stretch(b, Succ(t), n - 1)[i] = s[i]
  <2>1. i - 1 \in Nat /\ Succ(t) + (i - 1) = Succ(t) + i - 1 /\ t + 1 + (i - 1) = t + (i + 1) - 1
    BY <1>1
  <2>2. (Succ(t) + (i - 1)) % N = (t + 1 + (i - 1)) % N
    BY <2>1, NextSlot
  <2>3. s[i] = b[(t + (i + 1) - 1) % N]
    BY <1>1, <1>2, <1>6
  <2> QED  BY <1>3, <2>1, <2>2, <2>3
<1>8. s = Stretch(b, Succ(t), n - 1)
  BY <1>3, <1>6, <1>7, SeqEqual
<1> QED  BY <1>4, <1>5, <1>8

\* A slot is published only when it holds the pushed element, and released only
\* after its element has been copied.
DataInv ==
    /\ buf \in [Slots -> Elements]
    /\ push_pc # "idle" => push_v \in Ticks
    /\ push_pc = "written" => buf[head % N] = push_v
    /\ pop_pc = "copied" => out = buf[tail % N]

\* The slot the producer writes is not one the consumer can see.
LEMMA ProducerSlot ==
    ASSUME RingInv, Minus(head, tail) < N
    PROVE  /\ head % N \in Slots
           /\ Minus(head, tail) \in Nat /\ tail \in Nat
           /\ \A j \in Nat : j < Minus(head, tail) => (tail + j) % N # head % N
           /\ pop_pc = "copied" => tail % N # head % N
<1>1. N \in Nat \ {0} /\ head \in Counters /\ tail \in Counters /\ head \in Nat /\ tail \in Nat
  BY RingAssumption DEF RingInv, RingTypeOK, Counters
<1>2. \A j \in Nat : j < Minus(head, tail) => (tail + j) % N # head % N
  BY <1>1, FreeSlot
<1>3. pop_pc = "copied" => tail % N # head % N
  <2>1. pop_pc = "copied" => 0 < Minus(head, tail)
    BY DEF RingInv, CopiesAreSafe
  <2>2. tail + 0 = tail /\ 0 \in Nat
    BY <1>1
  <2> QED  BY <1>2, <2>1, <2>2
<1>4. Minus(head, tail) \in Nat
  BY <1>1, RingAssumption, MinusValue DEF Counters
<1>5. head % N \in Slots
  BY <1>1 DEF Slots
<1> QED  BY <1>1, <1>2, <1>3, <1>4, <1>5

\* Every step keeps the data invariant.
LEMMA DataStep ==
    ASSUME RingInv, DataInv, [Next]_vars PROVE DataInv'
<1>1. CASE UNCHANGED vars
  BY <1>1 DEF DataInv
<1>2. ASSUME NEW v \in Ticks, PushLoad(v) PROVE DataInv'
  BY <1>2 DEF PushLoad, DataInv
<1>3. CASE PushFull
  BY <1>3 DEF PushFull, DataInv
<1>4. CASE PushWriteBegin
  <2>1. Minus(head, tail) < N
    BY <1>4, RingStep DEF PushWriteBegin, Next, Push, RingInv, CopiesAreSafe
  <2> QED  BY <1>4, <2>1, ProducerSlot DEF PushWriteBegin, DataInv, Elements
<1>5. CASE PushWriteEnd
  <2>1. Minus(head, tail) < N
    BY <1>5 DEF PushWriteEnd, RingInv, CopiesAreSafe
  <2> QED  BY <1>5, <2>1, ProducerSlot DEF PushWriteEnd, DataInv, Elements
<1>6. CASE PushPublish
  BY <1>6 DEF PushPublish, DataInv
<1>7. CASE PopLoad \/ PopEmpty \/ PopCopyBegin
  BY <1>7 DEF PopLoad, PopEmpty, PopCopyBegin, DataInv
<1>8. CASE PopCopyEnd
  BY <1>8 DEF PopCopyEnd, DataInv
<1>9. CASE PopRelease
  BY <1>9 DEF PopRelease, DataInv
<1> QED
  BY <1>1, <1>2, <1>3, <1>4, <1>5, <1>6, <1>7, <1>8, <1>9 DEF Next, Push, Pop

\* What each step does to the elements in the buffer.
ContentsStep ==
    \/ Contents' = Contents /\ ~PushPublish /\ ~PopRelease
    \/ /\ PushPublish /\ ~PopRelease /\ Len(Contents) < N
       /\ push_v \in Ticks /\ Contents' = Append(Contents, push_v)
    \/ /\ PopRelease /\ ~PushPublish /\ Contents # <<>>
       /\ out = Head(Contents) /\ Contents' = Tail(Contents)

\* The contents are a sequence of elements, as long as the counters say.
LEMMA ContentsType ==
    ASSUME RingInv, DataInv
    PROVE  Contents \in Seq(Elements) /\ Len(Contents) = Minus(head, tail)
<1>1. tail \in Nat /\ Minus(head, tail) \in Nat
  BY RingAssumption, MinusValue DEF RingInv, RingTypeOK, Counters
<1>2. Contents = Stretch(buf, tail, Minus(head, tail))
  BY DEF Contents, Stretch
<1> QED  BY <1>1, <1>2, StretchType DEF DataInv

\* Publishing appends, releasing takes the oldest, and no other step, a write to
\* a slot included, changes what is in the buffer.
LEMMA ContentsMove ==
    ASSUME RingInv, DataInv, [Next]_vars PROVE ContentsStep
<1>1. /\ buf \in [Slots -> Elements] /\ head \in Counters /\ tail \in Counters /\ tail \in Nat
      /\ Minus(head, tail) \in Nat
  BY RingAssumption, MinusValue DEF RingInv, RingTypeOK, DataInv, Counters
<1>2. /\ Contents = Stretch(buf, tail, Minus(head, tail))
      /\ Contents' = Stretch(buf', tail', Minus(head', tail'))
  BY DEF Contents, Stretch
<1>3. Len(Contents) = Minus(head, tail)
  BY ContentsType
<1>4. CASE UNCHANGED <<buf, head, tail>>
  <2>1. Contents' = Contents
    BY <1>2, <1>4
  <2>2. ~PushPublish /\ ~PopRelease
    <3>1. Succ(head) # head /\ Succ(tail) # tail
      BY <1>1, SuccValue, RingAssumption DEF Counters
    <3> QED  BY <1>4, <3>1 DEF PushPublish, PopRelease
  <2> QED  BY <2>1, <2>2 DEF ContentsStep
<1>5. CASE PushWriteBegin \/ PushWriteEnd
  <2>1. Minus(head, tail) < N
    BY <1>5, RingStep DEF PushWriteBegin, PushWriteEnd, Next, Push, RingInv, CopiesAreSafe
  <2>2. PICK v : buf' = [buf EXCEPT ![head % N] = v]
    BY <1>5 DEF PushWriteBegin, PushWriteEnd
  <2>3. head' = head /\ tail' = tail /\ ~PushPublish /\ ~PopRelease
    BY <1>5 DEF PushWriteBegin, PushWriteEnd, PushPublish, PopRelease
  <2>4. Stretch(buf', tail, Minus(head, tail)) = Stretch(buf, tail, Minus(head, tail))
    <3>1. \A j \in Nat : j < Minus(head, tail) => (tail + j) % N # head % N
      BY <2>1, ProducerSlot
    <3>2. ASSUME NEW j \in Nat, j < Minus(head, tail)
          PROVE  buf'[(tail + j) % N] = buf[(tail + j) % N]
      <4>1. (tail + j) % N \in Slots
        BY <1>1, RingAssumption DEF Slots
      <4> QED  BY <1>1, <2>2, <3>1, <3>2, <4>1
    <3> QED  BY <1>1, <3>2, StretchKept
  <2> QED  BY <1>2, <2>3, <2>4 DEF ContentsStep
<1>6. CASE PushPublish
  <2>1. Minus(head, tail) < N /\ Minus(head, tail) + 1 < Wrap
    BY <1>1, <1>6, RingAssumption DEF PushPublish, RingInv, CopiesAreSafe
  <2>2. buf' = buf /\ tail' = tail /\ head' = Succ(head) /\ ~PopRelease
    BY <1>6 DEF PushPublish, PopRelease
  <2>3. Minus(head', tail') = Minus(head, tail) + 1
    BY <1>1, <2>1, <2>2, MinusMoves
  <2>4. buf[(tail + Minus(head, tail)) % N] = push_v /\ push_v \in Ticks
    BY <1>1, <1>6, HeadSlot DEF PushPublish, DataInv
  <2>5. Contents' = Append(Contents, push_v)
    BY <1>1, <1>2, <2>2, <2>3, <2>4, StretchGrows
  <2> QED  BY <1>3, <1>6, <2>1, <2>2, <2>4, <2>5 DEF ContentsStep
<1>7. CASE PopRelease
  <2>1. Minus(head, tail) \in Nat \ {0}
    BY <1>1, <1>7 DEF PopRelease, RingInv, CopiesAreSafe
  <2>2. buf' = buf /\ head' = head /\ tail' = Succ(tail) /\ ~PushPublish
    BY <1>7 DEF PushPublish, PopRelease
  <2>3. Minus(head', tail') = Minus(head, tail) - 1
    BY <1>1, <2>1, <2>2, MinusMoves
  <2>4. out = buf[tail % N]
    BY <1>7 DEF PopRelease, DataInv
  <2>5. Contents # <<>> /\ Head(Contents) = out /\ Contents' = Tail(Contents)
    BY <1>1, <1>2, <2>1, <2>2, <2>3, <2>4, StretchShrinks, ZenonT(40)
  <2> QED  BY <1>7, <2>2, <2>5 DEF ContentsStep
<1> QED
  BY <1>4, <1>5, <1>6, <1>7
  DEF Next, Push, Pop, PushLoad, PushFull, PopLoad, PopEmpty, PopCopyBegin, PopCopyEnd

\* For every capacity, the two threads together implement a bounded FIFO, across
\* the wrap of the counters: nothing is lost, repeated, reordered or torn.
THEOREM RingIsFifo == Spec => ImplementsFifo
<1>1. Init => RingInv /\ DataInv
  BY RingStart DEF Init, DataInv, Elements
<1>2. RingInv /\ DataInv /\ [Next]_vars => RingInv' /\ DataInv'
  BY RingStep, DataStep
<1>3. Init => Fifo!Init
  <2> SUFFICES ASSUME Init PROVE Contents = <<>>
    BY DEF Fifo!Init
  <2>1. RingInv /\ DataInv  BY <1>1
  <2>2. Minus(head, tail) = 0
    BY <2>1, MinusValue DEF Init, RingInv, RingTypeOK
  <2> QED  BY <2>1, <2>2, ContentsType, EmptySeq
<1>4. RingInv /\ DataInv /\ [Next]_vars => [Fifo!Next]_Contents
  BY ContentsMove DEF ContentsStep, Fifo!Next, Fifo!Enqueue, Fifo!Dequeue
<1> QED  BY <1>1, <1>2, <1>3, <1>4, PTL DEF Spec, ImplementsFifo, Fifo!Spec

=============================================================================
