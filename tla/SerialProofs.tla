----------------------------- MODULE SerialProofs -----------------------------
(***************************************************************************)
(* Theorems about Serial and its two rings, for rings of every size and any*)
(* number of bytes and resets: both rings are bounded queues, wherever the *)
(* interrupts fall between the steps of the main program.                  *)
(***************************************************************************)
EXTENDS Serial, SequenceTheorems, TLAPS

-----------------------------------------------------------------------------
(* A ring of R slots with a buffer b, its head h and its tail t.           *)

RingNext(R, i) == IF i + 1 = R THEN 0 ELSE i + 1
RingCount(R, h, t) == (h - t) % R
RingQueue(R, b, h, t) == [k \in 1 .. RingCount(R, h, t) |-> b[(t + k - 1) % R]]

\* How many slots a ring may have, and their indices.
Sizes == Nat \ {0}
Slots(R) == 0 .. R - 1

\* The slot of the k-th byte in the queue.
Slot(R, t, k) == IF t + k - 1 < R THEN t + k - 1 ELSE t + k - 1 - R

\* Remainders of what is less than R away from the slots.
LEMMA ModOfNear ==
  ASSUME NEW R \in Nat \ {0}, NEW x \in 0 .. R - 1
  PROVE  x % R = x /\ (x + R) % R = x /\ (x - R) % R = x
  <1>1. x % R = x
    OBVIOUS
  <1>2. (x + R) % R = x
    OBVIOUS
  <1>3. (x - R) % R = x
    OBVIOUS
  <1> QED
    BY <1>1, <1>2, <1>3

LEMMA NextFacts ==
  ASSUME NEW R \in Sizes, R > 1, NEW i \in Slots(R), NEW j \in Slots(R)
  PROVE  /\ RingNext(R, i) \in Slots(R) /\ RingNext(R, i) # i
         /\ RingNext(R, i) = RingNext(R, j) => i = j
  BY DEF RingNext, Sizes, Slots

LEMMA CountFacts ==
  ASSUME NEW R \in Sizes, NEW h \in Slots(R), NEW t \in Slots(R)
  PROVE  /\ RingCount(R, h, t) = IF t <= h THEN h - t ELSE h - t + R
         /\ RingCount(R, h, t) \in Nat /\ RingCount(R, h, t) < R
  <1>1. CASE t <= h
    BY <1>1, ModOfNear DEF RingCount, Sizes, Slots
  <1>2. CASE ~(t <= h)
    <2>1. h - t + R \in 0 .. R - 1 /\ (h - t + R) - R = h - t
      BY <1>2 DEF Sizes, Slots
    <2> QED
      BY <1>2, <2>1, ModOfNear DEF RingCount, Sizes, Slots
  <1> QED
    BY <1>1, <1>2

LEMMA SlotFacts ==
  ASSUME NEW R \in Sizes, NEW h \in Slots(R), NEW t \in Slots(R),
         NEW k \in 1 .. RingCount(R, h, t)
  PROVE  (t + k - 1) % R = Slot(R, t, k) /\ Slot(R, t, k) \in Slots(R)
  <1>1. RingCount(R, h, t) \in Nat /\ RingCount(R, h, t) < R
    BY CountFacts
  <1>2. k \in Nat /\ k > 0 /\ k - 1 < R /\ t \in 0 .. R - 1 /\ R \in Nat \ {0}
    BY <1>1 DEF Sizes, Slots
  <1>3. CASE t + k - 1 < R
    <2>1. t + k - 1 \in 0 .. R - 1
      BY <1>2, <1>3
    <2> QED
      BY <1>2, <1>3, <2>1, ModOfNear DEF Slot, Slots
  <1>4. CASE ~(t + k - 1 < R)
    <2>1. t + k - 1 - R \in 0 .. R - 1 /\ (t + k - 1 - R) + R = t + k - 1
      BY <1>2, <1>4
    <2>2. ((t + k - 1 - R) + R) % R = t + k - 1 - R
      BY <1>2, <2>1, ModOfNear
    <2> QED
      BY <1>4, <2>1, <2>2 DEF Slot, Slots
  <1> QED
    BY <1>3, <1>4

LEMMA QueueIsSeq ==
  ASSUME NEW R \in Sizes, NEW S, NEW b \in [Slots(R) -> S],
         NEW h \in Slots(R), NEW t \in Slots(R)
  PROVE  /\ RingQueue(R, b, h, t) \in Seq(S)
         /\ Len(RingQueue(R, b, h, t)) = RingCount(R, h, t)
  <1> DEFINE n == RingCount(R, h, t)
             q == RingQueue(R, b, h, t)
  <1>1. n \in Nat
    BY CountFacts
  <1>2. \A k \in 1 .. n : (t + k - 1) % R \in Slots(R)
    BY SlotFacts
  <1>3. q \in [1 .. n -> S]
    BY <1>2 DEF RingQueue
  <1>4. q \in Seq(S)
    BY <1>1, <1>3, SeqDef
  <1>5. Len(q) = n
    BY <1>1, <1>3, <1>4, LenProperties
  <1> QED
    BY <1>4, <1>5

LEMMA QueueElements ==
  ASSUME NEW R \in Sizes, NEW b, NEW h \in Slots(R), NEW t \in Slots(R),
         NEW k \in 1 .. RingCount(R, h, t)
  PROVE  RingQueue(R, b, h, t)[k] = b[Slot(R, t, k)]
  BY SlotFacts DEF RingQueue

LEMMA QueueIsEmpty ==
  ASSUME NEW R \in Sizes, NEW S, NEW b \in [Slots(R) -> S],
         NEW h \in Slots(R), NEW t \in Slots(R)
  PROVE  (h = t) <=> (RingQueue(R, b, h, t) = <<>>)
  <1> DEFINE n == RingCount(R, h, t)
             q == RingQueue(R, b, h, t)
  <1>1. (h = t) <=> (n = 0)
    <2>1. n = IF t <= h THEN h - t ELSE h - t + R
      BY CountFacts
    <2> QED
      BY <2>1 DEF Sizes, Slots
  <1>2. q \in Seq(S) /\ Len(q) = n
    BY QueueIsSeq
  <1> HIDE DEF n, q
  <1>3. (q = <<>>) <=> (Len(q) = 0)
    BY <1>2, EmptySeq
  <1> QED
    BY <1>1, <1>2, <1>3 DEF n, q

\* A byte stored in the slot at the head is not in the queue yet.
LEMMA StoreKeepsQueue ==
  ASSUME NEW R \in Sizes, NEW S, NEW b \in [Slots(R) -> S], NEW v \in S,
         NEW h \in Slots(R), NEW t \in Slots(R)
  PROVE  RingQueue(R, [b EXCEPT ![h] = v], h, t) = RingQueue(R, b, h, t)
  <1> DEFINE n == RingCount(R, h, t)
             c == [b EXCEPT ![h] = v]
             q == RingQueue(R, b, h, t)
             p == RingQueue(R, c, h, t)
  <1>1. /\ c \in [Slots(R) -> S]
        /\ \A i \in Slots(R) : i # h => c[i] = b[i]
    OBVIOUS
  <1> HIDE DEF c
  <1>2. n = (IF t <= h THEN h - t ELSE h - t + R) /\ n \in Nat /\ n < R
    BY CountFacts
  <1>3. \A k \in 1 .. n : Slot(R, t, k) # h
    BY <1>2 DEF Slot, Sizes, Slots
  <1>4. p \in Seq(S) /\ Len(p) = n
    BY <1>1, QueueIsSeq
  <1>5. q \in Seq(S) /\ Len(q) = n
    BY QueueIsSeq
  <1>6. \A k \in 1 .. n : p[k] = q[k]
    <2> TAKE k \in 1 .. n
    <2>1. p[k] = c[Slot(R, t, k)]
      BY QueueElements
    <2>2. q[k] = b[Slot(R, t, k)]
      BY QueueElements
    <2>3. Slot(R, t, k) \in Slots(R)
      BY SlotFacts
    <2>4. Slot(R, t, k) # h
      BY <1>3
    <2> QED
      BY <1>1, <2>1, <2>2, <2>3, <2>4
  <1> HIDE DEF n, q, p
  <1>7. p = q
    BY <1>4, <1>5, <1>6, SeqEqual
  <1> QED
    BY <1>7 DEF q, p, c

\* The head moves over a slot: its byte joins the queue at the end.
LEMMA HeadAdvances ==
  ASSUME NEW R \in Sizes, NEW S, NEW b \in [Slots(R) -> S],
         NEW h \in Slots(R), NEW t \in Slots(R), RingNext(R, h) # t
  PROVE  /\ RingNext(R, h) \in Slots(R)
         /\ RingCount(R, RingNext(R, h), t) = RingCount(R, h, t) + 1
         /\ RingQueue(R, b, RingNext(R, h), t) = Append(RingQueue(R, b, h, t), b[h])
  <1> DEFINE n == RingCount(R, h, t)
             g == RingNext(R, h)
             q == RingQueue(R, b, h, t)
             p == RingQueue(R, b, g, t)
  <1>1. g \in Slots(R)
    BY DEF RingNext, Sizes, Slots
  <1>2. n = (IF t <= h THEN h - t ELSE h - t + R) /\ n \in Nat /\ n < R
    BY CountFacts
  <1>3. RingCount(R, g, t) = n + 1
    <2>1. RingCount(R, g, t) = IF t <= g THEN g - t ELSE g - t + R
      BY <1>1, CountFacts
    <2> QED
      BY <1>2, <2>1 DEF RingNext, Sizes, Slots
  <1>4. q \in Seq(S) /\ Len(q) = n
    BY QueueIsSeq
  <1>5. p \in Seq(S) /\ Len(p) = n + 1
    <2>1. p \in Seq(S) /\ Len(p) = RingCount(R, g, t)
      BY <1>1, QueueIsSeq
    <2> QED
      BY <1>3, <2>1
  <1>6. \A k \in 1 .. n : q[k] = b[Slot(R, t, k)]
    BY QueueElements
  <1>7. \A k \in 1 .. n + 1 : p[k] = b[Slot(R, t, k)]
    <2> TAKE k \in 1 .. n + 1
    <2>1. k \in 1 .. RingCount(R, g, t)
      BY <1>3
    <2> QED
      BY <1>1, <2>1, QueueElements
  <1>8. Slot(R, t, n + 1) = h
    BY <1>2 DEF Slot, Sizes, Slots
  <1> HIDE DEF n, g, q, p
  <1>9. b[h] \in S
    OBVIOUS
  <1>10. Append(q, b[h]) \in Seq(S) /\ Len(Append(q, b[h])) = n + 1
    BY <1>4, <1>9
  <1>11. \A k \in 1 .. n + 1 : p[k] = Append(q, b[h])[k]
    <2> TAKE k \in 1 .. n + 1
    <2>1. CASE k = n + 1
      BY <1>2, <1>4, <1>7, <1>8, <2>1
    <2>2. CASE k \in 1 .. n
      BY <1>4, <1>6, <1>7, <2>2
    <2>3. n \in Nat
      BY <1>2
    <2>4. k = n + 1 \/ k \in 1 .. n
      BY <2>3
    <2> QED
      BY <2>1, <2>2, <2>4
  <1>12. p = Append(q, b[h])
    BY <1>5, <1>10, <1>11, SeqEqual
  <1> QED
    BY <1>1, <1>3, <1>12 DEF n, g, q, p

\* The tail moves over n bytes: the n oldest leave the queue.
LEMMA TailMoves ==
  ASSUME NEW R \in Sizes, NEW S, NEW b \in [Slots(R) -> S],
         NEW h \in Slots(R), NEW t \in Slots(R), NEW u \in Slots(R),
         RingCount(R, u, t) <= RingCount(R, h, t)
  PROVE  /\ RingCount(R, h, u) = RingCount(R, h, t) - RingCount(R, u, t)
         /\ RingQueue(R, b, h, u) = SubSeq(RingQueue(R, b, h, t), RingCount(R, u, t) + 1,
                                           Len(RingQueue(R, b, h, t)))
  <1> DEFINE n == RingCount(R, u, t)
             m == RingCount(R, h, t)
             q == RingQueue(R, b, h, t)
             p == RingQueue(R, b, h, u)
  <1>1. n = (IF t <= u THEN u - t ELSE u - t + R) /\ n \in Nat /\ n < R
    BY CountFacts
  <1>2. m = (IF t <= h THEN h - t ELSE h - t + R) /\ m \in Nat /\ m < R
    BY CountFacts
  <1>3. RingCount(R, h, u) = IF u <= h THEN h - u ELSE h - u + R
    BY CountFacts
  <1>4. RingCount(R, h, u) = m - n
    BY <1>1, <1>2, <1>3 DEF Sizes, Slots
  <1>5. q \in Seq(S) /\ Len(q) = m
    BY QueueIsSeq
  <1>6. p \in Seq(S) /\ Len(p) = m - n
    <2>1. p \in Seq(S) /\ Len(p) = RingCount(R, h, u)
      BY QueueIsSeq
    <2> QED
      BY <1>4, <2>1
  <1>7. \A k \in 1 .. m : q[k] = b[Slot(R, t, k)]
    BY QueueElements
  <1>8. \A k \in 1 .. m - n : p[k] = b[Slot(R, u, k)]
    <2> TAKE k \in 1 .. m - n
    <2>1. k \in 1 .. RingCount(R, h, u)
      BY <1>4
    <2> QED
      BY <2>1, QueueElements
  <1>9. \A k \in 1 .. m - n : Slot(R, u, k) = Slot(R, t, n + k)
    BY <1>1, <1>2 DEF Slot, Sizes, Slots
  <1>10. n \in Nat /\ m \in Nat /\ n <= m
    BY <1>1, <1>2
  <1> DEFINE r == SubSeq(q, n + 1, Len(q))
  <1> HIDE DEF n, m, q, p
  <1>11. \A i \in n + 1 .. m : q[i] \in S
    <2> TAKE i \in n + 1 .. m
    <2>1. i \in 1 .. Len(q)
      BY <1>5, <1>10
    <2> QED
      BY <1>5, <2>1, ElementOfSeq
  <1>12. r = SubSeq(q, n + 1, m)
    BY <1>5
  <1>13. /\ r \in Seq(S) /\ Len(r) = IF n + 1 <= m THEN m - (n + 1) + 1 ELSE 0
         /\ \A i \in 1 .. m - (n + 1) + 1 : r[i] = q[(n + 1) + i - 1]
    <2>1. n + 1 \in Int /\ m \in Int
      BY <1>10
    <2> QED
      BY <1>11, <1>12, <2>1, SubSeqProperties
  <1> HIDE DEF r
  <1>14. Len(r) = m - n
    BY <1>10, <1>13
  <1>15. \A k \in 1 .. m - n : p[k] = r[k]
    <2> TAKE k \in 1 .. m - n
    <2>1. /\ k \in 1 .. m - (n + 1) + 1 /\ n + k \in 1 .. m
          /\ (n + 1) + k - 1 = n + k
      BY <1>10
    <2>2. r[k] = q[n + k]
      BY <1>13, <2>1
    <2>3. q[n + k] = b[Slot(R, t, n + k)]
      BY <1>7, <2>1
    <2> QED
      BY <1>8, <1>9, <2>2, <2>3
  <1>16. p = r
    BY <1>6, <1>13, <1>14, <1>15, SeqEqual
  <1> QED
    BY <1>4, <1>16 DEF n, m, q, p, r

\* Moved over one: the oldest byte leaves it.
LEMMA TailAdvances ==
  ASSUME NEW R \in Sizes, NEW S, NEW b \in [Slots(R) -> S],
         NEW h \in Slots(R), NEW t \in Slots(R), h # t
  PROVE  /\ RingNext(R, t) \in Slots(R)
         /\ RingCount(R, h, RingNext(R, t)) = RingCount(R, h, t) - 1
         /\ RingQueue(R, b, h, t) # <<>>
         /\ b[t] = Head(RingQueue(R, b, h, t))
         /\ RingQueue(R, b, h, RingNext(R, t)) = Tail(RingQueue(R, b, h, t))
  <1> DEFINE u == RingNext(R, t)
             m == RingCount(R, h, t)
             q == RingQueue(R, b, h, t)
             p == RingQueue(R, b, h, u)
  <1>1. u \in Slots(R)
    BY DEF RingNext, Sizes, Slots
  <1>2. m = (IF t <= h THEN h - t ELSE h - t + R) /\ m \in Nat /\ m < R
    BY CountFacts
  <1>3. RingCount(R, u, t) = IF t <= u THEN u - t ELSE u - t + R
    BY <1>1, CountFacts
  <1>4. RingCount(R, u, t) = 1 /\ m >= 1
    BY <1>2, <1>3 DEF RingNext, Sizes, Slots
  <1>5. q \in Seq(S) /\ Len(q) = m
    BY QueueIsSeq
  <1>6. q[1] = b[t]
    <2>1. Slot(R, t, 1) = t
      BY DEF Slot, Sizes, Slots
    <2>2. 1 \in 1 .. m
      BY <1>2, <1>4
    <2>3. q[1] = b[Slot(R, t, 1)]
      BY <2>2, QueueElements
    <2> QED
      BY <2>1, <2>3
  <1>7. RingCount(R, h, u) = m - 1 /\ p = SubSeq(q, 1 + 1, Len(q))
    <2>1. RingCount(R, u, t) <= m
      BY <1>2, <1>4
    <2>2. /\ RingCount(R, h, u) = m - RingCount(R, u, t)
          /\ p = SubSeq(q, RingCount(R, u, t) + 1, Len(q))
      BY <1>1, <2>1, TailMoves
    <2> QED
      BY <1>4, <2>2
  <1> HIDE DEF u, m, q, p
  <1>8. q # <<>>
    BY <1>2, <1>4, <1>5
  <1>9. Head(q) = q[1]
    BY <1>5, <1>8
  <1>10. Tail(q) = SubSeq(q, 2, Len(q))
    BY <1>5, <1>8, TailIsSubSeq
  <1> QED
    BY <1>1, <1>6, <1>7, <1>8, <1>9, <1>10 DEF u, m, q, p

-----------------------------------------------------------------------------
(* The transmit ring.                                                      *)

LEMMA TxRing ==
  /\ TX_RING_BUFFER \in Sizes /\ TX_RING_BUFFER > 1
  /\ TxSlots = Slots(TX_RING_BUFFER)
  /\ \A i : tx_next(i) = RingNext(TX_RING_BUFFER, i)
  BY TxAssumption DEF TX_RING_BUFFER, Sizes, Slots, TxSlots, tx_next, RingNext

LEMMA TxNextFacts ==
  ASSUME NEW i \in TxSlots, NEW j \in TxSlots
  PROVE  /\ tx_next(i) \in TxSlots /\ tx_next(i) # i
         /\ tx_next(i) = tx_next(j) => i = j
  BY TxRing, NextFacts

\* What serial_write() knows at each of its steps: there is room for its byte
\* until the byte is in, then there is something to send, and while the interrupt
\* is on and has not come since, something more than that.
TxPlace ==
  /\ tx_pc # "main" => written # 0
  /\ tx_pc \in {"store", "advance"} => tx_next(serial_tx_buffer_head) # serial_tx_buffer_tail
  /\ tx_pc = "advance" => serial_tx_buffer[serial_tx_buffer_head] = written
  /\ tx_pc = "enable" => serial_tx_buffer_head # serial_tx_buffer_tail
  /\ tx_pc = "enable" /\ udrie /\ in_window = 0 =>
       tx_next(serial_tx_buffer_tail) # serial_tx_buffer_head
  /\ in_window \in {0, 1}

TxInv == TxTypeOK /\ StreamsOnlyQueued /\ TxPlace

LEMMA TxInitInv == TxInit => TxInv
  <1> SUFFICES ASSUME TxInit PROVE TxInv
    OBVIOUS
  <1>1. 0 \in TxSlots
    BY TxRing DEF Sizes, Slots
  <1>2. 0 \in 0 .. MaxBytes /\ 0 \in 0 .. TxMaxResets /\ 0 \in 0 .. MaxBytes + TX_RING_BUFFER
    BY TxAssumption, TxRing DEF Sizes
  <1>3. TxTypeOK
    BY <1>1, <1>2 DEF TxInit, TxTypeOK
  <1>4. StreamsOnlyQueued
    BY DEF TxInit, StreamsOnlyQueued
  <1>5. TxPlace
    BY DEF TxInit, TxPlace
  <1> QED
    BY <1>3, <1>4, <1>5 DEF TxInv

LEMMA TxStepInv ==
  ASSUME ~LateInterrupts, TxInv, [TxNext]_txVars
  PROVE  TxInv'
  <1> DEFINE h == serial_tx_buffer_head
             t == serial_tx_buffer_tail
  <1>0. h \in TxSlots /\ t \in TxSlots /\ tx_next(h) \in TxSlots /\ tx_next(t) \in TxSlots
        /\ tx_next(h) # h /\ tx_next(t) # t /\ (tx_next(h) = tx_next(t) => h = t)
    BY TxNextFacts DEF TxInv, TxTypeOK
  <1>a. {0, 1} \subseteq 0 .. MaxBytes + TX_RING_BUFFER
    BY TxAssumption, TxRing DEF Sizes
  <1> USE <1>0, <1>a DEF TxInv, TxTypeOK, StreamsOnlyQueued, TxPlace
  <1>1. CASE TxCall
    BY <1>1, TxAssumption DEF TxCall
  <1>2. CASE WaitForSpace
    BY <1>2 DEF WaitForSpace
  <1>3. CASE StoreByte
    BY <1>3 DEF StoreByte
  <1>4. CASE AdvanceHead
    BY <1>4 DEF AdvanceHead
  <1>5. CASE EnableUdrie
    BY <1>5 DEF EnableUdrie
  <1>6. CASE Udre
    <2>1. udrie /\ h # t
      BY <1>6 DEF Udre
    <2>2. TxTypeOK'
      <3>1. in_window' \in {0, 1}
        BY <1>6 DEF Udre
      <3>2. UDRX' \in 0 .. MaxBytes
        BY <1>6 DEF Udre
      <3> QED
        BY <1>6, <3>1, <3>2 DEF Udre
    <2>3. StreamsOnlyQueued'
      BY <1>6 DEF Udre
    <2>4. TxPlace'
      <3>1. CASE tx_pc = "enable"
        BY <1>6, <2>1, <3>1 DEF Udre
      <3>2. CASE tx_pc # "enable"
        BY <1>6, <2>1, <3>2 DEF Udre
      <3> QED
        BY <3>1, <3>2
    <2> QED
      BY <2>2, <2>3, <2>4
  <1>7. CASE TxSetReset
    BY <1>7, TxAssumption DEF TxSetReset
  <1>8. CASE TxClearReset
    BY <1>8 DEF TxClearReset
  <1>9. CASE UNCHANGED txVars
    BY <1>9 DEF txVars
  <1> QED
    BY <1>1, <1>2, <1>3, <1>4, <1>5, <1>6, <1>7, <1>8, <1>9 DEF TxNext, SerialWrite

\* The transmit interrupt is on exactly while there is something to send, for
\* every size of the ring, with interrupts that are not late: serial_write()
\* switches it on behind its byte, the interrupt itself off behind the last one.
THEOREM TransmitStreamsOnlyQueued ==
  ASSUME ~LateInterrupts
  PROVE  TxSpec => [](TxTypeOK /\ StreamsOnlyQueued)
  <1>1. TxInit => TxInv
    BY TxInitInv
  <1>2. TxInv /\ [TxNext]_txVars => TxInv'
    BY TxStepInv
  <1>3. TxInv => TxTypeOK /\ StreamsOnlyQueued
    BY DEF TxInv
  <1> QED
    BY <1>1, <1>2, <1>3, PTL DEF TxSpec

-----------------------------------------------------------------------------
(* The transmit ring is a queue.                                           *)

LEMMA TxBuffer ==
  ASSUME TxInv
  PROVE  /\ serial_tx_buffer \in [Slots(TX_RING_BUFFER) -> 0 .. MaxBytes]
         /\ serial_tx_buffer_head \in Slots(TX_RING_BUFFER)
         /\ serial_tx_buffer_tail \in Slots(TX_RING_BUFFER)
         /\ TxQueue = RingQueue(TX_RING_BUFFER, serial_tx_buffer, serial_tx_buffer_head,
                                serial_tx_buffer_tail)
  BY TxRing DEF TxInv, TxTypeOK, TxQueue, TxCount, RingQueue, RingCount

LEMMA TxInitFifo == TxInit => TxFifo!Init
  <1> SUFFICES ASSUME TxInit PROVE TxFifo!Init
    OBVIOUS
  <1>1. TxInv
    BY TxInitInv
  <1>2. TxQueue = <<>>
    BY <1>1, TxBuffer, TxRing, QueueIsEmpty DEF TxInit
  <1>3. UDRX \notin 1 .. MaxBytes
    BY TxAssumption DEF TxInit
  <1> QED
    BY <1>2, <1>3 DEF TxFifo!Init

LEMMA TxStepFifo ==
  ASSUME TxInv, TxInv', [TxNext]_txVars
  PROVE  [TxFifo!Next]_(TxFifo!fifoVars)
  <1> DEFINE R == TX_RING_BUFFER
             b == serial_tx_buffer
             h == serial_tx_buffer_head
             t == serial_tx_buffer_tail
             B == 0 .. MaxBytes
  <1>1. /\ R \in Sizes /\ b \in [Slots(R) -> B] /\ h \in Slots(R) /\ t \in Slots(R)
        /\ TxQueue = RingQueue(R, b, h, t)
        /\ TxQueue' = RingQueue(R, b', h', t')
    <2>1. TxQueue' = RingQueue(R, b', h', t')
      BY DEF TxQueue, TxCount, RingQueue, RingCount
    <2> QED
      BY <2>1, TxBuffer, TxRing
  <1>2. ASSUME UNCHANGED <<b, h, t, UDRX>>
        PROVE  UNCHANGED TxFifo!fifoVars
    BY <1>1, <1>2 DEF TxFifo!fifoVars
  <1>3. CASE TxCall
    BY <1>2, <1>3 DEF TxCall
  <1>4. CASE WaitForSpace
    BY <1>2, <1>4 DEF WaitForSpace
  <1>5. CASE EnableUdrie
    BY <1>2, <1>5 DEF EnableUdrie
  <1>6. CASE TxSetReset
    BY <1>2, <1>6 DEF TxSetReset
  <1>7. CASE TxClearReset
    BY <1>2, <1>7 DEF TxClearReset
  <1>8. CASE UNCHANGED txVars
    BY <1>2, <1>8 DEF txVars
  <1>9. CASE StoreByte
    <2>1. b' = [b EXCEPT ![h] = written] /\ UNCHANGED <<h, t, UDRX>> /\ written \in B
      BY <1>9 DEF StoreByte, TxInv, TxTypeOK
    <2>2. RingQueue(R, [b EXCEPT ![h] = written], h, t) = RingQueue(R, b, h, t)
      BY <1>1, <2>1, StoreKeepsQueue
    <2>3. TxQueue' = TxQueue
      BY <1>1, <2>1, <2>2
    <2> QED
      BY <2>1, <2>3 DEF TxFifo!fifoVars
  <1>10. CASE AdvanceHead
    <2>1. /\ h' = RingNext(R, h) /\ UNCHANGED <<b, t, UDRX>>
          /\ RingNext(R, h) # t /\ b[h] = written /\ written \in 1 .. MaxBytes
      BY <1>10, TxRing DEF AdvanceHead, TxInv, TxTypeOK, TxPlace
    <2>2. /\ RingCount(R, RingNext(R, h), t) = RingCount(R, h, t) + 1
          /\ RingQueue(R, b, RingNext(R, h), t) = Append(RingQueue(R, b, h, t), b[h])
          /\ RingNext(R, h) \in Slots(R)
      BY <1>1, <2>1, HeadAdvances
    <2>3. TxQueue' = Append(TxQueue, written)
      BY <1>1, <2>1, <2>2
    <2>4. Len(TxQueue) = RingCount(R, h, t)
      BY <1>1, QueueIsSeq
    <2>5. RingCount(R, RingNext(R, h), t) < R
      BY <1>1, <2>2, CountFacts
    <2>6. RingCount(R, h, t) \in Nat
      BY <1>1, CountFacts
    <2>7. Len(TxQueue) < TX_BUFFER_SIZE
      BY <2>2, <2>4, <2>5, <2>6, TxAssumption DEF TX_RING_BUFFER
    <2>8. TxFifo!Put
      BY <2>1, <2>3, <2>7 DEF TxFifo!Put
    <2> QED
      BY <2>8 DEF TxFifo!Next
  <1>11. CASE Udre
    <2>1. h # t
      BY <1>11, TxRing DEF Udre, TxInv, StreamsOnlyQueued, TxPlace
    <2>2. UDRX' = b[t] /\ t' = RingNext(R, t) /\ UNCHANGED <<b, h>>
      BY <1>11, TxRing DEF Udre
    <2>3. /\ RingQueue(R, b, h, t) # <<>> /\ b[t] = Head(RingQueue(R, b, h, t))
          /\ RingQueue(R, b, h, RingNext(R, t)) = Tail(RingQueue(R, b, h, t))
      BY <1>1, <2>1, TailAdvances
    <2>4. TxFifo!Get
      BY <1>1, <2>2, <2>3 DEF TxFifo!Get
    <2> QED
      BY <2>4 DEF TxFifo!Next
  <1> QED
    BY <1>3, <1>4, <1>5, <1>6, <1>7, <1>8, <1>9, <1>10, <1>11 DEF TxNext, SerialWrite

\* The transmit ring implements a bounded queue, for every size of it and any number
\* of bytes and resets: what is written goes out once and in order.
THEOREM TransmitIsAQueue ==
  ASSUME ~LateInterrupts
  PROVE  TxSpec => TxImplementsFifo
  <1>1. TxInit => TxInv /\ TxFifo!Init
    BY TxInitInv, TxInitFifo
  <1>2. TxInv /\ [TxNext]_txVars => TxInv'
    BY TxStepInv
  <1>3. TxInv /\ TxInv' /\ [TxNext]_txVars => [TxFifo!Next]_(TxFifo!fifoVars)
    BY TxStepFifo
  <1> QED
    BY <1>1, <1>2, <1>3, PTL DEF TxSpec, TxImplementsFifo, TxFifo!Spec

-----------------------------------------------------------------------------
(* The receive ring.                                                       *)

LEMMA RxRing ==
  /\ RX_RING_BUFFER \in Sizes /\ RX_RING_BUFFER > 1
  /\ RxSlots = Slots(RX_RING_BUFFER)
  /\ \A i : rx_next(i) = RingNext(RX_RING_BUFFER, i)
  BY RxAssumption DEF RX_RING_BUFFER, Sizes, Slots, RxSlots, rx_next, RingNext

Cell == Char \cup {NoChar}

RxInRange ==
  /\ serial_rx_buffer \in [Slots(RX_RING_BUFFER) -> Cell]
  /\ serial_rx_buffer_head \in Slots(RX_RING_BUFFER)
  /\ serial_rx_buffer_tail \in Slots(RX_RING_BUFFER)
  /\ flush_head \in Slots(RX_RING_BUFFER)
  /\ wire \in Seq(Char) /\ sent \in Nat

\* What the main loop knows between its accesses to the ring, whatever arrives in
\* between: the character it has copied is still the oldest one, and the head that
\* the flush has read is not behind the tail.
RxPlace ==
  /\ rx_pc = "advance" => /\ serial_rx_buffer_head # serial_rx_buffer_tail
                          /\ data = serial_rx_buffer[serial_rx_buffer_tail]
  /\ rx_pc = "flush" =>
       RingCount(RX_RING_BUFFER, flush_head, serial_rx_buffer_tail)
         <= RingCount(RX_RING_BUFFER, serial_rx_buffer_head, serial_rx_buffer_tail)

RxInv == RxInRange /\ RxPlace

LEMMA RxInitInv == RxInit => RxInv
  <1> SUFFICES ASSUME RxInit PROVE RxInv
    OBVIOUS
  <1>1. 0 \in Slots(RX_RING_BUFFER)
    BY RxRing DEF Sizes, Slots
  <1>2. serial_rx_buffer \in [Slots(RX_RING_BUFFER) -> Cell]
    BY RxRing DEF RxInit, Cell
  <1>3. wire \in Seq(Char)
    BY DEF RxInit
  <1> QED
    BY <1>1, <1>2, <1>3 DEF RxInit, RxInv, RxInRange, RxPlace

LEMMA LineIsChars ==
  ASSUME NEW n \in LineLengths, NEW s \in Nat, s + n <= MaxChars
  PROVE  [k \in 1 .. n |-> [n |-> s + k, eol |-> k = n]] \in Seq(Char)
  <1>1. n \in Nat
    BY RxAssumption
  <1>2. \A k \in 1 .. n : [n |-> s + k, eol |-> k = n] \in Char
    <2> TAKE k \in 1 .. n
    <2>1. s + k \in 1 .. MaxChars
      BY <1>1, RxAssumption
    <2>2. (k = n) \in BOOLEAN
      OBVIOUS
    <2> QED
      BY <2>1, <2>2 DEF Char
  <1>3. [k \in 1 .. n |-> [n |-> s + k, eol |-> k = n]] \in [1 .. n -> Char]
    BY <1>2
  <1> QED
    BY <1>1, <1>3, SeqDef

\* What a received character does to the ring.
LEMMA ReceivedChar ==
  ASSUME RxInv, Receive
  PROVE  \/ /\ RingNext(RX_RING_BUFFER, serial_rx_buffer_head) # serial_rx_buffer_tail
            /\ Head(wire) \in Char
            /\ serial_rx_buffer' =
                 [serial_rx_buffer EXCEPT ![serial_rx_buffer_head] = Head(wire)]
            /\ serial_rx_buffer_head' = RingNext(RX_RING_BUFFER, serial_rx_buffer_head)
         \/ UNCHANGED <<serial_rx_buffer, serial_rx_buffer_head>>
  <1>1. Head(wire) \in Char
    BY HeadTailProperties DEF Receive, RxInv, RxInRange
  <1> QED
    BY <1>1, RxRing DEF Receive

LEMMA ReceiveInv ==
  ASSUME RxInv, Receive
  PROVE  RxInv'
  <1> DEFINE R == RX_RING_BUFFER
             b == serial_rx_buffer
             h == serial_rx_buffer_head
             t == serial_rx_buffer_tail
  <1>1. /\ wire' \in Seq(Char)
        /\ UNCHANGED <<t, flush_head, sent, rx_pc, data>>
    BY HeadTailProperties DEF Receive, RxInv, RxInRange
  <1>2. /\ b \in [Slots(R) -> Cell] /\ h \in Slots(R) /\ t \in Slots(R)
        /\ flush_head \in Slots(R) /\ sent \in Nat /\ R \in Sizes /\ R > 1
    BY RxRing DEF RxInv, RxInRange
  <1>3. CASE UNCHANGED <<b, h>>
    BY <1>1, <1>2, <1>3 DEF RxInv, RxInRange, RxPlace
  <1>4. CASE /\ RingNext(R, h) # t /\ Head(wire) \in Char
             /\ b' = [b EXCEPT ![h] = Head(wire)] /\ h' = RingNext(R, h)
    <2>1. h' \in Slots(R) /\ RingCount(R, h', t) = RingCount(R, h, t) + 1
      BY <1>2, <1>4, HeadAdvances
    <2>2. b' \in [Slots(R) -> Cell]
      BY <1>2, <1>4 DEF Cell
    <2>3. RxInRange'
      BY <1>1, <1>2, <2>1, <2>2 DEF RxInRange
    <2>4. rx_pc = "advance" => h' # t' /\ data' = b'[t']
      BY <1>1, <1>2, <1>4 DEF RxInv, RxPlace
    <2>5. rx_pc = "flush" => RingCount(R, flush_head', t') <= RingCount(R, h', t')
      <3>1. RingCount(R, h, t) \in Nat /\ RingCount(R, flush_head, t) \in Nat
        BY <1>2, CountFacts
      <3>2. rx_pc = "flush" => RingCount(R, flush_head, t) <= RingCount(R, h, t)
        BY DEF RxInv, RxPlace
      <3>3. flush_head' = flush_head /\ t' = t
        BY <1>1
      <3> QED
        BY <2>1, <3>1, <3>2, <3>3
    <2> QED
      BY <1>1, <2>3, <2>4, <2>5 DEF RxInv, RxPlace
  <1> QED
    BY <1>3, <1>4, ReceivedChar

LEMMA RxStepInv ==
  ASSUME RxInv, [RxNext]_rxVars
  PROVE  RxInv'
  <1> DEFINE R == RX_RING_BUFFER
             b == serial_rx_buffer
             h == serial_rx_buffer_head
             t == serial_rx_buffer_tail
  <1>0. /\ b \in [Slots(R) -> Cell] /\ h \in Slots(R) /\ t \in Slots(R)
        /\ flush_head \in Slots(R) /\ sent \in Nat /\ wire \in Seq(Char)
        /\ R \in Sizes /\ R > 1
    BY RxRing DEF RxInv, RxInRange
  <1>1. CASE HostSendsLine
    <2>1. PICK n \in LineLengths :
            /\ sent + n <= MaxChars
            /\ wire' = wire \o [k \in 1 .. n |-> [n |-> sent + k, eol |-> k = n]]
            /\ sent' = sent + n
      BY <1>1 DEF HostSendsLine
    <2>2. wire' \in Seq(Char)
      BY <1>0, <2>1, LineIsChars, ConcatProperties
    <2>3. sent' \in Nat
      BY <1>0, <2>1, RxAssumption
    <2> QED
      BY <1>0, <1>1, <2>2, <2>3 DEF HostSendsLine, ringVars, RxInv, RxInRange, RxPlace
  <1>2. CASE HostHearsAnswer
    BY <1>0, <1>2 DEF HostHearsAnswer, ringVars, RxInv, RxInRange, RxPlace
  <1>3. CASE Receive
    BY <1>3, ReceiveInv
  <1>4. CASE ReadChar
    BY <1>0, <1>4 DEF ReadChar, ringVars, hostVars, RxInv, RxInRange, RxPlace
  <1>5. CASE AdvanceTail
    <2>1. t' = RingNext(R, t) /\ t' \in Slots(R) /\ rx_pc' \in {"line", "loop"}
      BY <1>0, <1>5, RxRing, NextFacts DEF AdvanceTail
    <2> QED
      BY <1>0, <1>5, <2>1 DEF AdvanceTail, hostVars, RxInv, RxInRange, RxPlace
  <1>6. CASE AnswerLine
    BY <1>0, <1>6 DEF AnswerLine, ringVars, RxInv, RxInRange, RxPlace
  <1>7. CASE RxReset
    <2>1. /\ flush_head' = h /\ h' = h /\ t' = t /\ b' = b /\ wire' = wire /\ sent' = sent
          /\ rx_pc' = "flush"
      BY <1>7 DEF RxReset, ringVars
    <2>2. RingCount(R, h, t) <= RingCount(R, h, t)
      BY <1>0, CountFacts
    <2> QED
      BY <1>0, <2>1, <2>2 DEF RxInv, RxInRange, RxPlace
  <1>8. CASE Flush
    <2>1. 0 \in Slots(R)
      BY <1>0 DEF Sizes, Slots
    <2> QED
      BY <1>0, <1>8, <2>1 DEF Flush, hostVars, RxInv, RxInRange, RxPlace
  <1>9. CASE HostPassesOverAnswer
    BY <1>0, <1>9 DEF HostPassesOverAnswer, ringVars, RxInv, RxInRange, RxPlace
  <1>10. CASE AnswerPanelLine
    BY <1>0, <1>10 DEF AnswerPanelLine, ringVars, RxInv, RxInRange, RxPlace
  <1>11. CASE UNCHANGED rxVars
    BY <1>0, <1>11 DEF rxVars, ringVars, hostVars, RxInv, RxInRange, RxPlace
  <1> QED
    BY <1>1, <1>2, <1>3, <1>4, <1>5, <1>6, <1>7, <1>8, <1>9, <1>10, <1>11 DEF RxNext

-----------------------------------------------------------------------------
(* The receive ring is a queue.                                            *)

LEMMA RxInitFifo == RxInit => RxFifo!Init
  <1> SUFFICES ASSUME RxInit PROVE RxFifo!Init
    OBVIOUS
  <1>1. RxInv
    BY RxInitInv
  <1>2. RingQueue(RX_RING_BUFFER, serial_rx_buffer, serial_rx_buffer_head,
                  serial_rx_buffer_tail) = <<>>
    BY <1>1, RxRing, QueueIsEmpty DEF RxInit, RxInv, RxInRange
  <1>3. RxQueue = <<>>
    BY <1>2, RxRing DEF RxQueue, RxCount, RingQueue, RingCount
  <1>4. NoChar \notin Char
    BY RxAssumption DEF NoChar, Char
  <1> QED
    BY <1>3, <1>4 DEF RxInit, RxFifo!Init

LEMMA RxStepFifo ==
  ASSUME RxInv, RxInv', [RxNext]_rxVars
  PROVE  [RxFifo!Next]_(RxFifo!fifoVars)
  <1> DEFINE R == RX_RING_BUFFER
             b == serial_rx_buffer
             h == serial_rx_buffer_head
             t == serial_rx_buffer_tail
  <1>1. /\ R \in Sizes /\ b \in [Slots(R) -> Cell] /\ h \in Slots(R) /\ t \in Slots(R)
        /\ flush_head \in Slots(R)
    BY RxRing DEF RxInv, RxInRange
  <1>2. RxQueue = RingQueue(R, b, h, t) /\ RxQueue' = RingQueue(R, b', h', t')
    BY DEF RxQueue, RxCount, RingQueue, RingCount
  <1>3. ASSUME UNCHANGED <<b, h, t, rx_last>>
        PROVE  UNCHANGED RxFifo!fifoVars
    BY <1>2, <1>3 DEF RxFifo!fifoVars
  <1>4. CASE HostSendsLine
    BY <1>3, <1>4 DEF HostSendsLine, ringVars
  <1>5. CASE HostHearsAnswer
    BY <1>3, <1>5 DEF HostHearsAnswer, ringVars
  <1>6. CASE ReadChar
    BY <1>3, <1>6 DEF ReadChar, ringVars
  <1>7. CASE AnswerLine
    BY <1>3, <1>7 DEF AnswerLine, ringVars
  <1>8. CASE RxReset
    BY <1>3, <1>8 DEF RxReset, ringVars
  <1>9. CASE UNCHANGED rxVars
    BY <1>3, <1>9 DEF rxVars, ringVars
  <1>13. CASE HostPassesOverAnswer
    BY <1>3, <1>13 DEF HostPassesOverAnswer, ringVars
  <1>14. CASE AnswerPanelLine
    BY <1>3, <1>14 DEF AnswerPanelLine, ringVars
  <1>10. CASE Receive
    <2>1. UNCHANGED <<t, rx_last>>
      BY <1>10 DEF Receive
    <2>2. CASE UNCHANGED <<b, h>>
      BY <1>3, <2>1, <2>2
    <2>3. CASE /\ RingNext(R, h) # t /\ Head(wire) \in Char
               /\ b' = [b EXCEPT ![h] = Head(wire)] /\ h' = RingNext(R, h)
      <3>1. Head(wire) \in Cell /\ b' \in [Slots(R) -> Cell] /\ b'[h] = Head(wire)
        BY <1>1, <2>3 DEF Cell
      <3>2. RingQueue(R, b', h, t) = RingQueue(R, b, h, t)
        <4>1. RingQueue(R, [b EXCEPT ![h] = Head(wire)], h, t) = RingQueue(R, b, h, t)
          BY <1>1, <3>1, StoreKeepsQueue
        <4> QED
          BY <2>3, <4>1
      <3>3. /\ RingCount(R, RingNext(R, h), t) = RingCount(R, h, t) + 1
            /\ RingQueue(R, b', RingNext(R, h), t) = Append(RingQueue(R, b', h, t), b'[h])
            /\ RingNext(R, h) \in Slots(R)
        <4>1. /\ R \in Sizes /\ b' \in [Slots(R) -> Cell] /\ h \in Slots(R) /\ t \in Slots(R)
              /\ RingNext(R, h) # t
          BY <1>1, <2>3, <3>1
        <4> QED
          BY <4>1, HeadAdvances
      <3>4. RxQueue' = Append(RxQueue, Head(wire))
        BY <1>2, <2>1, <2>3, <3>1, <3>2, <3>3
      <3>5. Len(RxQueue) = RingCount(R, h, t)
        BY <1>1, <1>2, QueueIsSeq
      <3>6. RingCount(R, RingNext(R, h), t) < R
        BY <1>1, <3>3, CountFacts
      <3>7. RingCount(R, h, t) \in Nat
        BY <1>1, CountFacts
      <3>8. Len(RxQueue) < RX_BUFFER_SIZE
        BY <3>3, <3>5, <3>6, <3>7, RxAssumption DEF RX_RING_BUFFER
      <3>9. RxFifo!Put
        BY <2>1, <2>3, <3>4, <3>8 DEF RxFifo!Put
      <3> QED
        BY <3>9 DEF RxFifo!Next
    <2> QED
      BY <1>10, <2>2, <2>3, ReceivedChar
  <1>11. CASE AdvanceTail
    <2>1. /\ h # t /\ rx_last' = b[t] /\ t' = RingNext(R, t) /\ UNCHANGED <<b, h>>
      BY <1>11, RxRing DEF AdvanceTail, RxInv, RxPlace
    <2>2. /\ RingQueue(R, b, h, t) # <<>> /\ b[t] = Head(RingQueue(R, b, h, t))
          /\ RingQueue(R, b, h, RingNext(R, t)) = Tail(RingQueue(R, b, h, t))
      <3>1. /\ R \in Sizes /\ b \in [Slots(R) -> Cell] /\ h \in Slots(R) /\ t \in Slots(R)
            /\ h # t
        BY <1>1, <2>1
      <3> QED
        BY <3>1, TailAdvances
    <2>3. RxFifo!Get
      BY <1>2, <2>1, <2>2 DEF RxFifo!Get
    <2> QED
      BY <2>3 DEF RxFifo!Next
  <1>12. CASE Flush
    <2> DEFINE n == RingCount(R, flush_head, t)
               m == RingCount(R, h, t)
    <2>1. t' = flush_head /\ UNCHANGED <<b, h, rx_last>> /\ n <= m
      BY <1>12 DEF Flush, RxInv, RxPlace
    <2>2. n \in Nat /\ m \in Nat
      BY <1>1, CountFacts
    <2>3. RingQueue(R, b, h, flush_head)
            = SubSeq(RingQueue(R, b, h, t), n + 1, Len(RingQueue(R, b, h, t)))
      BY <1>1, <2>1, TailMoves
    <2>4. Len(RxQueue) = m /\ RxQueue \in Seq(Cell)
      BY <1>1, <1>2, QueueIsSeq
    <2>5. RxQueue' = SubSeq(RxQueue, n + 1, Len(RxQueue))
      BY <1>2, <2>1, <2>3
    <2>6. CASE n = 0
      <3>1. RxQueue' = RxQueue
        BY <2>4, <2>5, <2>6, SubSeqFull
      <3> QED
        BY <2>1, <3>1 DEF RxFifo!fifoVars
    <2>7. CASE n # 0
      <3>1. n \in 1 .. Len(RxQueue)
        BY <2>1, <2>2, <2>4, <2>7
      <3>2. RxFifo!Flush
        BY <2>1, <2>5, <3>1 DEF RxFifo!Flush
      <3> QED
        BY <3>2 DEF RxFifo!Next
    <2> QED
      BY <2>6, <2>7
  <1> QED
    BY <1>4, <1>5, <1>6, <1>7, <1>8, <1>9, <1>10, <1>11, <1>12, <1>13, <1>14 DEF RxNext

\* The receive ring implements a bounded queue, for every size of it, any lines and
\* resets: a character that got in reaches the main loop once and in order, and a
\* flush takes the oldest ones.
THEOREM ReceiveIsAQueue == RxSpec => RxImplementsFifo
  <1>1. RxInit => RxInv /\ RxFifo!Init
    BY RxInitInv, RxInitFifo
  <1>2. RxInv /\ [RxNext]_rxVars => RxInv'
    BY RxStepInv
  <1>3. RxInv /\ RxInv' /\ [RxNext]_rxVars => [RxFifo!Next]_(RxFifo!fifoVars)
    BY RxStepFifo
  <1> QED
    BY <1>1, <1>2, <1>3, PTL DEF RxSpec, RxImplementsFifo, RxFifo!Spec

-----------------------------------------------------------------------------
(* No character is lost of a host that counts.                             *)

LEMMA RxQueueIs ==
  ASSUME RxInv
  PROVE  /\ RxQueue = RingQueue(RX_RING_BUFFER, serial_rx_buffer, serial_rx_buffer_head,
                                serial_rx_buffer_tail)
         /\ RxCount = RingCount(RX_RING_BUFFER, serial_rx_buffer_head, serial_rx_buffer_tail)
         /\ RxQueue \in Seq(Cell) /\ Len(RxQueue) = RxCount
         /\ RxCount \in Nat /\ RxCount < RX_RING_BUFFER
         /\ serial_rx_buffer_head = serial_rx_buffer_tail <=> RxCount = 0
         /\ rx_next(serial_rx_buffer_head) = serial_rx_buffer_tail <=> RxCount = RX_BUFFER_SIZE
  <1> DEFINE R == RX_RING_BUFFER
             b == serial_rx_buffer
             h == serial_rx_buffer_head
             t == serial_rx_buffer_tail
  <1>1. R \in Sizes /\ b \in [Slots(R) -> Cell] /\ h \in Slots(R) /\ t \in Slots(R)
    BY RxRing DEF RxInv, RxInRange
  <1>2. RxQueue = RingQueue(R, b, h, t) /\ RxCount = RingCount(R, h, t)
    BY DEF RxQueue, RxCount, RingQueue, RingCount
  <1>3. RxQueue \in Seq(Cell) /\ Len(RxQueue) = RxCount
    BY <1>1, <1>2, QueueIsSeq
  <1>4. /\ RxCount = IF t <= h THEN h - t ELSE h - t + R
        /\ RxCount \in Nat /\ RxCount < R
    BY <1>1, <1>2, CountFacts
  <1>5. h = t <=> RxCount = 0
    BY <1>1, <1>4 DEF Sizes, Slots
  <1>6. rx_next(h) = t <=> RxCount = R - 1
    BY <1>1, <1>4, RxRing DEF RingNext, Sizes, Slots
  <1>7. R - 1 = RX_BUFFER_SIZE
    BY RxAssumption DEF RX_RING_BUFFER
  <1> QED
    BY <1>2, <1>3, <1>4, <1>5, <1>6, <1>7

\* The lines answered or about to be, without the panel's.
Due == Owed - rx_extra

\* AnswersTellLines, of m lines U and of f characters F, the last line heard of, the
\* number of lines owed, and of characters taken and sent.
Tells(U, m, last, owed, taken, all) ==
  /\ last <= taken /\ owed <= m
  /\ \A i \in 1 .. m : (i <= owed) <=> (U[i] <= taken)
  /\ \A i \in 1 .. m : last < U[i] /\ U[i] <= all
  /\ \A i, j \in 1 .. m : i < j => U[i] < U[j]

Ends(U, m, F, f, n) ==
  \A k \in 1 .. f : F[k].eol <=> \E i \in 1 .. m : U[i] = n + k

LEMMA TellsWhatItTells ==
  /\ AnswersTellLines <=>
       (CountsRight /\ streaming =>
          /\ Tells(unanswered, Len(unanswered), heard, Due, Taken, sent)
          /\ Ends(unanswered, Len(unanswered), RxQueue, Len(RxQueue), Taken)
          /\ Ends(unanswered, Len(unanswered), wire, Len(wire), sent - Len(wire)))
  BY DEF AnswersTellLines, LinesEnd, Tells, Ends, Due

\* One line more, and the characters of a line on the wire.
Extends(V, U, m, x) == V[m + 1] = x /\ \A i \in 1 .. m : V[i] = U[i]

EndsLine(X, w, n) == \A k \in 1 .. n : X[w + k].eol <=> k = n

LEMMA TellsSent ==
  ASSUME NEW U, NEW m \in Nat, NEW last \in Int, NEW owed \in Int, NEW taken \in Int,
         NEW all \in Int, \A i \in 1 .. m : U[i] \in Int, taken <= all,
         Tells(U, m, last, owed, taken, all),
         NEW V, NEW x \in Int, all < x, Extends(V, U, m, x)
  PROVE  Tells(V, m + 1, last, owed, taken, x)
  <1> USE DEF Extends
  <1>1. /\ last <= taken /\ owed <= m
        /\ \A i \in 1 .. m : (i <= owed) <=> (U[i] <= taken)
        /\ \A i \in 1 .. m : last < U[i] /\ U[i] <= all
        /\ \A i, j \in 1 .. m : i < j => U[i] < U[j]
    BY DEF Tells
  <1>2. \A i \in 1 .. m + 1 : i = m + 1 \/ i \in 1 .. m
    OBVIOUS
  <1>3. \A i \in 1 .. m + 1 : (i <= owed) <=> (V[i] <= taken)
    BY <1>1, <1>2
  <1>4. \A i \in 1 .. m + 1 : last < V[i] /\ V[i] <= x
    BY <1>1, <1>2
  <1>5. \A i, j \in 1 .. m + 1 : i < j => V[i] < V[j]
    <2> TAKE i, j \in 1 .. m + 1
    <2> HAVE i < j
    <2>1. i \in 1 .. m /\ V[i] = U[i] /\ U[i] <= all /\ U[i] \in Int
      BY <1>1
    <2>2. CASE j = m + 1
      BY <2>1, <2>2
    <2>3. CASE j \in 1 .. m
      BY <1>1, <2>1, <2>3
    <2> QED
      BY <1>2, <2>2, <2>3
  <1> QED
    BY <1>1, <1>3, <1>4, <1>5 DEF Tells

LEMMA EndsSent ==
  ASSUME NEW U, NEW m \in Nat, \A i \in 1 .. m : U[i] \in Int,
         NEW F, NEW f \in Nat, NEW before \in Int, Ends(U, m, F, f, before),
         NEW V, NEW x \in Int, Extends(V, U, m, x), before + f < x
  PROVE  Ends(V, m + 1, F, f, before)
  <1> SUFFICES ASSUME NEW k \in 1 .. f
               PROVE  F[k].eol <=> \E i \in 1 .. m + 1 : V[i] = before + k
    BY DEF Ends
  <1> USE DEF Extends
  <1>1. F[k].eol <=> \E i \in 1 .. m : U[i] = before + k
    BY DEF Ends
  <1>2. before + k # x
    OBVIOUS
  <1>3. \A i \in 1 .. m + 1 : i = m + 1 \/ i \in 1 .. m
    OBVIOUS
  <1> QED
    BY <1>1, <1>2, <1>3

LEMMA EndsOnWire ==
  ASSUME NEW U, NEW m \in Nat, \A i \in 1 .. m : U[i] \in Int,
         NEW W, NEW w \in Nat, NEW before \in Int, Ends(U, m, W, w, before),
         \A i \in 1 .. m : U[i] <= before + w,
         NEW V, NEW n \in Nat \ {0}, NEW x \in Nat, x = w + n, Extends(V, U, m, before + x),
         NEW X, \A k \in 1 .. w : X[k] = W[k], EndsLine(X, w, n)
  PROVE  Ends(V, m + 1, X, x, before)
  <1> SUFFICES ASSUME NEW k \in 1 .. w + n
               PROVE  X[k].eol <=> \E i \in 1 .. m + 1 : V[i] = before + k
    BY DEF Ends
  <1> DEFINE all == before + w
  <1>1. /\ V[m + 1] = all + n /\ \A i \in 1 .. m : V[i] = U[i] /\ U[i] <= all
        /\ all \in Int /\ before = all - w
    BY DEF Extends
  <1> HIDE DEF all
  <1>2. \A i \in 1 .. m + 1 : i = m + 1 \/ i \in 1 .. m
    OBVIOUS
  <1>3. m + 1 \in 1 .. m + 1
    OBVIOUS
  <1>4. CASE k \in 1 .. w
    <2>1. X[k].eol <=> \E i \in 1 .. m : U[i] = before + k
      BY <1>4 DEF Ends
    <2>2. before + k # all + n
      BY <1>1, <1>4
    <2> QED
      BY <1>1, <1>2, <1>3, <2>1, <2>2
  <1>5. CASE k \notin 1 .. w
    <2>1. PICK j \in 1 .. n : k = w + j
      <3>1. k - w \in 1 .. n /\ k = w + (k - w)
        BY <1>5
      <3> QED
        BY <3>1
    <2>2. X[k].eol <=> j = n
      BY <2>1 DEF EndsLine
    <2>3. before + k = all + j /\ all + j > all
      BY <1>1, <2>1
    <2>4. \A i \in 1 .. m : V[i] # all + j
      BY <1>1, <2>3
    <2>5. (\E i \in 1 .. m + 1 : V[i] = all + j) <=> all + n = all + j
      BY <1>1, <1>2, <1>3, <2>4
    <2> QED
      BY <1>1, <2>1, <2>2, <2>3, <2>5
  <1> QED
    BY <1>4, <1>5

\* The oldest line is answered.
DropsFirst(V, U, m) == \A i \in 1 .. m - 1 : V[i] = U[i + 1]

LEMMA TellsHeard ==
  ASSUME NEW U, NEW m \in Nat, NEW last \in Int, NEW owed \in Nat, NEW taken \in Int,
         NEW all \in Int, \A i \in 1 .. m : U[i] \in Int,
         Tells(U, m, last, owed, taken, all), owed > 0, NEW V, DropsFirst(V, U, m)
  PROVE  m > 0 /\ last < U[1] /\ Tells(V, m - 1, U[1], owed - 1, taken, all)
  <1>1. /\ last <= taken /\ owed <= m
        /\ \A i \in 1 .. m : (i <= owed) <=> (U[i] <= taken)
        /\ \A i \in 1 .. m : last < U[i] /\ U[i] <= all
        /\ \A i, j \in 1 .. m : i < j => U[i] < U[j]
    BY DEF Tells
  <1>2. m > 0 /\ 1 \in 1 .. m
    BY <1>1
  <1>3. U[1] <= taken /\ owed - 1 <= m - 1 /\ last < U[1]
    BY <1>1, <1>2
  <1>4. \A i \in 1 .. m - 1 : i + 1 \in 1 .. m /\ 1 < i + 1 /\ V[i] = U[i + 1]
    BY <1>2 DEF DropsFirst
  <1>5. \A i \in 1 .. m - 1 : (i <= owed - 1) <=> (V[i] <= taken)
    <2> TAKE i \in 1 .. m - 1
    <2>1. (i + 1 <= owed) <=> (U[i + 1] <= taken)
      BY <1>1, <1>4
    <2> QED
      BY <1>4, <2>1
  <1>6. \A i \in 1 .. m - 1 : U[1] < V[i] /\ V[i] <= all
    BY <1>1, <1>2, <1>4
  <1>7. \A i, j \in 1 .. m - 1 : i < j => V[i] < V[j]
    <2> TAKE i, j \in 1 .. m - 1
    <2>1. i < j => i + 1 < j + 1
      OBVIOUS
    <2>2. i + 1 < j + 1 => U[i + 1] < U[j + 1]
      BY <1>1, <1>4
    <2> QED
      BY <1>4, <2>1, <2>2
  <1> QED
    BY <1>2, <1>3, <1>5, <1>6, <1>7 DEF Tells

LEMMA EndsHeard ==
  ASSUME NEW U, NEW m \in Nat, m > 0, NEW F, NEW f \in Nat, NEW before \in Int,
         Ends(U, m, F, f, before), U[1] \in Int, U[1] <= before,
         NEW V, \A i \in 1 .. m - 1 : V[i] = U[i + 1]
  PROVE  Ends(V, m - 1, F, f, before)
  <1> SUFFICES ASSUME NEW k \in 1 .. f
               PROVE  F[k].eol <=> \E i \in 1 .. m - 1 : V[i] = before + k
    BY DEF Ends
  <1>1. F[k].eol <=> \E i \in 1 .. m : U[i] = before + k
    BY DEF Ends
  <1>2. U[1] # before + k
    OBVIOUS
  <1>3. ASSUME NEW i \in 1 .. m, U[i] = before + k
        PROVE  \E j \in 1 .. m - 1 : V[j] = before + k
    <2>1. i - 1 \in 1 .. m - 1 /\ (i - 1) + 1 = i
      BY <1>2, <1>3
    <2>2. V[i - 1] = before + k
      BY <1>3, <2>1
    <2> QED
      BY <2>1, <2>2
  <1>4. ASSUME NEW j \in 1 .. m - 1, V[j] = before + k
        PROVE  \E i \in 1 .. m : U[i] = before + k
    <2>1. j + 1 \in 1 .. m /\ U[j + 1] = before + k
      BY <1>4
    <2> QED
      BY <2>1
  <1> QED
    BY <1>1, <1>3, <1>4

\* A character goes to the end of the ring, or its first one is taken.
LEMMA EndsTail ==
  ASSUME NEW U, NEW m \in Nat, NEW F, NEW f \in Nat, f > 0, NEW before \in Int,
         Ends(U, m, F, f, before), NEW G, \A k \in 1 .. f - 1 : G[k] = F[k + 1]
  PROVE  Ends(U, m, G, f - 1, before + 1)
  <1> SUFFICES ASSUME NEW k \in 1 .. f - 1
               PROVE  G[k].eol <=> \E i \in 1 .. m : U[i] = (before + 1) + k
    BY DEF Ends
  <1>1. k + 1 \in 1 .. f /\ (before + 1) + k = before + (k + 1) /\ G[k] = F[k + 1]
    OBVIOUS
  <1>2. F[k + 1].eol <=> \E i \in 1 .. m : U[i] = before + (k + 1)
    BY <1>1 DEF Ends
  <1> QED
    BY <1>1, <1>2

LEMMA EndsAppended ==
  ASSUME NEW U, NEW m \in Nat, NEW F, NEW f \in Nat, NEW before \in Int, Ends(U, m, F, f, before),
         NEW G, \A k \in 1 .. f : G[k] = F[k],
         G[f + 1].eol <=> \E i \in 1 .. m : U[i] = before + (f + 1)
  PROVE  Ends(U, m, G, f + 1, before)
  <1> SUFFICES ASSUME NEW k \in 1 .. f + 1
               PROVE  G[k].eol <=> \E i \in 1 .. m : U[i] = before + k
    BY DEF Ends
  <1>1. CASE k = f + 1
    BY <1>1
  <1>2. CASE k \in 1 .. f
    BY <1>2 DEF Ends
  <1> QED
    BY <1>1, <1>2

LEMMA TellsTaken ==
  ASSUME NEW U, NEW m \in Nat, NEW last \in Int, NEW owed \in Nat, NEW taken \in Int,
         NEW all \in Int, \A i \in 1 .. m : U[i] \in Int,
         Tells(U, m, last, owed, taken, all), NEW ends \in BOOLEAN,
         ends <=> \E i \in 1 .. m : U[i] = taken + 1
  PROVE  Tells(U, m, last, IF ends THEN owed + 1 ELSE owed, taken + 1, all)
  <1>1. /\ last <= taken /\ owed <= m
        /\ \A i \in 1 .. m : (i <= owed) <=> (U[i] <= taken)
        /\ \A i \in 1 .. m : last < U[i] /\ U[i] <= all
        /\ \A i, j \in 1 .. m : i < j => U[i] < U[j]
    BY DEF Tells
  <1>2. CASE ends
    <2>1. PICK i \in 1 .. m : U[i] = taken + 1
      BY <1>2
    <2>2. owed < i
      BY <1>1, <2>1
    <2>3. i = owed + 1
      <3>1. SUFFICES ASSUME owed + 1 < i PROVE FALSE
        BY <2>2
      <3>2. owed + 1 \in 1 .. m
        BY <3>1
      <3>3. U[owed + 1] < U[i] /\ ~(U[owed + 1] <= taken) /\ U[owed + 1] \in Int
        BY <1>1, <3>1, <3>2
      <3> QED
        BY <2>1, <3>3
    <2>4. ASSUME NEW j \in 1 .. m
          PROVE  (j <= owed + 1) <=> (U[j] <= taken + 1)
      <3>1. CASE j = i
        BY <2>1, <2>3, <3>1
      <3>2. CASE j < i
        BY <1>1, <2>1, <2>3, <3>2
      <3>3. CASE i < j
        BY <1>1, <2>1, <2>3, <3>3
      <3> QED
        BY <3>1, <3>2, <3>3
    <2>5. owed + 1 <= m /\ last <= taken + 1
      BY <1>1, <2>3
    <2> QED
      BY <1>1, <1>2, <2>4, <2>5 DEF Tells
  <1>3. CASE ~ends
    <2>1. \A i \in 1 .. m : U[i] # taken + 1
      BY <1>3
    <2>2. \A i \in 1 .. m : (i <= owed) <=> (U[i] <= taken + 1)
      BY <1>1, <2>1
    <2>3. last <= taken + 1
      BY <1>1
    <2> QED
      BY <1>1, <1>3, <2>2, <2>3 DEF Tells
  <1> QED
    BY <1>2, <1>3

RxPanels ==
  rx_panels \in 0 .. RxMaxPanels /\ rx_extra \in 0 .. rx_panels /\ rx_misled \in BOOLEAN

RxMore ==
  /\ sent \in 0 .. MaxChars /\ answers \in Nat
  /\ rx_pc \in {"loop", "advance", "line", "flush"}
  /\ data \in Cell /\ rx_last \in Cell
  /\ streaming \in BOOLEAN /\ counts \in BOOLEAN /\ dropped \in BOOLEAN
  /\ CountsRight /\ streaming =>
       /\ unanswered \in Seq(Nat) /\ heard \in Nat
       /\ sent - heard <= RX_BUFFER_SIZE /\ rx_pc # "flush"
       /\ rx_extra <= Owed

RxFull == RxInv /\ RxPanels /\ RxMore /\ AnswersFit /\ AnswersTellLines /\ NothingDropped

LEMMA RxFullInit == RxInit => RxFull
  <1> SUFFICES ASSUME RxInit PROVE RxFull
    OBVIOUS
  <1>1. RxInv
    BY RxInitInv
  <1>2. RxCount = 0 /\ RxQueue = <<>>
    <2>1. RxCount = 0 /\ RxQueue \in Seq(Cell) /\ Len(RxQueue) = 0
      BY <1>1, RxQueueIs DEF RxInit
    <2> QED
      BY <2>1, EmptySeq
  <1>3. RxMore
    <2>1. 0 \in 0 .. MaxChars /\ 0 - 0 <= RX_BUFFER_SIZE /\ NoChar \in Cell /\ rx_extra <= Owed
      BY RxAssumption DEF RxInit, Owed, Cell
    <2>2. sent = 0 /\ answers = 0 /\ heard = 0 /\ unanswered = <<>> /\ <<>> \in Seq(Nat)
      BY DEF RxInit
    <2>3. /\ rx_pc = "loop" /\ data = NoChar /\ rx_last = NoChar
          /\ streaming \in BOOLEAN /\ counts \in BOOLEAN /\ dropped \in BOOLEAN
      BY DEF RxInit
    <2> QED
      BY <2>1, <2>2, <2>3 DEF RxMore
  <1>4. AnswersFit
    BY <1>2 DEF RxInit, AnswersFit, Owed, Taken
  <1>7. RxPanels
    <2>1. rx_panels \in 0 .. RxMaxPanels /\ rx_extra \in 0 .. rx_panels
      BY RxAssumption DEF RxInit
    <2>2. rx_misled \in BOOLEAN
      BY DEF RxInit
    <2> QED
      BY <2>1, <2>2 DEF RxPanels
  <1>5. AnswersTellLines
    BY <1>2 DEF RxInit, AnswersTellLines, LinesEnd, Owed, Taken
  <1>6. NothingDropped
    BY <1>2, RxAssumption DEF RxInit, NothingDropped
  <1> QED
    BY <1>1, <1>3, <1>4, <1>5, <1>6, <1>7 DEF RxFull

LEMMA RxNumbers ==
  ASSUME RxFull
  PROVE  /\ Len(wire) \in Nat /\ RxCount \in Nat /\ RxCount <= RX_BUFFER_SIZE
         /\ Len(RxQueue) = RxCount /\ sent \in Nat /\ answers \in Nat
         /\ Taken \in Int /\ Taken <= sent /\ Owed \in Nat /\ Due \in Int /\ rx_extra \in Nat
         /\ RX_BUFFER_SIZE \in Nat /\ MaxChars \in Nat
         /\ wire \in Seq(Char) /\ RxQueue \in Seq(Cell)
  <1>1. /\ Len(wire) \in Nat /\ sent \in Nat /\ answers \in Nat /\ RX_BUFFER_SIZE \in Nat
        /\ wire \in Seq(Char) /\ MaxChars \in Nat
    BY RxAssumption DEF RxFull, RxInv, RxInRange, RxMore
  <1>2. /\ RxCount \in Nat /\ RxCount <= RX_BUFFER_SIZE /\ RxQueue \in Seq(Cell)
        /\ Len(RxQueue) = RxCount
    BY <1>1, RxQueueIs DEF RxFull, RX_RING_BUFFER
  <1>3. rx_extra \in Nat
    BY RxAssumption DEF RxFull, RxPanels
  <1> QED
    BY <1>1, <1>2, <1>3 DEF Taken, Owed, Due

\* A step that leaves the queue and the line alone, and neither reads nor hears.
LEMMA RxQuiet ==
  ASSUME RxFull, RxInv', RxPanels', RxMore',
         UNCHANGED <<wire, sent, RxCount, RxQueue, unanswered, heard, counts, CountsRight, rx_extra, streaming, dropped>>,
         Owed' = Owed
  PROVE  RxFull'
  <1>1. Taken' = Taken
    BY DEF Taken
  <1>2. AnswersFit'
    BY <1>1 DEF RxFull, AnswersFit
  <1>3. AnswersTellLines'
    BY <1>1 DEF RxFull, AnswersTellLines, LinesEnd
  <1>4. NothingDropped'
    BY DEF RxFull, NothingDropped
  <1> QED
    BY <1>2, <1>3, <1>4 DEF RxFull

LEMMA RxQueueStays ==
  ASSUME UNCHANGED ringVars
  PROVE  UNCHANGED <<RxCount, RxQueue>>
  BY DEF ringVars, RxCount, RxQueue

LEMMA SendsFull ==
  ASSUME RxFull, HostSendsLine, RxInv', RxPanels'
  PROVE  RxFull'
  <1>1. PICK n \in LineLengths :
          /\ sent + n <= MaxChars /\ (CountsRight => sent - heard + n <= RX_BUFFER_SIZE)
          /\ wire' = wire \o [k \in 1 .. n |-> [n |-> sent + k, eol |-> k = n]]
          /\ sent' = sent + n /\ unanswered' = Append(unanswered, sent + n)
    BY DEF HostSendsLine, CountsRight
  <1>2. /\ UNCHANGED <<ringVars, rx_pc, data, rx_last, heard, answers, streaming, counts, CountsRight, rx_extra, dropped>>
        /\ streaming
    BY DEF HostSendsLine, panelAnswers, CountsRight
  <1>3. UNCHANGED <<RxCount, RxQueue>>
    BY <1>2, RxQueueStays
  <1> DEFINE line == [k \in 1 .. n |-> [n |-> sent + k, eol |-> k = n]]
  <1>4. n \in Nat \ {0}
    BY RxAssumption
  <1>5. line \in Seq(Char) /\ Len(line) = n /\ \A k \in 1 .. n : line[k].eol <=> k = n
    <2>1. line \in Seq(Char)
      BY <1>1, RxNumbers, LineIsChars
    <2>2. Len(line) = n
      BY <1>4
    <2> QED
      BY <2>1, <2>2
  <1> HIDE DEF line
  <1>6. /\ Len(wire') = Len(wire) + n
        /\ \A k \in 1 .. Len(wire) : wire'[k] = wire[k]
        /\ \A k \in 1 .. n : wire'[Len(wire) + k] = line[k]
    <2>1. wire' = wire \o line
      BY <1>1 DEF line
    <2>2. /\ Len(wire \o line) = Len(wire) + n
          /\ \A i \in 1 .. Len(wire) + n :
               (wire \o line)[i] = IF i <= Len(wire) THEN wire[i] ELSE line[i - Len(wire)]
      <3>1. wire \in Seq(Char) /\ line \in Seq(Char)
        BY <1>5, RxNumbers
      <3>2. /\ Len(wire \o line) = Len(wire) + Len(line)
            /\ \A i \in 1 .. Len(wire) + Len(line) :
                 (wire \o line)[i] = IF i <= Len(wire) THEN wire[i] ELSE line[i - Len(wire)]
        BY <3>1, ConcatProperties
      <3> QED
        BY <1>5, <3>2
    <2>3. \A k \in 1 .. n : /\ Len(wire) + k \in 1 .. Len(wire) + n
                            /\ ~(Len(wire) + k <= Len(wire)) /\ (Len(wire) + k) - Len(wire) = k
      BY <1>4, RxNumbers
    <2> QED
      BY <1>4, <2>1, <2>2, <2>3, RxNumbers
  <1>7. Taken' = Taken /\ Owed' = Owed /\ Due' = Due
    BY <1>1, <1>2, <1>3, <1>4, <1>6, RxNumbers DEF Taken, Owed, Due
  <1>8. AnswersFit'
    BY <1>2, <1>7 DEF RxFull, AnswersFit
  <1>9. sent' \in 0 .. MaxChars
    BY <1>1, <1>4, RxNumbers
  <1>10. ASSUME CountsRight
         PROVE  /\ unanswered \in Seq(Nat) /\ heard \in Nat
                /\ Tells(unanswered, Len(unanswered), heard, Due, Taken, sent)
                /\ Ends(unanswered, Len(unanswered), RxQueue, Len(RxQueue), Taken)
                /\ Ends(unanswered, Len(unanswered), wire, Len(wire), sent - Len(wire))
    BY <1>2, <1>10, TellsWhatItTells DEF RxFull, RxMore
  <1>11. ASSUME CountsRight
         PROVE  /\ unanswered' \in Seq(Nat) /\ Len(unanswered') = Len(unanswered) + 1
                /\ unanswered'[Len(unanswered) + 1] = sent + n
                /\ \A i \in 1 .. Len(unanswered) : unanswered'[i] = unanswered[i]
    <2>1. sent + n \in Nat
      BY <1>4, RxNumbers
    <2> QED
      BY <1>1, <1>10, <1>11, <2>1, AppendProperties
  <1>12. RxMore'
    <2>1. CountsRight => sent' - heard' <= RX_BUFFER_SIZE
      <3> SUFFICES ASSUME CountsRight PROVE sent' - heard' <= RX_BUFFER_SIZE
        OBVIOUS
      <3>1. sent - heard + n <= RX_BUFFER_SIZE /\ sent' = sent + n
        BY <1>1
      <3>2. heard' = heard /\ heard \in Nat
        BY <1>2, <1>10
      <3> QED
        BY <1>4, <3>1, <3>2, RxNumbers
    <2> QED
      BY <1>2, <1>7, <1>9, <1>10, <1>11, <2>1 DEF RxFull, RxMore
  <1>13. AnswersTellLines'
    <2> DEFINE U == unanswered
               m == Len(unanswered)
    <2> SUFFICES ASSUME CountsRight
                 PROVE  /\ Tells(unanswered', Len(unanswered'), heard', Due', Taken', sent')
                        /\ Ends(unanswered', Len(unanswered'), RxQueue', Len(RxQueue'), Taken')
                        /\ Ends(unanswered', Len(unanswered'), wire', Len(wire'), sent' - Len(wire'))
      BY <1>2 DEF AnswersTellLines, LinesEnd, Tells, Ends, Due
    <2>1. /\ U \in Seq(Nat) /\ heard \in Nat /\ m \in Nat /\ \A i \in 1 .. m : U[i] \in Int
          /\ Len(unanswered') = m + 1 /\ Extends(unanswered', U, m, sent + n)
      BY <1>10, <1>11 DEF Extends
    <2>2. /\ Taken \in Int /\ Taken <= sent /\ Due \in Int /\ sent \in Int /\ sent + n \in Int
          /\ Len(wire) \in Nat /\ Len(RxQueue) \in Nat /\ Taken + Len(RxQueue) <= sent
          /\ Taken + Len(RxQueue) < sent + n /\ sent < sent + n
      BY <1>4, RxNumbers DEF Taken
    <2>3. Tells(unanswered', m + 1, heard, Due, Taken, sent + n)
      <3>1. Tells(U, m, heard, Due, Taken, sent) /\ heard \in Int
        BY <1>10
      <3> HIDE DEF U, m
      <3> QED
        BY <2>1, <2>2, <3>1, TellsSent
    <2>4. Ends(unanswered', m + 1, RxQueue, Len(RxQueue), Taken)
      BY <1>10, <2>1, <2>2, EndsSent
    <2>5. Ends(unanswered', m + 1, wire', Len(wire'), sent' - Len(wire'))
      <3>1. \A i \in 1 .. m : U[i] <= sent
        BY <1>10 DEF Tells
      <3>2. Ends(U, m, wire, Len(wire), sent - Len(wire))
        BY <1>10
      <3>3. (\A k \in 1 .. Len(wire) : wire'[k] = wire[k]) /\ EndsLine(wire', Len(wire), n)
        BY <1>5, <1>6 DEF EndsLine
      <3> DEFINE V == unanswered'
                 w == Len(wire)
                 x == Len(wire')
                 before == sent - w
      <3>4. /\ w \in Nat /\ x \in Nat /\ x = w + n /\ before \in Int
            /\ sent + n = before + x /\ sent = before + w /\ sent' - Len(wire') = before
        BY <1>1, <1>4, <1>6, <2>2
      <3>5. Extends(V, U, m, before + x)
        BY <2>1, <3>4
      <3>6. Ends(U, m, wire, w, before) /\ \A i \in 1 .. m : U[i] <= before + w
        BY <3>1, <3>2, <3>4
      <3>7. (\A k \in 1 .. w : wire'[k] = wire[k]) /\ EndsLine(wire', w, n)
        BY <3>3
      <3>8. Ends(V, m + 1, wire', x, before)
        <4> HIDE DEF U, m, V, w, x, before
        <4> QED
          BY <1>4, <2>1, <3>4, <3>5, <3>6, <3>7, EndsOnWire
      <3> QED
        BY <3>4, <3>8
    <2> QED
      BY <1>1, <1>2, <1>3, <1>6, <1>7, <2>1, <2>3, <2>4, <2>5
  <1>14. NothingDropped'
    <2> SUFFICES ASSUME CountsRight PROVE ~dropped' /\ Len(wire') + RxCount' <= RX_BUFFER_SIZE
      BY <1>2 DEF NothingDropped
    <2>1. heard <= Taken /\ heard \in Int
      BY <1>10 DEF Tells
    <2>2. Len(wire) + RxCount <= sent - heard
      BY <2>1, RxNumbers DEF Taken
    <2>3. Len(wire') + RxCount' = (Len(wire) + RxCount) + n
      BY <1>3, <1>4, <1>6, RxNumbers
    <2>4. sent - heard + n <= RX_BUFFER_SIZE
      BY <1>1
    <2>5. ~dropped'
      BY <1>2 DEF RxFull, NothingDropped
    <2> QED
      BY <1>4, <2>1, <2>2, <2>3, <2>4, <2>5, RxNumbers
  <1> QED
    BY <1>8, <1>12, <1>13, <1>14 DEF RxFull

LEMMA CountingHost ==
  ASSUME RxFull, CountsRight, streaming
  PROVE  /\ unanswered \in Seq(Nat) /\ heard \in Nat /\ Len(unanswered) \in Nat
         /\ \A i \in 1 .. Len(unanswered) : unanswered[i] \in Int
         /\ sent - heard <= RX_BUFFER_SIZE /\ rx_pc # "flush"
         /\ Tells(unanswered, Len(unanswered), heard, Due, Taken, sent)
         /\ Ends(unanswered, Len(unanswered), RxQueue, Len(RxQueue), Taken)
         /\ Ends(unanswered, Len(unanswered), wire, Len(wire), sent - Len(wire))
         /\ heard <= Taken /\ Due \in Nat
  <1>1. unanswered \in Seq(Nat) /\ heard \in Nat /\ sent - heard <= RX_BUFFER_SIZE /\ rx_pc # "flush"
        /\ rx_extra <= Owed
    BY DEF RxFull, RxMore
  <1>2. /\ Tells(unanswered, Len(unanswered), heard, Due, Taken, sent)
        /\ Ends(unanswered, Len(unanswered), RxQueue, Len(RxQueue), Taken)
        /\ Ends(unanswered, Len(unanswered), wire, Len(wire), sent - Len(wire))
    BY TellsWhatItTells DEF RxFull
  <1>3. heard <= Taken
    BY <1>2 DEF Tells
  <1>4. Due \in Nat
    BY <1>1, RxNumbers DEF Due
  <1> QED
    BY <1>1, <1>2, <1>3, <1>4

LEMMA HearsFull ==
  ASSUME RxFull, HostHearsAnswer, RxInv', RxPanels'
  PROVE  RxFull'
  <1>1. /\ UNCHANGED <<ringVars, wire, sent, rx_pc, data, rx_last, streaming, counts, rx_extra, dropped>>
        /\ streaming /\ answers > 0 /\ answers' = answers - 1
        /\ unanswered' = Tail(unanswered) /\ heard' = Head(unanswered)
    BY DEF HostHearsAnswer
  <1>9. CountsRight' => CountsRight /\ rx_extra = 0
    <2>1. ~(rx_extra > 0) => rx_extra = 0
      BY RxNumbers
    <2>2. CountsRight' => CountsRight /\ ~(rx_extra > 0)
      BY DEF HostHearsAnswer, CountsRight
    <2> QED
      BY <2>1, <2>2
  <1>2. UNCHANGED <<RxCount, RxQueue>>
    BY <1>1, RxQueueStays
  <1>3. Taken' = Taken /\ Owed' = Owed - 1 /\ Due' = Due - 1 /\ answers' \in Nat /\ Owed > 0
    <2>1. wire' = wire /\ sent' = sent /\ rx_pc' = rx_pc /\ RxCount' = RxCount
      BY <1>1, <1>2
    <2>2. answers \in Nat /\ answers > 0 /\ answers' = answers - 1
      BY <1>1, RxNumbers
    <2>3. Taken' = Taken
      BY <2>1 DEF Taken
    <2>4. Owed' = Owed - 1 /\ Owed > 0
      BY <2>1, <2>2 DEF Owed
    <2>5. rx_extra' = rx_extra
      BY <1>1
    <2>6. Due' = Due - 1
      BY <2>4, <2>5, RxNumbers DEF Due
    <2> QED
      BY <2>2, <2>3, <2>4, <2>6
  <1>4. AnswersFit'
    <2>1. Owed <= Taken + rx_extra
      BY DEF RxFull, AnswersFit
    <2>2. Owed' = Owed - 1 /\ Taken' = Taken /\ rx_extra' = rx_extra
      BY <1>1, <1>3
    <2>3. Owed \in Nat /\ Taken \in Int /\ rx_extra \in Nat
      BY RxNumbers
    <2>4. Owed - 1 <= Taken + rx_extra
      BY <2>1, <2>3
    <2> QED
      BY <2>2, <2>4 DEF AnswersFit
  <1>5. NothingDropped'
    BY <1>1, <1>2, <1>9 DEF RxFull, NothingDropped
  <1> DEFINE U == unanswered
             m == Len(unanswered)
             V == Tail(unanswered)
  <1>6. ASSUME CountsRight'
        PROVE  /\ m > 0 /\ U # <<>> /\ Head(U) = U[1] /\ heard < U[1] /\ U[1] \in Nat
               /\ V \in Seq(Nat) /\ Len(V) = m - 1 /\ \A i \in 1 .. m - 1 : V[i] = U[i + 1]
               /\ Tells(V, m - 1, U[1], Due - 1, Taken, sent)
               /\ U[1] <= Taken
    <2>1. /\ U \in Seq(Nat) /\ heard \in Int /\ m \in Nat /\ \A i \in 1 .. m : U[i] \in Int
          /\ Tells(U, m, heard, Due, Taken, sent)
      BY <1>1, <1>6, <1>9, CountingHost
    <2>0. Due = Owed /\ Due > 0 /\ Due \in Nat
      BY <1>3, <1>6, <1>9, RxNumbers DEF Due
    <2>2. m > 0
      BY <2>0, <2>1 DEF Tells
    <2>3. U # <<>> /\ Head(U) = U[1] /\ U[1] \in Nat
      BY <2>1, <2>2
    <2>4. V \in Seq(Nat) /\ Len(V) = m - 1 /\ \A i \in 1 .. Len(V) : V[i] = U[i + 1]
      BY <2>1, <2>3, HeadTailProperties
    <2>5. heard < U[1] /\ Tells(V, m - 1, U[1], Due - 1, Taken, sent)
      <3>1. Due \in Nat /\ Taken \in Int /\ sent \in Int /\ Due > 0
            /\ DropsFirst(V, U, m)
        BY <2>0, <2>4, RxNumbers DEF DropsFirst
      <3> HIDE DEF U, m, V
      <3> QED
        BY <2>1, <3>1, TellsHeard
    <2>6. U[1] <= Taken
      BY <2>5 DEF Tells
    <2> QED
      BY <2>2, <2>3, <2>4, <2>5, <2>6
  <1>7. RxMore'
    <2>1. CountsRight' => sent - heard' <= RX_BUFFER_SIZE /\ heard' \in Nat /\ unanswered' \in Seq(Nat)
                           /\ rx_extra' <= Owed'
      <3>1. ASSUME CountsRight' PROVE sent - heard <= RX_BUFFER_SIZE /\ heard \in Nat
        BY <1>1, <1>9, <3>1, CountingHost
      <3>2. CountsRight' => heard' = unanswered[1] /\ heard < unanswered[1] /\ unanswered[1] \in Nat
        BY <1>1, <1>6
      <3>3. CountsRight' => unanswered' \in Seq(Nat)
        BY <1>1, <1>6
      <3>4. CountsRight' => rx_extra' <= Owed'
        BY <1>1, <1>3, <1>9, RxNumbers
      <3> QED
        BY <3>1, <3>2, <3>3, <3>4, RxNumbers
    <2>2. CountsRight' => rx_pc' # "flush"
      <3>1. ASSUME CountsRight PROVE rx_pc # "flush"
        BY <1>1, <3>1, CountingHost
      <3> QED
        BY <1>1, <1>9, <3>1
    <2>3. /\ sent' \in 0 .. MaxChars /\ rx_pc' \in {"loop", "advance", "line", "flush"}
          /\ data' \in Cell /\ rx_last' \in Cell
          /\ streaming' \in BOOLEAN /\ counts' \in BOOLEAN /\ dropped' \in BOOLEAN
      BY <1>1 DEF RxFull, RxMore
    <2>4. CountsRight' => sent' - heard' <= RX_BUFFER_SIZE
      BY <1>1, <2>1
    <2> QED
      BY <1>3, <2>1, <2>2, <2>3, <2>4 DEF RxMore
  <1>8. AnswersTellLines'
    <2> SUFFICES ASSUME CountsRight'
                 PROVE  /\ Tells(unanswered', Len(unanswered'), heard', Due', Taken', sent')
                        /\ Ends(unanswered', Len(unanswered'), RxQueue', Len(RxQueue'), Taken')
                        /\ Ends(unanswered', Len(unanswered'), wire', Len(wire'), sent' - Len(wire'))
      BY <1>1 DEF AnswersTellLines, LinesEnd, Tells, Ends, Due
    <2>1. /\ Ends(U, m, RxQueue, Len(RxQueue), Taken)
          /\ Ends(U, m, wire, Len(wire), sent - Len(wire))
          /\ m \in Nat /\ Len(RxQueue) \in Nat /\ Len(wire) \in Nat
          /\ Taken \in Int /\ sent - Len(wire) \in Int /\ Taken <= sent - Len(wire)
      <3>1. /\ Ends(U, m, RxQueue, Len(RxQueue), Taken)
            /\ Ends(U, m, wire, Len(wire), sent - Len(wire)) /\ m \in Nat
        BY <1>1, <1>9, CountingHost
      <3> HIDE DEF U, m
      <3>2. Taken <= sent - Len(wire) /\ sent - Len(wire) \in Int
        BY RxNumbers DEF Taken
      <3> QED
        BY <3>1, <3>2, RxNumbers
    <2>2. U[1] \in Int /\ U[1] <= Taken /\ U[1] <= sent - Len(wire) /\ m > 0
      BY <1>6, <2>1
    <2>3. \A i \in 1 .. m - 1 : V[i] = U[i + 1]
      BY <1>6
    <2>4. Ends(V, m - 1, RxQueue, Len(RxQueue), Taken)
      <3> HIDE DEF U, m, V
      <3> QED
        BY <2>1, <2>2, <2>3, EndsHeard
    <2>5. Ends(V, m - 1, wire, Len(wire), sent - Len(wire))
      <3> DEFINE before == sent - Len(wire)
      <3>1. before \in Int /\ U[1] <= before /\ Ends(U, m, wire, Len(wire), before)
        BY <2>1, <2>2
      <3>2. Ends(V, m - 1, wire, Len(wire), before)
        <4> HIDE DEF U, m, V, before
        <4> QED
          BY <2>1, <2>2, <2>3, <3>1, EndsHeard
      <3> QED
        BY <3>2
    <2> QED
      BY <1>1, <1>2, <1>3, <1>6, <2>4, <2>5
  <1> QED
    BY <1>4, <1>5, <1>7, <1>8 DEF RxFull

LEMMA PassedFits ==
  ASSUME NEW owed \in Nat, NEW taken \in Int, NEW extra \in Nat, owed <= taken + extra
  PROVE  owed - 1 <= taken + (IF extra > 0 THEN extra - 1 ELSE 0)
  OBVIOUS

\* An answer of the panel that the host awaits no answer for.
LEMMA PassesOverFull ==
  ASSUME RxFull, HostPassesOverAnswer, RxInv', RxPanels'
  PROVE  RxFull'
  <1>1. /\ UNCHANGED <<ringVars, wire, sent, rx_pc, data, rx_last, unanswered, heard, streaming, counts,
                       dropped>>
        /\ streaming /\ answers > 0 /\ answers' = answers - 1 /\ unanswered = <<>>
        /\ rx_extra' = IF rx_extra > 0 THEN rx_extra - 1 ELSE 0
    BY DEF HostPassesOverAnswer
  <1>9. CountsRight' <=> CountsRight
    BY DEF HostPassesOverAnswer, CountsRight
  <1>2. UNCHANGED <<RxCount, RxQueue>>
    BY <1>1, RxQueueStays
  <1>3. Taken' = Taken /\ Owed' = Owed - 1 /\ answers' \in Nat /\ Owed > 0
    <2>1. wire' = wire /\ sent' = sent /\ rx_pc' = rx_pc /\ RxCount' = RxCount
      BY <1>1, <1>2
    <2>2. answers \in Nat /\ answers > 0 /\ answers' = answers - 1
      BY <1>1, RxNumbers
    <2>3. Taken' = Taken
      BY <2>1 DEF Taken
    <2>4. Owed' = Owed - 1 /\ Owed > 0
      BY <2>1, <2>2 DEF Owed
    <2> QED
      BY <2>2, <2>3, <2>4
  <1>4. AnswersFit'
    <2>1. Owed <= Taken + rx_extra
      BY DEF RxFull, AnswersFit
    <2>2. Owed' <= Taken' + rx_extra'
      <3>1. Owed - 1 <= Taken + (IF rx_extra > 0 THEN rx_extra - 1 ELSE 0)
        BY <2>1, RxNumbers, PassedFits
      <3> QED
        BY <1>1, <1>3, <3>1
    <2> QED
      BY <2>2 DEF AnswersFit
  <1>5. ASSUME CountsRight PROVE rx_extra > 0 /\ Due' = Due
    <2>1. Tells(unanswered, Len(unanswered), heard, Due, Taken, sent)
      BY <1>1, <1>5, CountingHost
    <2>2. Due <= 0
      BY <1>1, <2>1 DEF Tells
    <2>3. Owed \in Nat /\ rx_extra \in Nat /\ Owed > 0
      BY <1>3, RxNumbers
    <2>4. rx_extra > 0
      BY <2>2, <2>3 DEF Due
    <2>5. Owed' = Owed - 1 /\ rx_extra' = rx_extra - 1
      BY <1>1, <1>3, <2>4
    <2>6. Due' = Due
      BY <2>3, <2>5 DEF Due
    <2> QED
      BY <2>4, <2>6
  <1>6. RxMore'
    <2>1. CountsRight => rx_extra' <= Owed'
      <3>1. ASSUME CountsRight PROVE rx_extra <= Owed
        BY <1>1, <3>1 DEF RxFull, RxMore
      <3> QED
        BY <1>1, <1>3, <1>5, <3>1, RxNumbers
    <2> QED
      BY <1>1, <1>3, <1>9, <2>1 DEF RxFull, RxMore
  <1>7. AnswersTellLines'
    <2>1. CountsRight => Owed' - rx_extra' = Owed - rx_extra
      BY <1>5 DEF Due
    <2> QED
      BY <1>1, <1>2, <1>3, <1>9, <2>1 DEF RxFull, AnswersTellLines, LinesEnd
  <1>8. NothingDropped'
    BY <1>1, <1>2, <1>9 DEF RxFull, NothingDropped
  <1> QED
    BY <1>4, <1>6, <1>7, <1>8 DEF RxFull

\* A line of the panel is answered between those of the host.
LEMMA PanelFull ==
  ASSUME RxFull, AnswerPanelLine, RxInv', RxPanels'
  PROVE  RxFull'
  <1>1. /\ rx_pc = "loop" /\ answers' = answers + 1 /\ rx_extra' = rx_extra + 1
        /\ UNCHANGED <<ringVars, rx_pc, data, rx_last, wire, sent, unanswered, heard, streaming,
                       counts, dropped>>
    BY DEF AnswerPanelLine
  <1>9. CountsRight' <=> CountsRight
    BY DEF AnswerPanelLine, CountsRight
  <1>2. UNCHANGED <<RxCount, RxQueue>>
    BY <1>1, RxQueueStays
  <1>8. answers \in Nat /\ rx_extra \in Nat /\ Owed \in Nat /\ Taken \in Int
    BY RxNumbers
  <1>3. Owed' = Owed + 1 /\ Due' = Due /\ answers' \in Nat /\ Taken' = Taken
    <2>1. answers' \in Nat
      BY <1>1, <1>8
    <2>2. Owed' = Owed + 1
      BY <1>1, <1>8 DEF Owed
    <2>3. Due' = Due
      BY <1>1, <1>8, <2>2 DEF Due
    <2>4. Taken' = Taken
      BY <1>1, <1>2 DEF Taken
    <2> QED
      BY <2>1, <2>2, <2>3, <2>4
  <1>4. RxMore'
    <2>1. rx_extra <= Owed => rx_extra' <= Owed'
      BY <1>1, <1>3, <1>8
    <2> QED
      BY <1>1, <1>3, <1>9, <2>1 DEF RxFull, RxMore
  <1>5. AnswersFit'
    <2>1. Owed <= Taken + rx_extra
      BY DEF RxFull, AnswersFit
    <2>2. rx_extra' = rx_extra + 1
      BY <1>1
    <2>3. Owed + 1 <= Taken + (rx_extra + 1)
      BY <1>8, <2>1
    <2> QED
      BY <1>3, <2>2, <2>3 DEF AnswersFit
  <1>6. AnswersTellLines'
    <2>1. Owed' - rx_extra' = Owed - rx_extra
      BY <1>3 DEF Due
    <2> QED
      BY <1>1, <1>2, <1>3, <1>9, <2>1 DEF RxFull, AnswersTellLines, LinesEnd
  <1>7. NothingDropped'
    BY <1>1, <1>2, <1>9 DEF RxFull, NothingDropped
  <1> QED
    BY <1>4, <1>5, <1>6, <1>7 DEF RxFull

\* What a received character does to the queue: it joins the queue, unless that is full.
LEMMA ReceivedCounts ==
  ASSUME RxFull, Receive, RxInv'
  PROVE  /\ wire # <<>> /\ wire' = Tail(wire)
         /\ IF RxCount < RX_BUFFER_SIZE
            THEN RxCount' = RxCount + 1 /\ RxQueue' = Append(RxQueue, Head(wire)) /\ dropped' = dropped
            ELSE RxCount' = RxCount /\ dropped'
         /\ dropped' \in BOOLEAN
         /\ UNCHANGED <<rx_pc, data, rx_last, sent, unanswered, heard, answers, streaming, counts, CountsRight, rx_extra>>
  <1> DEFINE R == RX_RING_BUFFER
             b == serial_rx_buffer
             h == serial_rx_buffer_head
             t == serial_rx_buffer_tail
  <1>1. /\ wire # <<>> /\ wire' = Tail(wire) /\ t' = t
        /\ UNCHANGED <<rx_pc, data, rx_last, sent, unanswered, heard, answers, streaming, counts, CountsRight, rx_extra>>
    BY DEF Receive, panelAnswers, CountsRight
  <1>2. /\ R \in Sizes /\ b \in [Slots(R) -> Cell] /\ h \in Slots(R) /\ t \in Slots(R)
        /\ Head(wire) \in Cell
    BY <1>1, RxRing DEF RxFull, RxInv, RxInRange, Cell
  <1>3. RxInv
    BY DEF RxFull
  <1>4. CASE RxCount < RX_BUFFER_SIZE
    <2>1. rx_next(h) # t
      BY <1>3, <1>4, RxQueueIs, RxNumbers
    <2>2. /\ b' = [b EXCEPT ![h] = Head(wire)] /\ h' = RingNext(R, h) /\ dropped' = dropped
          /\ RingNext(R, h) # t
      BY <2>1, RxRing DEF Receive
    <2>3. b' \in [Slots(R) -> Cell] /\ b'[h] = Head(wire)
      BY <1>2, <2>2
    <2>4. RingQueue(R, b', h, t) = RingQueue(R, b, h, t)
      <3>1. RingQueue(R, [b EXCEPT ![h] = Head(wire)], h, t) = RingQueue(R, b, h, t)
        BY <1>2, StoreKeepsQueue
      <3> QED
        BY <2>2, <3>1
    <2>5. /\ RingCount(R, RingNext(R, h), t) = RingCount(R, h, t) + 1
          /\ RingQueue(R, b', RingNext(R, h), t) = Append(RingQueue(R, b', h, t), b'[h])
      <3>1. /\ R \in Sizes /\ b' \in [Slots(R) -> Cell] /\ h \in Slots(R) /\ t \in Slots(R)
            /\ RingNext(R, h) # t
        BY <1>2, <2>2, <2>3
      <3> QED
        BY <3>1, HeadAdvances
    <2>6. RxQueue' = RingQueue(R, b', h', t') /\ RxCount' = RingCount(R, h', t')
      BY DEF RxQueue, RxCount, RingQueue, RingCount
    <2>7. RxQueue = RingQueue(R, b, h, t) /\ RxCount = RingCount(R, h, t)
      BY <1>3, RxQueueIs
    <2>8. dropped' \in BOOLEAN
      BY <2>2 DEF RxFull, RxMore
    <2> QED
      BY <1>1, <1>4, <2>2, <2>3, <2>4, <2>5, <2>6, <2>7, <2>8
  <1>5. CASE ~(RxCount < RX_BUFFER_SIZE)
    <2>1. rx_next(h) = t
      BY <1>3, <1>5, RxQueueIs, RxNumbers
    <2>2. dropped' = TRUE /\ UNCHANGED <<b, h>>
      BY <2>1 DEF Receive
    <2>3. RxCount' = RxCount
      BY <1>1, <2>2 DEF RxCount
    <2> QED
      BY <1>1, <1>5, <2>2, <2>3
  <1> QED
    BY <1>4, <1>5

LEMMA ReceivesFull ==
  ASSUME RxFull, Receive, RxInv', RxPanels'
  PROVE  RxFull'
  <1>1. /\ wire # <<>> /\ wire' = Tail(wire) /\ dropped' \in BOOLEAN
        /\ UNCHANGED <<rx_pc, data, rx_last, sent, unanswered, heard, answers, streaming, counts, CountsRight, rx_extra>>
    BY ReceivedCounts
  <1>2. /\ Len(wire) > 0 /\ Len(wire') = Len(wire) - 1
        /\ \A k \in 1 .. Len(wire) - 1 : wire'[k] = wire[k + 1]
    BY <1>1, RxNumbers, HeadTailProperties
  <1>4. Owed' = Owed /\ Due' = Due
    BY <1>1 DEF Owed, Due
  <1>3. RxMore'
    BY <1>1, <1>4 DEF RxFull, RxMore
  <1>5. CASE RxCount < RX_BUFFER_SIZE
    <2>1. /\ RxCount' = RxCount + 1 /\ RxQueue' = Append(RxQueue, Head(wire))
          /\ dropped' = dropped
      BY <1>5, ReceivedCounts
    <2>2. Taken' = Taken
      BY <1>1, <1>2, <2>1, RxNumbers DEF Taken
    <2>3. AnswersFit'
      BY <1>1, <1>4, <2>2 DEF RxFull, AnswersFit
    <2>4. NothingDropped'
      BY <1>1, <1>2, <2>1, RxNumbers DEF RxFull, NothingDropped
    <2>5. AnswersTellLines'
      <3> DEFINE U == unanswered
                 m == Len(unanswered)
                 q == Len(RxQueue)
                 before == sent - Len(wire)
      <3> SUFFICES ASSUME CountsRight, streaming
                   PROVE  /\ Tells(unanswered', Len(unanswered'), heard', Due', Taken', sent')
                          /\ Ends(unanswered', Len(unanswered'), RxQueue', Len(RxQueue'), Taken')
                          /\ Ends(unanswered', Len(unanswered'), wire', Len(wire'), sent' - Len(wire'))
        BY <1>1 DEF AnswersTellLines, LinesEnd, Tells, Ends, Due
      <3>1. /\ m \in Nat /\ q \in Nat /\ Len(wire) \in Nat /\ Taken \in Int /\ before \in Int
            /\ Tells(U, m, heard, Due, Taken, sent)
            /\ Ends(U, m, RxQueue, q, Taken) /\ Ends(U, m, wire, Len(wire), before)
        BY CountingHost, RxNumbers
      <3>2. /\ Len(RxQueue') = q + 1 /\ \A k \in 1 .. q : RxQueue'[k] = RxQueue[k]
            /\ RxQueue'[q + 1] = wire[1]
        <4>1. Head(wire) = wire[1] /\ Head(wire) \in Cell
          BY <1>1, RxNumbers DEF Cell
        <4> QED
          BY <2>1, <4>1, RxNumbers, AppendProperties
      <3>3. Taken + (q + 1) = before + 1 /\ 1 \in 1 .. Len(wire)
        <4>1. RxCount \in Nat /\ sent \in Nat /\ Len(wire) \in Nat /\ q = RxCount
          BY RxNumbers
        <4>2. Len(wire) > 0
          BY <1>2
        <4> HIDE DEF U, m, q
        <4> QED
          BY <4>1, <4>2 DEF Taken
      <3>4. wire[1].eol <=> \E i \in 1 .. m : U[i] = Taken + (q + 1)
        <4>1. Ends(U, m, wire, Len(wire), before)
          BY <3>1
        <4> HIDE DEF U, m, q, before
        <4> QED
          BY <3>3, <4>1 DEF Ends
      <3>5. Ends(U, m, RxQueue', q + 1, Taken)
        <4>1. RxQueue'[q + 1].eol <=> \E i \in 1 .. m : U[i] = Taken + (q + 1)
          BY <3>2, <3>4
        <4>2. m \in Nat /\ q \in Nat /\ Taken \in Int /\ Ends(U, m, RxQueue, q, Taken)
          BY <3>1
        <4>3. \A k \in 1 .. q : RxQueue'[k] = RxQueue[k]
          BY <3>2
        <4> HIDE DEF U, m, q
        <4> QED
          BY <4>1, <4>2, <4>3, EndsAppended
      <3>6. Ends(U, m, wire', Len(wire) - 1, before + 1)
        <4>1. /\ m \in Nat /\ Len(wire) \in Nat /\ before \in Int
              /\ Ends(U, m, wire, Len(wire), before)
          BY <3>1
        <4> HIDE DEF U, m, before
        <4> QED
          BY <1>2, <4>1, EndsTail
      <3>7. before + 1 = sent' - Len(wire')
        BY <1>1, <1>2, RxNumbers
      <3> QED
        BY <1>1, <1>2, <1>4, <2>2, <3>1, <3>2, <3>5, <3>6, <3>7
    <2> QED
      BY <1>3, <2>3, <2>4, <2>5 DEF RxFull
  <1>6. CASE ~(RxCount < RX_BUFFER_SIZE)
    <2>1. RxCount' = RxCount
      BY <1>6, ReceivedCounts
    <2>2. ~CountsRight
      BY <1>2, <1>6, RxNumbers DEF RxFull, NothingDropped
    <2>3. Taken' = Taken + 1
      BY <1>1, <1>2, <2>1, RxNumbers DEF Taken
    <2>4. AnswersFit'
      <3>1. Owed <= Taken + rx_extra
        BY DEF RxFull, AnswersFit
      <3>2. rx_extra' = rx_extra
        BY <1>1
      <3>3. Owed \in Nat /\ Taken \in Int /\ rx_extra \in Nat
        BY RxNumbers
      <3>4. Owed <= Taken + 1 + rx_extra
        BY <3>1, <3>3
      <3> QED
        BY <1>4, <2>3, <3>2, <3>4 DEF AnswersFit
    <2> QED
      BY <1>1, <1>3, <2>2, <2>4 DEF RxFull, AnswersTellLines, NothingDropped
  <1> QED
    BY <1>5, <1>6

LEMMA ReadsFull ==
  ASSUME RxFull, ReadChar, RxInv', RxPanels'
  PROVE  RxFull'
  <1> DEFINE b == serial_rx_buffer
             t == serial_rx_buffer_tail
  <1>1. /\ rx_pc = "loop" /\ rx_pc' = "advance" /\ data' = b[t]
        /\ UNCHANGED <<ringVars, rx_last, wire, sent, unanswered, heard, answers, streaming,
                       counts, CountsRight, rx_extra, dropped>>
    BY DEF ReadChar, hostVars, panelAnswers, CountsRight
  <1>2. UNCHANGED <<RxCount, RxQueue>>
    BY <1>1, RxQueueStays
  <1>3. data' \in Cell
    BY <1>1 DEF RxFull, RxInv, RxInRange
  <1>5. Owed' = Owed
    BY <1>1 DEF Owed
  <1>4. RxMore'
    BY <1>1, <1>3, <1>5 DEF RxFull, RxMore
  <1> QED
    BY <1>1, <1>2, <1>4, <1>5, RxQuiet

LEMMA AnswersFull ==
  ASSUME RxFull, AnswerLine, RxInv', RxPanels'
  PROVE  RxFull'
  <1>1. /\ rx_pc = "line" /\ rx_pc' = "loop" /\ answers' = answers + 1
        /\ UNCHANGED <<ringVars, data, rx_last, wire, sent, unanswered, heard, streaming,
                       counts, CountsRight, rx_extra, dropped>>
    BY DEF AnswerLine, panelAnswers, CountsRight
  <1>2. UNCHANGED <<RxCount, RxQueue>>
    BY <1>1, RxQueueStays
  <1>4. Owed' = Owed /\ answers' \in Nat
    BY <1>1, RxNumbers DEF Owed
  <1>3. RxMore'
    BY <1>1, <1>4 DEF RxFull, RxMore
  <1> QED
    BY <1>1, <1>2, <1>3, <1>4, RxQuiet

LEMMA TakesFull ==
  ASSUME RxFull, AdvanceTail, RxInv', RxPanels'
  PROVE  RxFull'
  <1> DEFINE R == RX_RING_BUFFER
             b == serial_rx_buffer
             h == serial_rx_buffer_head
             t == serial_rx_buffer_tail
             Q == RxQueue
  <1>1. /\ rx_pc = "advance" /\ rx_pc' = IF data.eol THEN "line" ELSE "loop"
        /\ t' = RingNext(R, t) /\ rx_last' = data /\ data' = NoChar
        /\ UNCHANGED <<b, h, wire, sent, unanswered, heard, answers, streaming, counts, CountsRight, rx_extra, dropped>>
    BY RxRing DEF AdvanceTail, hostVars, panelAnswers, CountsRight
  <1>2. /\ R \in Sizes /\ b \in [Slots(R) -> Cell] /\ h \in Slots(R) /\ t \in Slots(R)
        /\ h # t /\ data = b[t]
    BY <1>1, RxRing DEF RxFull, RxInv, RxInRange, RxPlace
  <1>3. /\ RingCount(R, h, RingNext(R, t)) = RingCount(R, h, t) - 1
        /\ RingQueue(R, b, h, t) # <<>> /\ b[t] = Head(RingQueue(R, b, h, t))
        /\ RingQueue(R, b, h, RingNext(R, t)) = Tail(RingQueue(R, b, h, t))
    BY <1>2, TailAdvances
  <1>4. RxQueue' = RingQueue(R, b', h', t') /\ RxCount' = RingCount(R, h', t')
    BY DEF RxQueue, RxCount, RingQueue, RingCount
  <1>5. RxQueue = RingQueue(R, b, h, t) /\ RxCount = RingCount(R, h, t)
    BY RxQueueIs DEF RxFull
  <1>6. /\ RxCount' = RxCount - 1 /\ Q # <<>> /\ data = Head(Q) /\ RxQueue' = Tail(Q)
    BY <1>1, <1>2, <1>3, <1>4, <1>5
  <1> HIDE DEF R, b, h, t, Q
  <1>7. /\ Q \in Seq(Cell) /\ Len(Q) = RxCount /\ RxCount > 0
        /\ data = Q[1] /\ Len(RxQueue') = Len(Q) - 1
        /\ \A k \in 1 .. Len(Q) - 1 : RxQueue'[k] = Q[k + 1]
    <2>1. Q \in Seq(Cell) /\ Len(Q) = RxCount
      BY RxNumbers DEF Q
    <2>2. Len(Q) > 0 /\ Head(Q) = Q[1]
      BY <1>6, <2>1
    <2> QED
      BY <1>6, <2>1, <2>2, HeadTailProperties
  <1>8. Taken' = Taken + 1 /\ Owed' = IF data.eol THEN Owed + 1 ELSE Owed
    BY <1>1, <1>6, RxNumbers DEF Taken, Owed
  <1>13. rx_extra' = rx_extra
    BY <1>1
  <1>9. AnswersFit'
    <2>1. Owed <= Taken + rx_extra
      BY DEF RxFull, AnswersFit
    <2>2. Owed \in Nat /\ Taken \in Int /\ rx_extra \in Nat
      BY RxNumbers
    <2>3. Owed <= Taken + 1 + rx_extra /\ Owed + 1 <= Taken + 1 + rx_extra
      BY <2>1, <2>2
    <2> QED
      BY <1>8, <1>13, <2>3 DEF AnswersFit
  <1>10. NothingDropped'
    BY <1>1, <1>6, RxNumbers DEF RxFull, NothingDropped
  <1>11. RxMore'
    <2>1. rx_extra <= Owed => rx_extra' <= Owed'
      BY <1>8, <1>13, RxNumbers
    <2> QED
      BY <1>1, <2>1 DEF RxFull, RxMore, Cell
  <1>12. AnswersTellLines'
    <2> DEFINE U == unanswered
               m == Len(unanswered)
    <2> SUFFICES ASSUME CountsRight, streaming
                 PROVE  /\ Tells(unanswered', Len(unanswered'), heard', Due', Taken', sent')
                        /\ Ends(unanswered', Len(unanswered'), RxQueue', Len(RxQueue'), Taken')
                        /\ Ends(unanswered', Len(unanswered'), wire', Len(wire'), sent' - Len(wire'))
      BY <1>1 DEF AnswersTellLines, LinesEnd, Tells, Ends, Due
    <2>1. /\ m \in Nat /\ \A i \in 1 .. m : U[i] \in Int
          /\ Tells(U, m, heard, Due, Taken, sent) /\ heard \in Nat
          /\ Ends(U, m, Q, Len(Q), Taken) /\ Ends(U, m, wire, Len(wire), sent - Len(wire))
      BY CountingHost DEF Q
    <2>2. Taken \in Int /\ Due \in Nat /\ sent \in Int /\ Len(Q) \in Nat /\ Len(Q) > 0
      BY <1>7, RxNumbers, CountingHost
    <2>3. Q[1].eol <=> \E i \in 1 .. m : U[i] = Taken + 1
      <3>1. Ends(U, m, Q, Len(Q), Taken) /\ 1 \in 1 .. Len(Q)
        BY <2>1, <2>2
      <3> HIDE DEF U, m
      <3> QED
        BY <3>1 DEF Ends
    <2> DEFINE ends == \E i \in 1 .. m : U[i] = Taken + 1
    <2>4. Tells(U, m, heard, IF ends THEN Due + 1 ELSE Due, Taken + 1, sent)
      <3>1. ends \in BOOLEAN /\ (ends <=> \E i \in 1 .. m : U[i] = Taken + 1)
        OBVIOUS
      <3>2. /\ m \in Nat /\ \A i \in 1 .. m : U[i] \in Int
            /\ Tells(U, m, heard, Due, Taken, sent)
        BY <2>1
      <3>3. heard \in Nat /\ Due \in Nat /\ Taken \in Int /\ sent \in Int
        BY <2>1, <2>2
      <3> HIDE DEF U, m, ends
      <3> QED
        BY <3>1, <3>2, <3>3, TellsTaken
    <2>5. Ends(U, m, RxQueue', Len(Q) - 1, Taken + 1)
      <3> HIDE DEF U, m
      <3> QED
        BY <1>7, <2>1, <2>2, EndsTail
    <2>6. Due' = IF ends THEN Due + 1 ELSE Due
      <3>1. data.eol <=> ends
        BY <1>7, <2>3
      <3> HIDE DEF ends
      <3> QED
        BY <1>8, <1>13, <3>1, RxNumbers DEF Due
    <2> QED
      BY <1>1, <1>7, <1>8, <2>1, <2>4, <2>5, <2>6
  <1> QED
    BY <1>9, <1>10, <1>11, <1>12 DEF RxFull

LEMMA ResetsFull ==
  ASSUME RxFull, RxReset, RxInv', RxPanels'
  PROVE  RxFull'
  <1>1. /\ rx_pc' = "flush" /\ streaming' = FALSE /\ answers' = 0
        /\ UNCHANGED <<ringVars, data, rx_last, wire, sent, heard, counts, CountsRight, rx_extra, dropped>>
    BY DEF RxReset, panelAnswers, CountsRight
  <1>2. UNCHANGED <<RxCount, RxQueue>>
    BY <1>1, RxQueueStays
  <1>3. RxMore'
    BY <1>1 DEF RxFull, RxMore
  <1>4. Taken' = Taken /\ Owed' = 0
    BY <1>1, <1>2 DEF Taken, Owed
  <1>5. AnswersFit'
    <2>1. Owed <= Taken + rx_extra
      BY DEF RxFull, AnswersFit
    <2>2. rx_extra' = rx_extra
      BY <1>1
    <2>3. Owed' <= Taken' + rx_extra'
      BY <1>4, <2>1, <2>2, RxNumbers
    <2> QED
      BY <2>3 DEF AnswersFit
  <1> QED
    BY <1>1, <1>2, <1>3, <1>5 DEF RxFull, AnswersTellLines, NothingDropped

LEMMA FlushesFull ==
  ASSUME RxFull, Flush, RxInv', RxPanels'
  PROVE  RxFull'
  <1> DEFINE R == RX_RING_BUFFER
             h == serial_rx_buffer_head
             t == serial_rx_buffer_tail
  <1>1. /\ rx_pc = "flush" /\ rx_pc' = "loop" /\ t' = flush_head
        /\ UNCHANGED <<h, data, rx_last, wire, sent, unanswered, heard, answers, streaming,
                       counts, CountsRight, rx_extra, dropped>>
    BY DEF Flush, hostVars, panelAnswers, CountsRight
  <1>2. R \in Sizes /\ h \in Slots(R) /\ t \in Slots(R) /\ flush_head \in Slots(R)
    BY RxRing DEF RxFull, RxInv, RxInRange
  <1>3. RxCount = RingCount(R, h, t) /\ RxCount' = RingCount(R, h', t')
    BY DEF RxCount, RingCount
  <1>4. RxCount' <= RxCount
    <2>1. RingCount(R, flush_head, t) <= RingCount(R, h, t)
      BY <1>1 DEF RxFull, RxInv, RxPlace
    <2>2. /\ RingCount(R, h, t) = IF t <= h THEN h - t ELSE h - t + R
          /\ RingCount(R, flush_head, t) = IF t <= flush_head THEN flush_head - t ELSE flush_head - t + R
          /\ RingCount(R, h, flush_head) = IF flush_head <= h THEN h - flush_head ELSE h - flush_head + R
      BY <1>2, CountFacts
    <2>3. RingCount(R, h, flush_head) <= RingCount(R, h, t)
      BY <1>2, <2>1, <2>2 DEF Sizes, Slots
    <2> QED
      BY <1>1, <1>3, <2>3
  <1>5. RxCount' \in Nat
    BY <1>1, <1>2, <1>3, CountFacts
  <1>6. Taken' >= Taken /\ Taken' \in Int /\ Owed' = Owed
    BY <1>1, <1>4, <1>5, RxNumbers DEF Taken, Owed
  <1>7. AnswersFit'
    <2>1. Owed <= Taken + rx_extra
      BY DEF RxFull, AnswersFit
    <2>2. rx_extra' = rx_extra
      BY <1>1
    <2>3. Owed' <= Taken' + rx_extra'
      BY <1>6, <2>1, <2>2, RxNumbers
    <2> QED
      BY <2>3 DEF AnswersFit
  <1>8. RxMore'
    BY <1>1 DEF RxFull, RxMore
  <1>9. ~(CountsRight /\ streaming)
    BY <1>1 DEF RxFull, RxMore
  <1>10. NothingDropped'
    BY <1>1, <1>4, <1>5, RxNumbers DEF RxFull, NothingDropped
  <1> QED
    BY <1>1, <1>7, <1>8, <1>9, <1>10 DEF RxFull, AnswersTellLines

LEMMA PanelsStep ==
  ASSUME RxPanels, [RxNext]_rxVars
  PROVE  RxPanels'
  <1>1. /\ rx_panels \in 0 .. RxMaxPanels /\ rx_extra \in 0 .. rx_panels /\ rx_misled \in BOOLEAN
        /\ RxMaxPanels \in Nat
    BY RxAssumption DEF RxPanels
  <1>2. CASE UNCHANGED panelAnswers
    BY <1>1, <1>2 DEF RxPanels, panelAnswers
  <1>3. CASE HostHearsAnswer
    <2>1. rx_panels' = rx_panels /\ rx_extra' = rx_extra /\ rx_misled' \in BOOLEAN
      BY <1>1, <1>3 DEF HostHearsAnswer
    <2> QED
      BY <1>1, <2>1 DEF RxPanels
  <1>4. CASE HostPassesOverAnswer
    <2>1. rx_panels' = rx_panels /\ rx_extra' = (IF rx_extra > 0 THEN rx_extra - 1 ELSE 0)
          /\ rx_misled' = rx_misled
      BY <1>4 DEF HostPassesOverAnswer
    <2>2. rx_extra' \in 0 .. rx_panels'
      BY <1>1, <2>1
    <2> QED
      BY <1>1, <2>1, <2>2 DEF RxPanels
  <1>5. CASE AnswerPanelLine
    <2>1. rx_panels' = rx_panels + 1 /\ rx_extra' = rx_extra + 1 /\ rx_misled' = rx_misled
          /\ rx_panels < RxMaxPanels
      BY <1>5 DEF AnswerPanelLine
    <2>2. rx_panels' \in 0 .. RxMaxPanels /\ rx_extra' \in 0 .. rx_panels'
      BY <1>1, <2>1
    <2> QED
      BY <1>1, <2>1, <2>2 DEF RxPanels
  <1>6. CASE HostSendsLine \/ Receive \/ ReadChar \/ AdvanceTail \/ AnswerLine \/ RxReset \/ Flush
             \/ UNCHANGED rxVars
    <2>1. UNCHANGED panelAnswers
      BY <1>6 DEF HostSendsLine, Receive, ReadChar, AdvanceTail, AnswerLine, RxReset, Flush,
                  rxVars, hostVars
    <2> QED
      BY <1>2, <2>1
  <1> QED
    BY <1>3, <1>4, <1>5, <1>6 DEF RxNext

LEMMA RxFullStep ==
  ASSUME RxFull, [RxNext]_rxVars
  PROVE  RxFull'
  <1>1. RxInv' /\ RxPanels'
    BY RxStepInv, PanelsStep DEF RxFull
  <1>2. CASE UNCHANGED rxVars
    <2>1. UNCHANGED <<ringVars, rx_pc, data, rx_last, wire, sent, unanswered, heard, answers,
                      streaming, counts, CountsRight, rx_extra, dropped>>
      BY <1>2 DEF rxVars, hostVars, panelAnswers, CountsRight
    <2>2. UNCHANGED <<RxCount, RxQueue>>
      BY <2>1, RxQueueStays
    <2>3. Owed' = Owed /\ Due' = Due
      BY <2>1 DEF Owed, Due
    <2>4. RxMore'
      BY <2>1, <2>3 DEF RxFull, RxMore
    <2> QED
      BY <1>1, <2>1, <2>2, <2>3, <2>4, RxQuiet
  <1> QED
    BY <1>1, <1>2, SendsFull, HearsFull, PassesOverFull, ReceivesFull, ReadsFull, TakesFull, AnswersFull,
       PanelFull, ResetsFull, FlushesFull DEF RxNext

LEMMA RxFullType == RxFull => RxTypeOK
  <1> SUFFICES ASSUME RxFull PROVE RxTypeOK
    OBVIOUS
  <1>1. \A i \in RxSlots : serial_rx_buffer[i] \in Char \cup {NoChar}
    BY RxRing DEF RxFull, RxInv, RxInRange, Cell
  <1>2. serial_rx_buffer_head \in RxSlots /\ serial_rx_buffer_tail \in RxSlots /\ flush_head \in RxSlots
    BY RxRing DEF RxFull, RxInv, RxInRange
  <1>3. answers \in 0 .. MaxChars + RxMaxPanels
    <2>1. answers <= Owed /\ Owed <= sent + rx_extra
      BY RxNumbers DEF RxFull, AnswersFit, Owed
    <2>2. sent <= MaxChars /\ rx_extra <= RxMaxPanels /\ RxMaxPanels \in Nat
      BY RxNumbers, RxAssumption DEF RxFull, RxMore, RxPanels
    <2> QED
      BY <2>1, <2>2, RxNumbers
  <1> QED
    BY <1>1, <1>2, <1>3 DEF RxFull, RxMore, RxPanels, RxTypeOK, Cell

\* For rings of every size, any lines, bytes, resets and lines of the panel: only queued
\* bytes are sent; and as long as a host that counts against RX_BUFFER_SIZE has awaited
\* none of its own answers when it heard one of the panel's, an answer stands for its
\* oldest line that was read whole and has none yet, and no character of it is dropped.
THEOREM CountedCharactersArrive ==
  ASSUME ~LateInterrupts
  PROVE  SerialSpec => []SerialInv
  <1> DEFINE Inv == TxInv /\ RxFull
  <1>1. SerialInit => Inv
    BY TxInitInv, RxFullInit DEF SerialInit
  <1>2. Inv /\ [SerialNext]_<<txVars, rxVars>> => Inv'
    <2> SUFFICES ASSUME Inv, [SerialNext]_<<txVars, rxVars>> PROVE Inv'
      OBVIOUS
    <2>1. [TxNext]_txVars /\ [RxNext]_rxVars
      BY DEF SerialNext
    <2> QED
      BY <2>1, TxStepInv, RxFullStep
  <1>3. Inv => SerialInv
    BY RxFullType DEF TxInv, RxFull, SerialInv
  <1> QED
    BY <1>1, <1>2, <1>3, PTL DEF SerialSpec
===============================================================================
