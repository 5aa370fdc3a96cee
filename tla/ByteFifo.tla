------------------------------ MODULE ByteFifo ------------------------------
(***************************************************************************)
(* What a serial ring buffer promises: a bounded first-in first-out queue  *)
(* of bytes.  A byte that does not fit never enters; a byte that is in     *)
(* leaves once, in order, unless the whole queue is flushed.               *)
(***************************************************************************)
EXTENDS Naturals, Sequences

CONSTANTS Byte,       \* the bytes
          Capacity    \* how many of them fit

VARIABLES queue,      \* the bytes inside, oldest first
          last        \* the byte that left last

fifoVars == <<queue, last>>

Init == queue = <<>> /\ last \notin Byte

Put ==
  /\ Len(queue) < Capacity
  /\ \E b \in Byte : queue' = Append(queue, b)
  /\ UNCHANGED last

Get ==
  /\ queue # <<>>
  /\ last' = Head(queue)
  /\ queue' = Tail(queue)

\* A flush keeps at most the bytes that arrive while it runs.
Flush ==
  /\ \E n \in 1 .. Len(queue) : queue' = SubSeq(queue, n + 1, Len(queue))
  /\ UNCHANGED last

Next == Put \/ Get \/ Flush

Spec == Init /\ [][Next]_fifoVars
=============================================================================
