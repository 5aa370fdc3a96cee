------------------------------- MODULE RpnStack -------------------------------
(***************************************************************************)
(* What the calculator page of the user interface promises: a stack of     *)
(* numbers with a limited depth, the entry with index 1 on top.            *)
(***************************************************************************)
EXTENDS Integers, Sequences, SequencesExt

CONSTANTS RpnDepth, RpnModulus
VARIABLE rpn

RpnValues == 0..RpnModulus - 1
RpnAdd(a, b) == (a + b) % RpnModulus
RpnSubtract(a, b) == (a - b) % RpnModulus

\* A number on a full stack pushes the oldest one out.
RpnPushed(s, v) == SubSeq(<<v>> \o s, 1, IF Len(s) < RpnDepth THEN Len(s) + 1 ELSE RpnDepth)

\* An operation takes its two numbers from the stack; of a single number it
\* makes another one.
RpnOperated(s) ==
  IF Len(s) >= 2
  THEN {<<v>> \o SubSeq(s, 3, Len(s)) : v \in {RpnAdd(s[2], s[1]), RpnSubtract(s[2], s[1])}}
  ELSE IF Len(s) = 1 THEN {<<v>> : v \in RpnValues} ELSE {s}

RpnInit == rpn = <<>>

\* One key: the number that is being typed is pushed before an operation.
RpnNext ==
  \/ \E v \in RpnValues : rpn' = RpnPushed(rpn, v)
  \/ \E i \in DOMAIN rpn : rpn' = RemoveAt(rpn, i)
  \/ rpn' \in RpnOperated(rpn)
  \/ \E v \in RpnValues : rpn' \in RpnOperated(RpnPushed(rpn, v))
RpnSpec == RpnInit /\ [][RpnNext]_rpn
=============================================================================
