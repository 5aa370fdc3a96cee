------------------------------ MODULE MCGcode ------------------------------
EXTENDS Gcode

W(l, v) == [l |-> l, v |-> v, m |-> 0]
C(l, v, m) == [l |-> l, v |-> v, m |-> m]
At(x, z) == [X |-> x, Y |-> 0, Z |-> z]
Stored == [i \in Records |-> IF i = 1 THEN At(3, 2) ELSE IF i = 6 THEN At(5, 0) ELSE Zero]
Setup(words, laser, bad) ==
  [words |-> words, laser |-> laser, sync_pulses |-> TRUE, hard_limits |-> TRUE,
   bad |-> bad, stored |-> Stored]

MCSetups == {
  Setup({W("G", 55), W("G", 92), W("G", 91), W("X", 1), W("Z", 4),
         W("G", 53), C("G", 43, 10), C("G", 92, 10)}, FALSE, {}),
  Setup({W("G", 10), W("L", 20), W("L", 2), W("P", 2), W("P", 0), W("X", 1),
         W("G", 55), W("M", 2)}, FALSE, {1}),
  Setup({W("M", 3), W("S", 5), W("G", 1), W("X", 1), W("F", 2), W("M", 8),
         W("M", 30)}, TRUE, {}),
  Setup({W("M", 3), W("M", 5), W("S", 5), W("S", 9), W("M", 8), W("M", 9),
         W("M", 2), W("G", 4), W("P", 1)}, FALSE, {}),
  Setup({W("G", 93), W("G", 94), W("F", 2), W("G", 1), W("X", 1),
         W("G", 33), W("K", 2), W("G", 20)}, FALSE, {}),
  Setup({W("G", 2), W("G", 3), W("X", 2), W("Z", 2), W("I", 1), W("R", 2),
         W("F", 2), W("G", 18)}, FALSE, {}),
  Setup({W("G", 28), C("G", 28, 10), W("G", 30), W("X", 1), C("G", 38, 20),
         C("G", 38, 50), W("F", 2), W("G", 80)}, FALSE, {6}) }
=============================================================================
