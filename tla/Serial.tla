------------------------------- MODULE Serial -------------------------------
(***************************************************************************)
(* The serial port of serial.c: its two rings, which share no state.  The  *)
(* main program and the interrupts of one run between any two steps of the *)
(* other.                                                                  *)
(***************************************************************************)
EXTENDS SerialTx, SerialRx

SerialInit == TxInit /\ RxInit

SerialNext ==
  \/ TxNext /\ UNCHANGED rxVars
  \/ RxNext /\ UNCHANGED txVars

SerialSpec == SerialInit /\ [][SerialNext]_<<txVars, rxVars>>

\* Both rings keep their bounds and only queued bytes are sent.  Of a host that counts
\* the characters of its unanswered lines, and is told of a line of the panel only when
\* it awaits no answer, an answer stands for a line that was read whole, and no
\* character is dropped.
SerialInv ==
  /\ TxTypeOK /\ StreamsOnlyQueued
  /\ RxTypeOK /\ AnswersFit /\ AnswersTellLines /\ NothingDropped
=============================================================================
