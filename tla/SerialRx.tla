------------------------------ MODULE SerialRx ------------------------------
(***************************************************************************)
(* The receive ring of serial.c: the Receive interrupt fills it and drops  *)
(* what does not fit, serial_read() in the main loop empties it, and main()*)
(* flushes it after a reset.  The host on the other end of the line is     *)
(* external.  If it counts, it does as config.h says of most streaming     *)
(* interfaces: the lines it has sent and not had answered yet never hold   *)
(* more than the RX_BUFFER_SIZE characters that the [OPT:] report          *)
(* announces.  If not, it sends as fast as it can.  Answers do not say to  *)
(* which line, and those to the $ lines of the panel look the same: it     *)
(* takes each for its oldest line's, or passes over it if it awaits none.  *)
(*                                                                         *)
(* A character is its number and whether it ends its line; a line is the   *)
(* number of its last character.  Realtime command characters never enter  *)
(* the ring.                                                               *)
(***************************************************************************)
EXTENDS Integers, Sequences, FiniteSets

CONSTANTS RX_BUFFER_SIZE,   \* bytes the ring can hold
          LineLengths,      \* lengths of the host's lines, end of line included
          MaxChars,         \* bound on the characters sent
          RxMaxPanels,      \* bound on the panel's lines
          RxMaxResets       \* bound on the resets

RX_RING_BUFFER == RX_BUFFER_SIZE + 1

ASSUME RxAssumption ==
  /\ RX_BUFFER_SIZE \in Nat \ {0}
  /\ LineLengths \subseteq 1 .. RX_BUFFER_SIZE
  /\ MaxChars \in Nat /\ RxMaxPanels \in Nat /\ RxMaxResets \in Nat

VARIABLES
  serial_rx_buffer, serial_rx_buffer_head, serial_rx_buffer_tail,
  rx_pc,             \* main loop: "loop", "advance" (in serial_read), "line", "flush"
  data,           \* the character serial_read() has copied
  flush_head,     \* the head serial_reset_read_buffer() has read
  rx_last,           \* the character handed to the main loop rx_last
  wire,           \* characters on the line, oldest first
  sent,           \* characters sent by the host
  unanswered,     \* the host's lines without an answer yet, oldest first
  heard,          \* the last line with one
  answers,        \* "ok" answers on their way to the host
  streaming,      \* has the host seen no reset?
  counts,         \* does the host count characters?
  rx_panels,      \* lines of the panel answered
  rx_extra,       \* ... whose answers the host has not passed over
  rx_misled,      \* has it taken one, or one in its place, for its own?
  rx_resets,
  dropped         \* has a character found the ring full?

ringVars == <<serial_rx_buffer, serial_rx_buffer_head, serial_rx_buffer_tail>>
panelAnswers == <<rx_panels, rx_extra, rx_misled>>
hostVars == <<wire, sent, unanswered, heard, answers, streaming, counts, panelAnswers>>
rxVars   == <<ringVars, rx_pc, data, flush_head, rx_last, hostVars, rx_resets, dropped>>

RxSlots == 0 .. RX_RING_BUFFER - 1
Char  == [n : 1 .. MaxChars, eol : BOOLEAN]
NoChar == [n |-> 0]

rx_next_no_wrap(i) == i + 1
rx_next_early_wrap(i) == IF i + 1 >= RX_BUFFER_SIZE THEN 0 ELSE i + 1
rx_next(i) == IF i + 1 = RX_RING_BUFFER THEN 0 ELSE i + 1

RxInit ==
  /\ serial_rx_buffer = [i \in RxSlots |-> NoChar]
  /\ serial_rx_buffer_head = 0 /\ serial_rx_buffer_tail = 0
  /\ rx_pc = "loop" /\ data = NoChar /\ flush_head = 0 /\ rx_last = NoChar
  /\ wire = <<>> /\ sent = 0 /\ unanswered = <<>> /\ heard = 0 /\ answers = 0
  /\ streaming = TRUE
  /\ counts \in BOOLEAN
  /\ rx_panels = 0 /\ rx_extra = 0 /\ rx_misled = FALSE
  /\ rx_resets = 0 /\ dropped = FALSE

-----------------------------------------------------------------------------
(* The host.                                                               *)

HostSendsLine ==
  /\ streaming
  /\ \E n \in LineLengths :
       /\ sent + n <= MaxChars
       /\ counts => sent - heard + n <= RX_BUFFER_SIZE
       /\ wire' = wire \o [k \in 1 .. n |-> [n |-> sent + k, eol |-> k = n]]
       /\ sent' = sent + n
       /\ unanswered' = Append(unanswered, sent + n)
  /\ UNCHANGED <<ringVars, rx_pc, data, flush_head, rx_last, heard, answers, streaming, counts,
                 panelAnswers, rx_resets, dropped>>

\* An answer is credited to the oldest line.
HostHearsAnswer ==
  /\ streaming /\ answers > 0 /\ unanswered # <<>>
  /\ answers' = answers - 1
  /\ unanswered' = Tail(unanswered) /\ heard' = Head(unanswered)
  /\ rx_misled' = (rx_misled \/ rx_extra > 0)
  /\ UNCHANGED <<ringVars, rx_pc, data, flush_head, rx_last, wire, sent, streaming, counts,
                 rx_panels, rx_extra, rx_resets, dropped>>

HostPassesOverAnswer ==
  /\ streaming /\ answers > 0 /\ unanswered = <<>>
  /\ answers' = answers - 1
  /\ rx_extra' = IF rx_extra > 0 THEN rx_extra - 1 ELSE 0
  /\ UNCHANGED <<ringVars, rx_pc, data, flush_head, rx_last, wire, sent, unanswered, heard,
                 streaming, counts, rx_panels, rx_misled, rx_resets, dropped>>

-----------------------------------------------------------------------------
(* The Receive interrupt, for a character that is no realtime command.     *)

ReceiveAlways ==
  /\ wire # <<>>
  /\ wire' = Tail(wire)
  /\ serial_rx_buffer' = [serial_rx_buffer EXCEPT ![serial_rx_buffer_head] = Head(wire)]
  /\ serial_rx_buffer_head' = rx_next(serial_rx_buffer_head)
  /\ UNCHANGED <<serial_rx_buffer_tail, rx_pc, data, flush_head, rx_last, sent, unanswered, heard,
                 answers, streaming, counts, panelAnswers, rx_resets, dropped>>

Receive ==
  /\ wire # <<>>
  /\ wire' = Tail(wire)
  /\ IF rx_next(serial_rx_buffer_head) # serial_rx_buffer_tail
     THEN /\ serial_rx_buffer' =
               [serial_rx_buffer EXCEPT ![serial_rx_buffer_head] = Head(wire)]
          /\ serial_rx_buffer_head' = rx_next(serial_rx_buffer_head)
          /\ UNCHANGED dropped
     ELSE dropped' = TRUE /\ UNCHANGED <<serial_rx_buffer, serial_rx_buffer_head>>
  /\ UNCHANGED <<serial_rx_buffer_tail, rx_pc, data, flush_head, rx_last, sent, unanswered, heard,
                 answers, streaming, counts, panelAnswers, rx_resets>>

-----------------------------------------------------------------------------
(* The main loop.                                                          *)

\* serial_read() up to the copy of the character at the tail.
ReadChar ==
  /\ rx_pc = "loop"
  /\ serial_rx_buffer_head # serial_rx_buffer_tail
  /\ data' = serial_rx_buffer[serial_rx_buffer_tail]
  /\ rx_pc' = "advance"
  /\ UNCHANGED <<ringVars, flush_head, rx_last, hostVars, rx_resets, dropped>>

\* The rest of serial_read(), and the main loop's look at the character.
AdvanceTail ==
  /\ rx_pc = "advance"
  /\ serial_rx_buffer_tail' = rx_next(serial_rx_buffer_tail)
  /\ rx_last' = data /\ data' = NoChar
  /\ rx_pc' = IF data.eol THEN "line" ELSE "loop"
  /\ UNCHANGED <<serial_rx_buffer, serial_rx_buffer_head, flush_head, hostVars,
                 rx_resets, dropped>>

\* The line is executed, however long that takes, and answered; so is an empty one.
AnswerLineUnlessEmpty ==
  /\ rx_pc = "line"
  /\ rx_pc' = "loop"
  /\ answers' \in {answers, answers + 1}
  /\ UNCHANGED <<ringVars, data, flush_head, rx_last, wire, sent, unanswered, heard, streaming,
                 counts, panelAnswers, rx_resets, dropped>>
AnswerLine ==
  /\ rx_pc = "line"
  /\ rx_pc' = "loop"
  /\ answers' = answers + 1
  /\ UNCHANGED <<ringVars, data, flush_head, rx_last, wire, sent, unanswered, heard, streaming,
                 counts, panelAnswers, rx_resets, dropped>>

\* When serial_read() has found nothing (characters may have come since), a $ line of
\* the panel is executed, and answered on the serial port, too.
AnswerPanelLine ==
  /\ rx_pc = "loop" /\ rx_panels < RxMaxPanels
  /\ rx_panels' = rx_panels + 1
  /\ answers' = answers + 1 /\ rx_extra' = rx_extra + 1
  /\ UNCHANGED <<ringVars, rx_pc, data, flush_head, rx_last, wire, sent, unanswered, heard,
                 streaming, counts, rx_misled, rx_resets, dropped>>

\* A reset unwinds the main loop; main() reads the head for
\* serial_reset_read_buffer().  The host sees the greeting and stops streaming.
RxReset ==
  /\ rx_pc \in {"loop", "line"} /\ rx_resets < RxMaxResets
  /\ rx_resets' = rx_resets + 1
  /\ rx_pc' = "flush"
  /\ flush_head' = serial_rx_buffer_head
  /\ streaming' = FALSE /\ unanswered' = <<>> /\ answers' = 0
  /\ UNCHANGED <<ringVars, data, rx_last, wire, sent, heard, counts, panelAnswers, dropped>>

\* ... and writes it to the tail; characters may have arrived in between.
Flush ==
  /\ rx_pc = "flush"
  /\ serial_rx_buffer_tail' = flush_head
  /\ rx_pc' = "loop" /\ flush_head' = 0
  /\ UNCHANGED <<serial_rx_buffer, serial_rx_buffer_head, data, rx_last, hostVars,
                 rx_resets, dropped>>

RxNext == HostSendsLine \/ HostHearsAnswer \/ HostPassesOverAnswer \/ Receive
          \/ ReadChar \/ AdvanceTail \/ AnswerLine \/ AnswerPanelLine \/ RxReset \/ Flush

RxSpec == RxInit /\ [][RxNext]_rxVars

-----------------------------------------------------------------------------
(* Properties.                                                             *)

RxTypeOK ==
  /\ serial_rx_buffer_head \in RxSlots /\ serial_rx_buffer_tail \in RxSlots
  /\ \A i \in RxSlots : serial_rx_buffer[i] \in Char \cup {NoChar}
  /\ rx_pc \in {"loop", "advance", "line", "flush"}
  /\ data \in Char \cup {NoChar} /\ rx_last \in Char \cup {NoChar}
  /\ flush_head \in RxSlots
  /\ streaming \in BOOLEAN /\ counts \in BOOLEAN /\ dropped \in BOOLEAN
  /\ sent \in 0 .. MaxChars /\ answers \in 0 .. MaxChars + RxMaxPanels
  /\ rx_panels \in 0 .. RxMaxPanels /\ rx_extra \in 0 .. rx_panels /\ rx_misled \in BOOLEAN

RxCount == (serial_rx_buffer_head - serial_rx_buffer_tail) % RX_RING_BUFFER

RxQueue == [k \in 1 .. RxCount |->
            serial_rx_buffer[(serial_rx_buffer_tail + k - 1) % RX_RING_BUFFER]]

RxFifo == INSTANCE ByteFifo WITH
          Byte <- Char, Capacity <- RX_BUFFER_SIZE, queue <- RxQueue, last <- rx_last

\* The receive ring is a bounded first-in first-out queue: a character that got in
\* reaches the main loop once and in order, although the interrupt may come between
\* any two steps of serial_read() and of the flush.
RxImplementsFifo == RxFifo!Spec

\* Of the characters the host has sent, those the main loop has taken and the lines
\* among them it owes an answer for or has answered unheard.
Taken == sent - Len(wire) - RxCount
Owed == answers + (IF rx_pc = "line" THEN 1 ELSE 0)

\* An answer costs a character or a line of the panel: no more are on their way.
AnswersFit == Owed <= Taken + rx_extra

\* Do the unanswered lines end with the characters that follow the first n and say so?
LinesEnd(chars, n) ==
  \A k \in 1 .. Len(chars) :
    chars[k].eol <=> \E i \in 1 .. Len(unanswered) : unanswered[i] = n + k

\* The host counts, and had no line of its own unanswered when it heard of one of the
\* panel's.
CountsRight == counts /\ ~rx_misled

\* To such a host, and until it sees a reset, an answer says what it thinks: but for
\* the panel's answers, which it will pass over, the lines answered or about to be are
\* the oldest ones of its unanswered lines and have been taken whole, the others have
\* not, and each ends where it ended it.
AnswersTellLines ==
  CountsRight /\ streaming =>
    /\ heard <= Taken /\ Owed - rx_extra <= Len(unanswered)
    /\ \A i \in 1 .. Len(unanswered) :
         /\ (i <= Owed - rx_extra) <=> (unanswered[i] <= Taken)
         /\ heard < unanswered[i] /\ unanswered[i] <= sent
         /\ \A j \in 1 .. Len(unanswered) : i < j => unanswered[i] < unanswered[j]
    /\ LinesEnd(RxQueue, Taken) /\ LinesEnd(wire, sent - Len(wire))

\* Such a host, which counts characters against the announced RX_BUFFER_SIZE, never
\* loses one: what it has sent and not had answered always fits the ring, and so does
\* what is under way when it sees a reset.
NothingDropped ==
  CountsRight => ~dropped /\ Len(wire) + RxCount <= RX_BUFFER_SIZE

\* And a host that was misled is ahead by no more than that.  Until a character is
\* dropped or it sees a reset, it hears of every line and every panel line once: each
\* answer of the panel that it took for its own leaves it one answer more at the end,
\* and lets it send one line too early, so that it is right again whenever it has
\* paused until no answer came any more.
LinesIn(chars) == Cardinality({k \in 1 .. Len(chars) : chars[k].eol})
LongestLine == CHOOSE n \in LineLengths : \A k \in LineLengths : k <= n

AnswersAddUp ==
  streaming /\ ~dropped =>
    /\ Owed + LinesIn(RxQueue) + LinesIn(wire) = Len(unanswered) + rx_extra
    /\ counts => Len(wire) + RxCount <= RX_BUFFER_SIZE + rx_extra * LongestLine
=============================================================================
