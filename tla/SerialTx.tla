------------------------------ MODULE SerialTx ------------------------------
(***************************************************************************)
(* The transmit ring of serial.c: serial_write() in the main program fills *)
(* it, the Data Register Empty interrupt empties it and switches itself    *)
(* off when nothing is left.  The steps of serial_write() are the ones the *)
(* interrupt can tell apart, in program order.                             *)
(*                                                                         *)
(* LateInterrupts says how the UART and the processor keep pace.  FALSE:   *)
(* the line is so slow that at most one byte leaves between the store of   *)
(* the head and the write to UCSRXB.  TRUE: the main program may be held   *)
(* up there by other interrupts for as long as two bytes take.             *)
(***************************************************************************)
EXTENDS Integers, Sequences

CONSTANTS TX_BUFFER_SIZE,   \* bytes the ring can hold
          MaxBytes,         \* bound on the bytes written
          TxMaxResets,        \* bound on the tx_resets
          LateInterrupts    \* may two bytes leave inside serial_write()?

TX_RING_BUFFER == TX_BUFFER_SIZE + 1

ASSUME TxAssumption ==
  /\ TX_BUFFER_SIZE \in Nat \ {0}
  /\ MaxBytes \in Nat /\ TxMaxResets \in Nat
  /\ LateInterrupts \in BOOLEAN

VARIABLES
  serial_tx_buffer, serial_tx_buffer_head, serial_tx_buffer_tail,
  udrie,        \* UDRIEX: is the Data Register Empty interrupt enabled?
  tx_pc,        \* serial_write(): "main" (outside), "wait", "store", "advance", "enable"
  written,      \* bytes handed to serial_write() so far; the last one is the byte in it
  tx_reset,     \* EXEC_RESET
  tx_resets,
  UDRX,         \* the byte put on the line last
  in_window     \* bytes that left since the head was stored

txVars == <<serial_tx_buffer, serial_tx_buffer_head, serial_tx_buffer_tail,
            udrie, tx_pc, written, tx_reset, tx_resets, UDRX, in_window>>

TxSlots == 0 .. TX_RING_BUFFER - 1

tx_next_no_wrap(i) == i + 1
tx_next(i) == IF i + 1 = TX_RING_BUFFER THEN 0 ELSE i + 1

TxInit ==
  /\ serial_tx_buffer = [i \in TxSlots |-> 0]
  /\ serial_tx_buffer_head = 0 /\ serial_tx_buffer_tail = 0
  /\ udrie = FALSE
  /\ tx_pc = "main" /\ written = 0
  /\ tx_reset = FALSE /\ tx_resets = 0
  /\ UDRX = 0 /\ in_window = 0

-----------------------------------------------------------------------------
(* serial_write(), called by the main program.                             *)

TxCall ==
  /\ tx_pc = "main" /\ written < MaxBytes
  /\ tx_pc' = "wait"
  /\ written' = written + 1
  /\ UNCHANGED <<serial_tx_buffer, serial_tx_buffer_head, serial_tx_buffer_tail,
                 udrie, tx_reset, tx_resets, UDRX, in_window>>

WaitForSpaceNever ==
  /\ tx_pc = "wait"
  /\ tx_pc' = "store"
  /\ UNCHANGED <<serial_tx_buffer, serial_tx_buffer_head, serial_tx_buffer_tail,
                 udrie, written, tx_reset, tx_resets, UDRX, in_window>>

\* Wait for space; a pending reset makes the call give the byte up.
WaitForSpace ==
  /\ tx_pc = "wait"
  /\ IF tx_next(serial_tx_buffer_head) # serial_tx_buffer_tail
     THEN tx_pc' = "store"
     ELSE tx_reset /\ tx_pc' = "main"
  /\ UNCHANGED <<serial_tx_buffer, serial_tx_buffer_head, serial_tx_buffer_tail,
                 udrie, written, tx_reset, tx_resets, UDRX, in_window>>

StoreByte ==
  /\ tx_pc = "store"
  /\ serial_tx_buffer' = [serial_tx_buffer EXCEPT ![serial_tx_buffer_head] = written]
  /\ tx_pc' = "advance"
  /\ UNCHANGED <<serial_tx_buffer_head, serial_tx_buffer_tail,
                 udrie, written, tx_reset, tx_resets, UDRX, in_window>>

AdvanceHead ==
  /\ tx_pc = "advance"
  /\ serial_tx_buffer_head' = tx_next(serial_tx_buffer_head)
  /\ tx_pc' = "enable"
  /\ in_window' = 0
  /\ UNCHANGED <<serial_tx_buffer, serial_tx_buffer_tail,
                 udrie, written, tx_reset, tx_resets, UDRX>>

EnableUdrieForgotten ==
  /\ tx_pc = "enable"
  /\ UNCHANGED udrie
  /\ tx_pc' = "main"
  /\ UNCHANGED <<serial_tx_buffer, serial_tx_buffer_head, serial_tx_buffer_tail,
                 written, tx_reset, tx_resets, UDRX, in_window>>

EnableUdrie ==
  /\ tx_pc = "enable"
  /\ udrie' = TRUE
  /\ tx_pc' = "main"
  /\ UNCHANGED <<serial_tx_buffer, serial_tx_buffer_head, serial_tx_buffer_tail,
                 written, tx_reset, tx_resets, UDRX, in_window>>

-----------------------------------------------------------------------------
UdreKeepsOn ==
  /\ udrie
  /\ LateInterrupts \/ tx_pc # "enable" \/ in_window = 0
  /\ UDRX' = serial_tx_buffer[serial_tx_buffer_tail]
  /\ serial_tx_buffer_tail' = tx_next(serial_tx_buffer_tail)
  /\ in_window' = IF tx_pc = "enable" THEN in_window + 1 ELSE in_window
  /\ UNCHANGED udrie
  /\ UNCHANGED <<serial_tx_buffer, serial_tx_buffer_head, tx_pc, written, tx_reset, tx_resets>>

\* The Data Register Empty interrupt.
Udre ==
  /\ udrie
  /\ LateInterrupts \/ tx_pc # "enable" \/ in_window = 0
  /\ UDRX' = serial_tx_buffer[serial_tx_buffer_tail]
  /\ serial_tx_buffer_tail' = tx_next(serial_tx_buffer_tail)
  /\ udrie' = (serial_tx_buffer_tail' # serial_tx_buffer_head)
  /\ in_window' = IF tx_pc = "enable" THEN in_window + 1 ELSE in_window
  /\ UNCHANGED <<serial_tx_buffer, serial_tx_buffer_head, tx_pc, written, tx_reset, tx_resets>>

\* A reset is flagged by the receive interrupt and cleared by main(); neither
\* touches this ring.
TxSetReset ==
  /\ ~tx_reset /\ tx_resets < TxMaxResets
  /\ tx_reset' = TRUE /\ tx_resets' = tx_resets + 1
  /\ UNCHANGED <<serial_tx_buffer, serial_tx_buffer_head, serial_tx_buffer_tail,
                 udrie, tx_pc, written, UDRX, in_window>>

TxClearReset ==
  /\ tx_reset /\ tx_pc = "main"
  /\ tx_reset' = FALSE
  /\ UNCHANGED <<serial_tx_buffer, serial_tx_buffer_head, serial_tx_buffer_tail,
                 udrie, tx_pc, written, tx_resets, UDRX, in_window>>

SerialWrite == WaitForSpace \/ StoreByte \/ AdvanceHead \/ EnableUdrie

TxNext == TxCall \/ SerialWrite \/ Udre \/ TxSetReset \/ TxClearReset

TxSpec == TxInit /\ [][TxNext]_txVars

\* Fairness: serial_write() runs on unless it waits; the UART empties.
TxFairSpec == TxSpec /\ WF_txVars(SerialWrite) /\ WF_txVars(Udre)

-----------------------------------------------------------------------------
(* Properties.                                                             *)

TxTypeOK ==
  /\ serial_tx_buffer \in [TxSlots -> 0 .. MaxBytes]
  /\ serial_tx_buffer_head \in TxSlots /\ serial_tx_buffer_tail \in TxSlots
  /\ udrie \in BOOLEAN /\ tx_reset \in BOOLEAN
  /\ tx_pc \in {"main", "wait", "store", "advance", "enable"}
  /\ written \in 0 .. MaxBytes /\ tx_resets \in 0 .. TxMaxResets
  /\ UDRX \in 0 .. MaxBytes /\ in_window \in 0 .. MaxBytes + TX_RING_BUFFER

\* The interrupt is on exactly while there is something to send: "Turn off Data
\* Register Empty Interrupt to stop tx-streaming if this concludes the transfer".
\* Left on over an empty ring it would send the whole ring's old contents again.
StreamsOnlyQueued ==
  tx_pc # "enable" => (udrie <=> serial_tx_buffer_head # serial_tx_buffer_tail)

TxCount == (serial_tx_buffer_head - serial_tx_buffer_tail) % TX_RING_BUFFER

TxQueue == [k \in 1 .. TxCount |->
            serial_tx_buffer[(serial_tx_buffer_tail + k - 1) % TX_RING_BUFFER]]

TxFifo == INSTANCE ByteFifo WITH
          Byte <- 1 .. MaxBytes, Capacity <- TX_BUFFER_SIZE, queue <- TxQueue, last <- UDRX

\* The transmit ring is a bounded first-in first-out queue: what is written goes
\* out once and in order, wherever the interrupt falls inside serial_write().
TxImplementsFifo == TxFifo!Spec

\* Liveness: a call of serial_write() that finds the ring full gets its space (or
\* a reset) and returns: the interrupt is never left off with bytes to send.
WriteReturns == tx_pc = "wait" ~> tx_pc = "main"
=============================================================================
