-------------------------------- MODULE Clock --------------------------------
(***************************************************************************)
(* The tick counter of timekeeper.c: the 16 bit hardware counter TCNT5,    *)
(* its overflow flag TOV5, and the 32 bit overflow_offset that the overflow*)
(* interrupt keeps.  The two widths are scaled down: PERIOD stands for     *)
(* 2^16, and overflow_offset wraps after PERIODS overflows.                *)
(***************************************************************************)
EXTENDS Integers

CONSTANTS PERIOD, PERIODS

ASSUME ClockAssumption == PERIOD \in Nat \ {0, 1} /\ PERIODS \in Nat \ {0}

VARIABLES
  TCNT5,             \* the counter
  TOV5,              \* has it overflowed since the overflow interrupt last ran?
  overflow_offset,
  ticks              \* get_timer_ticks()'s first reading

clockVars == <<TCNT5, TOV5, overflow_offset, ticks>>

WORD == PERIOD * PERIODS   \* 2^32

ClockInit == TCNT5 = 0 /\ TOV5 = FALSE /\ overflow_offset = 0 /\ ticks = 0

\* The hardware counts.  Interrupts are never off for a whole period of 262 ms, so
\* the overflow interrupt comes before the next overflow.
Count ==
  /\ ~(TOV5 /\ TCNT5 = PERIOD - 1)
  /\ TCNT5' = (TCNT5 + 1) % PERIOD
  /\ TOV5' = (TOV5 \/ TCNT5 = PERIOD - 1)
  /\ UNCHANGED <<overflow_offset, ticks>>

\* ISR(TIMER5_OVF_vect).
Overflow ==
  /\ TOV5
  /\ TOV5' = FALSE
  /\ overflow_offset' = (overflow_offset + PERIOD) % WORD
  /\ UNCHANGED <<TCNT5, ticks>>

\* timekeeper_reset().  1 << (TOV5 | OCF5A | OCF5B) is the bit of another flag: if
\* the compiler makes the write to TIFR5 a single sbi, a pending overflow stays
\* pending; if it reads and writes back the register, every flag is cleared.
TimekeeperReset ==
  /\ TCNT5' = 0 /\ overflow_offset' = 0
  /\ TOV5' \in {FALSE, TOV5}
  /\ UNCHANGED ticks

\* get_timer_ticks(), with interrupts off while the counter runs on: the first
\* reading, and the value after the look at the overflow flag.
FirstReading == (TCNT5 + overflow_offset) % WORD
TicksUnchecked == ticks
TicksRead == IF TOV5 THEN (TCNT5 + overflow_offset + PERIOD) % WORD ELSE ticks

\* get_timer_ticks() where it does not matter at which moment of it a tick falls.
Ticks == IF TOV5 THEN (TCNT5 + overflow_offset + PERIOD) % WORD ELSE FirstReading

ClockTypeOK ==
  /\ TCNT5 \in 0 .. PERIOD - 1 /\ TOV5 \in BOOLEAN
  /\ overflow_offset \in 0 .. WORD - 1 /\ ticks \in 0 .. WORD - 1
=============================================================================
