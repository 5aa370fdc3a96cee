------------------------------ MODULE Stepping ------------------------------
(***************************************************************************)
(* The steps of a move: how the stepper driver interrupt (stepper.c) turns *)
(* segments into pulses with Bresenham's algorithm, at up to 2^3 times the *)
(* resolution (AMASS), and where the pulses, the directions and the        *)
(* machine's position (sys_position) are set.                              *)
(*                                                                         *)
(* A segment refers to its block itself: that a slot of st_block_buffer is *)
(* not reused while segments refer to it is StepPipeline's business, and   *)
(* so are holds, which only make the main program stop preparing for a     *)
(* while.  The speed of a segment is left out: it may have any number of   *)
(* events and any level.  n_step stays far below 2^16 (a level is used for *)
(* slow segments only) and step_event_count below 2^29.  In a homing setup *)
(* the moves are those of one pass.                                        *)
(*                                                                         *)
(* The interrupt is one step: interrupts are enabled in its middle, after  *)
(* the pins are set, but what mc_reset() does there cannot be told from    *)
(* what it does after it.                                                  *)
(*                                                                         *)
(* A definition just before the one it resembles, used nowhere, is a       *)
(* mistake that one of the properties catches: README, "Mutants".          *)
(***************************************************************************)
EXTENDS Integers, Sequences

CONSTANTS
  SpAxes,        \* the axes
  SpMoves,       \* steps of a move for each axis, negative for backwards
  SpSetups,      \* [step, dir: inverted pins, locks: disable drivers at rest?, homing]
  SpSegments,    \* segments the ring holds
  SpMaxMoves,    \* bound on the moves
  SpMaxKills     \* bound on the resets

Magnitude(n) == IF n < 0 THEN -n ELSE n

\* An axis makes most of the steps: there is one, and finitely many.
ASSUME SteppingAssumption ==
  /\ SpMoves \subseteq [SpAxes -> Int]
  /\ \A move \in SpMoves : \E a \in SpAxes : \A b \in SpAxes :
       Magnitude(move[b]) <= Magnitude(move[a])
  /\ SpSetups \subseteq [step : SUBSET SpAxes, dir : SUBSET SpAxes, locks : BOOLEAN,
                         homing : BOOLEAN]
  /\ SpSegments \in Nat \ {0} /\ SpMaxMoves \in Nat /\ SpMaxKills \in Nat

VARIABLES
  sp_setup,
  sp_block,      \* pl_block with its st_block_buffer entry, or NoMove
  sp_remaining,  \* prep.steps_remaining, in events
  sp_segments,   \* the segment ring, the first one being executed
  sp_st,         \* the interrupt's data; count = 0 stands for exec_segment == NULL
  sp_timer,      \* OCIE1A
  sp_enabled,    \* are the drivers enabled?
  sp_pins,       \* levels of the step pins: the axes with a high one
  sp_lock,       \* sys.homing_axis_lock: the axes that may step
  sp_position,   \* sys_position
  sp_target,     \* pl.position
  sp_killed,     \* mc_reset() has stopped the steppers, main() has not restarted yet
  \* What the properties compare with.
  sp_motor,      \* where the pulses have driven the motors
  sp_moves, sp_kills   \* bounds

spSetup == <<sp_setup, sp_lock>>
spPrep == <<sp_block, sp_remaining, sp_target, sp_moves>>
spPins == <<sp_pins, sp_motor>>
spIsr == <<sp_st, sp_position>>
spDriver == <<sp_timer, sp_enabled>>
spVars == <<spSetup, spPrep, sp_segments, spIsr, spDriver, spPins, sp_killed, sp_kills>>

MAX_AMASS_LEVEL == 3
\* 1 << level
Factor(level) == CASE level = 0 -> 1 [] level = 1 -> 2 [] level = 2 -> 4 [] OTHER -> 8

-----------------------------------------------------------------------------
(* Blocks and segments: st_prep_buffer().                                  *)

\* step_event_count: the steps of the axis that makes most.
Events(move) ==
  CHOOSE n \in {Magnitude(move[a]) : a \in SpAxes} : \A a \in SpAxes : Magnitude(move[a]) <= n
Backwards(move) == {a \in SpAxes : move[a] < 0}
Flipped(pins, inverted) == (pins \ inverted) \cup (inverted \ pins)

NoMove == [id |-> 0]
\* start is where the planner was: pl.position before the move.
BlockOf(move) ==
  [id |-> sp_moves + 1, start |-> sp_target, move |-> move,
   steps |-> [a \in SpAxes |-> Magnitude(move[a]) * Factor(MAX_AMASS_LEVEL)],
   event_count |-> Events(move) * Factor(MAX_AMASS_LEVEL)]

\* plan_buffer_line() returns PLAN_EMPTY_BLOCK for a move of no steps.
LoadMove(move) ==
  /\ sp_block = NoMove /\ ~sp_killed /\ sp_moves < SpMaxMoves
  /\ \E a \in SpAxes : move[a] # 0
  /\ sp_block' = BlockOf(move)
  /\ sp_remaining' = Events(move)
  /\ sp_target' = [a \in SpAxes |-> sp_target[a] + move[a]]
  /\ sp_moves' = sp_moves + 1
  /\ UNCHANGED <<sp_setup, sp_segments, spIsr, spDriver, spPins, sp_lock, sp_killed, sp_kills>>

\* n_step <<= amass_level
NStepOfEvents(segment) == segment.from - segment.to
NStep(segment) == (segment.from - segment.to) * Factor(segment.level)

\* A segment up to `to` events from the end of the block.
PrepareSegment(to, level) ==
  /\ sp_block # NoMove /\ ~sp_killed /\ Len(sp_segments) < SpSegments
  /\ to < sp_remaining
  /\ sp_segments' = Append(sp_segments, [block |-> sp_block, from |-> sp_remaining, to |-> to,
                                         level |-> level])
  /\ sp_remaining' = to
  /\ sp_block' = IF to = 0 THEN NoMove ELSE sp_block
  /\ UNCHANGED <<sp_setup, sp_target, sp_moves, spIsr, spDriver, spPins, sp_lock, sp_killed,
                 sp_kills>>

-----------------------------------------------------------------------------
(* st_wake_up(), st_go_idle() and st_reset().                              *)

\* Step pins at rest, "to ensure first ISR call does not step".
NoPulse == sp_setup.step

OutbitsKept == sp_st.outbits
OutbitsAtWakeUp == NoPulse

\* At a cycle start, after st_prep_buffer().
WakeUp ==
  /\ ~sp_timer /\ ~sp_killed /\ sp_segments # <<>>
  /\ sp_timer' = TRUE /\ sp_enabled' = TRUE
  /\ sp_st' = [sp_st EXCEPT !.outbits = OutbitsAtWakeUp]
  /\ UNCHANGED <<sp_setup, spPrep, sp_segments, sp_position, spPins, sp_lock, sp_killed, sp_kills>>

\* locks: settings.stepper_idle_lock_time # 0xff.
GoIdle(alarm, homing) ==
  /\ sp_timer' = FALSE
  /\ sp_enabled' = ~((sp_setup.locks \/ alarm) /\ ~homing)

\* mc_reset(), motion_control.c, while something moves: "Force kill steppers.  Position has likely
\* been lost."
Kill ==
  /\ sp_timer /\ sp_kills < SpMaxKills
  /\ GoIdle(TRUE, sp_setup.homing)
  /\ sp_killed' = TRUE /\ sp_kills' = sp_kills + 1
  /\ UNCHANGED <<sp_setup, spPrep, sp_segments, spIsr, spPins, sp_lock>>

Idle == [count |-> 0, block |-> NoMove, counter |-> [a \in SpAxes |-> 0],
         outbits |-> {}, dirs |-> {}]

\* main(): st_reset(), plan_reset() and plan_sync_position().  The operator finds
\* the position again, which is no part of the program.
Restart ==
  /\ sp_killed /\ sp_killed' = FALSE
  /\ GoIdle(FALSE, FALSE)
  /\ sp_st' = [Idle EXCEPT !.dirs = sp_setup.dir]
  /\ sp_segments' = <<>> /\ sp_block' = NoMove /\ sp_remaining' = 0
  /\ sp_pins' = NoPulse
  /\ sp_target' = sp_position /\ sp_motor' = sp_position
  /\ UNCHANGED <<sp_setup, sp_moves, sp_position, sp_lock, sp_kills>>

-----------------------------------------------------------------------------
(* The stepper driver interrupt.                                           *)

\* How a pulse with these directions moves an axis.
Way(backwards, a) == IF a \in backwards THEN -1 ELSE 1

\* Its first half sets the pins to what the one before has computed.
SetPins ==
  /\ sp_pins' = sp_st.outbits
  /\ sp_motor' = [a \in SpAxes |->
       IF a \in Flipped(sp_st.outbits, sp_setup.step)
       THEN sp_motor[a] + Way(Flipped(sp_st.dirs, sp_setup.dir), a) ELSE sp_motor[a]]

\* The counters start in the middle with a new block, and are kept over segments.
CountersKept(block) == sp_st.counter
Counters(block) ==
  IF sp_st.count = 0 /\ block.id # sp_st.block.id
  THEN [a \in SpAxes |-> block.event_count \div 2] ELSE sp_st.counter

Added(segment) ==
  [a \in SpAxes |-> Counters(segment.block)[a]
                      + (segment.block.steps[a] \div Factor(segment.level))]

Stepping(segment) == {a \in SpAxes : Added(segment)[a] > segment.block.event_count}

Tick ==
  /\ sp_timer /\ sp_pins = NoPulse    \* the pulse before has ended: PulseEnds
  /\ sp_segments # <<>>
  /\ SetPins
  /\ LET segment == Head(sp_segments)
         block == segment.block
         stepping == Stepping(segment)
         count == (IF sp_st.count = 0 THEN NStep(segment) ELSE sp_st.count) - 1
     IN /\ sp_st' =
             [count |-> count, block |-> block,
              counter |-> [a \in SpAxes |-> Added(segment)[a]
                             - IF a \in stepping THEN block.event_count ELSE 0],
              outbits |-> Flipped(IF sp_setup.homing THEN stepping \cap sp_lock ELSE stepping,
                                  sp_setup.step),
              dirs |-> Flipped(Backwards(block.move), sp_setup.dir)]
        /\ sp_position' = [a \in SpAxes |-> sp_position[a]
                             + IF a \in stepping THEN Way(Backwards(block.move), a) ELSE 0]
        /\ sp_segments' = IF count = 0 THEN Tail(sp_segments) ELSE sp_segments
  /\ UNCHANGED <<sp_setup, spPrep, spDriver, sp_lock, sp_killed, sp_kills>>

TickWithoutSegment ==
  /\ sp_timer /\ sp_pins = NoPulse
  /\ sp_segments = <<>>
  /\ SetPins
  /\ GoIdle(FALSE, sp_setup.homing)
  /\ UNCHANGED <<sp_setup, spPrep, sp_segments, spIsr, sp_lock, sp_killed, sp_kills>>

\* The stepper port reset interrupt (TIMER0_OVF): "This should always trigger
\* before the next Timer1 COMPA interrupt and independently finish".
PulseEnds ==
  /\ sp_pins # NoPulse /\ sp_pins' = NoPulse
  /\ UNCHANGED <<sp_setup, spPrep, sp_segments, spIsr, spDriver, sp_motor, sp_lock, sp_killed,
                 sp_kills>>

\* limits_go_home() locks an axis whose switch has closed.
LockAxis(a) ==
  /\ sp_setup.homing /\ a \in sp_lock /\ sp_lock' = sp_lock \ {a}
  /\ UNCHANGED <<sp_setup, spPrep, sp_segments, spIsr, spDriver, spPins, sp_killed, sp_kills>>

-----------------------------------------------------------------------------
SpInit ==
  /\ sp_setup \in SpSetups
  /\ sp_block = NoMove /\ sp_remaining = 0 /\ sp_moves = 0
  /\ sp_segments = <<>>
  /\ sp_st = [Idle EXCEPT !.dirs = sp_setup.dir]
  /\ sp_timer = FALSE /\ sp_enabled = ~sp_setup.locks
  /\ sp_pins = NoPulse /\ sp_lock = SpAxes
  /\ sp_position = [a \in SpAxes |-> 0]
  /\ sp_target = sp_position /\ sp_motor = sp_position
  /\ sp_killed = FALSE /\ sp_kills = 0

SpNext ==
  \/ \E move \in SpMoves : LoadMove(move)
  \/ \E to \in 0..sp_remaining, level \in 0..MAX_AMASS_LEVEL : PrepareSegment(to, level)
  \/ WakeUp
  \/ Kill
  \/ Restart
  \/ Tick
  \/ TickWithoutSegment
  \/ PulseEnds
  \/ \E a \in SpAxes : LockAxis(a)

SpSpec == SpInit /\ [][SpNext]_spVars

-----------------------------------------------------------------------------
(* The inductive invariant (SteppingProofs).                               *)

Blocks == {b \in [id : Nat \ {0}, start : [SpAxes -> Int], move : SpMoves,
                  steps : [SpAxes -> Nat], event_count : Nat] :
             /\ Events(b.move) > 0
             /\ b.event_count = Events(b.move) * Factor(MAX_AMASS_LEVEL)
             /\ b.steps = [a \in SpAxes |-> Magnitude(b.move[a]) * Factor(MAX_AMASS_LEVEL)]}
Segments == [block : Blocks, from : Nat, to : Nat, level : 0..MAX_AMASS_LEVEL]

SpTypeOK ==
  /\ sp_setup \in SpSetups /\ sp_lock \subseteq SpAxes
  /\ sp_block \in Blocks \cup {NoMove} /\ sp_remaining \in Nat /\ sp_moves \in Nat
  /\ sp_segments \in Seq(Segments)
  /\ sp_st \in [count : Nat, block : Blocks \cup {NoMove}, counter : [SpAxes -> Int],
                outbits : SUBSET SpAxes, dirs : SUBSET SpAxes]
  /\ sp_timer \in BOOLEAN /\ sp_enabled \in BOOLEAN /\ sp_killed \in BOOLEAN
  /\ sp_pins \subseteq SpAxes /\ sp_kills \in Nat
  /\ sp_position \in [SpAxes -> Int] /\ sp_target \in [SpAxes -> Int]
  /\ sp_motor \in [SpAxes -> Int]

EndOfMove(block) == [a \in SpAxes |-> block.start[a] + block.move[a]]

\* What follows when a block has `left` events left: its own rest, or the next block from
\* its beginning.
Continues(block, left, next, from) ==
  \/ next = block /\ from = left
  \/ left = 0 /\ next.id > block.id /\ next.start = EndOfMove(block) /\ from = Events(next.move)

\* Nothing is prepared twice or left out between two segments, or between the last one
\* and the block being prepared.
QueueInv ==
  /\ \A i \in 1..Len(sp_segments) :
       LET s == sp_segments[i]
       IN s.to < s.from /\ s.from <= Events(s.block.move) /\ s.block.id <= sp_moves
  /\ \A i \in 1..(Len(sp_segments) - 1) :
       Continues(sp_segments[i].block, sp_segments[i].to,
                 sp_segments[i + 1].block, sp_segments[i + 1].from)

PreparedInv ==
  /\ sp_block # NoMove =>
       /\ sp_remaining > 0 /\ sp_remaining <= Events(sp_block.move)
       /\ sp_block.id <= sp_moves /\ sp_target = EndOfMove(sp_block)
  /\ sp_segments # <<>> =>
       LET last == sp_segments[Len(sp_segments)]
       IN IF sp_block = NoMove THEN last.to = 0 /\ sp_target = EndOfMove(last.block)
          ELSE Continues(last.block, last.to, sp_block, sp_remaining)

\* Steps an axis has made of the block being executed.
Made(a) ==
  IF a \in Backwards(sp_st.block.move)
  THEN sp_st.block.start[a] - sp_position[a] ELSE sp_position[a] - sp_st.block.start[a]

\* With `left` eighths of events left, the counter of an axis holds what of its steps
\* the events so far were worth, half an event ahead, and was not made yet.
Ledger(left) ==
  \A a \in SpAxes :
    LET block == sp_st.block
        steps == Magnitude(block.move[a])
    IN /\ sp_st.counter[a] \in 0..block.event_count
       /\ sp_st.counter[a] + Made(a) * block.event_count + steps * left
            = block.event_count \div 2 + steps * block.event_count

Finished == sp_st.block # NoMove => sp_position = EndOfMove(sp_st.block)

\* The interrupt comes to `from` events before the end of a block.
Reaches(block, from) ==
  IF block.id = sp_st.block.id THEN block = sp_st.block /\ Ledger(8 * from)
  ELSE Finished /\ from = Events(block.move) /\ sp_position = block.start

\* Eighths of an event that a tick is worth.
Eighths(level) == Factor(MAX_AMASS_LEVEL) \div Factor(level)

ExecutedInv ==
  /\ sp_st.block.id <= sp_moves
  /\ sp_st.count > 0 =>
       /\ sp_segments # <<>> /\ sp_st.block = sp_segments[1].block
       /\ Ledger(8 * sp_segments[1].to + sp_st.count * Eighths(sp_segments[1].level))
  /\ sp_st.count = 0 =>
       /\ sp_segments # <<>> => Reaches(sp_segments[1].block, sp_segments[1].from)
       /\ sp_segments = <<>> /\ sp_block # NoMove => Reaches(sp_block, sp_remaining)
       /\ sp_segments = <<>> /\ sp_block = NoMove => Finished /\ sp_position = sp_target

\* What the interrupt has made of the moves, and what it has yet to make.
MovesInv == SpTypeOK /\ QueueInv /\ PreparedInv /\ ExecutedInv

-----------------------------------------------------------------------------
(* Properties.                                                             *)

\* Whatever the segments and their levels, a block whose last segment is over has
\* moved every axis by exactly its steps: the machine's position is where the
\* block was to end (the AMASS comment at stepper.c:385, "AMASS retains the
\* Bresenham algorithm exactness").
BlockIsOver ==
  /\ sp_st.block # NoMove /\ sp_st.count = 0
  /\ sp_block.id # sp_st.block.id
  /\ sp_segments = <<>> \/ sp_segments[1].block.id # sp_st.block.id
StepsExact ==
  BlockIsOver =>
    \A a \in SpAxes : sp_position[a] = sp_st.block.start[a] + sp_st.block.move[a]

\* At rest with nothing left, the machine is where the planner thinks it is.
RestsOnTarget ==
  ~sp_timer /\ ~sp_killed /\ sp_block = NoMove /\ sp_segments = <<>> => sp_position = sp_target

\* Every step that is counted is one pulse, with the direction it was counted
\* with, one interrupt later; none is left at rest, and a kill loses one at most.
\* A locked axis is counted and gets no pulses.
PulsesAsCounted ==
  \A a \in sp_lock :
    LET due == IF sp_timer /\ a \in Flipped(sp_st.outbits, sp_setup.step)
               THEN Way(Flipped(sp_st.dirs, sp_setup.dir), a) ELSE 0
    IN IF sp_killed THEN sp_position[a] - sp_motor[a] \in -1..1
       ELSE sp_position[a] = sp_motor[a] + due

\* No pulses without drivers.
PulsesNeedDrivers == sp_timer => sp_enabled

\* What the interrupt makes of a move, whatever its segments and their levels, and
\* the inductive invariant it follows from.
KilledIsOff == sp_killed => ~sp_timer
PulsesInv == PulsesAsCounted /\ PulsesNeedDrivers /\ KilledIsOff
SpInv == MovesInv /\ StepsExact /\ RestsOnTarget /\ PulsesInv
=============================================================================
