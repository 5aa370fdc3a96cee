------------------------------ MODULE Threading ------------------------------
(***************************************************************************)
(* Threading (G33): spindle pulses become flags, protocol_exec_rt_system() *)
(* measures the time between index pulses and counts, G33 waits for the    *)
(* spindle before it plans its move, and every synchronisation pulse moves *)
(* the target of that move (threading.c, and the parts of timekeeper.c,    *)
(* protocol.c, planner.c, gcode.c, system.c and main.c that take part).    *)
(*                                                                         *)
(* pc is the place in protocol_exec_rt_system(), task what the main program*)
(* is doing around it, and line the line it executes.  Interrupts come     *)
(* between any two steps, except inside get_timer_ticks().  The input pins *)
(* are free: a pulse may be over, or be another one, whenever they are     *)
(* looked at again.  Distances are counted in threading_mm_per_-           *)
(* synchronization_pulse, speeds are left out.                             *)
(*                                                                         *)
(* A definition just before the one it resembles, used nowhere, is a       *)
(* mistake that one of the properties catches: README, "Mutants".          *)
(***************************************************************************)
EXTENDS Clock, Sequences

CONSTANTS
  SPINDLE_INDEX_PULSES_BEFORE_START_G33,
  IndexTimeout,     \* 1500000 * SPINDLE_INDEX_PULSES_BEFORE_START_G33 ticks, scaled
  SyncTimeout,      \* 3000000 ticks, scaled
  Millimeters,      \* length of a thread, in pulses
  MaxQueue,         \* blocks the planner ring holds
  MaxLines,         \* bound on the lines sent
  MaxPulses,        \* bound on the synchronisation pulses of a thread
  MaxResets         \* bound on the resets

ASSUME ThreadingAssumption ==
  /\ SPINDLE_INDEX_PULSES_BEFORE_START_G33 \in Nat \ {0}
  /\ IndexTimeout \in Nat /\ SyncTimeout \in Nat
  /\ Millimeters \in Nat \ {0} /\ MaxQueue \in Nat \ {0}
  /\ MaxLines \in Nat /\ MaxPulses \in Nat \ {0} /\ MaxResets \in Nat

VARIABLES
  sync_pulses,                      \* settings.sync_pulses_per_revolution, 1 or more (2)
  threading_exec_flags,
  threading_index_pulse_count,      \* up to the number that is waited for
  threading_sync_pulse_count,       \* up to the one that is waited for
  threading_index_Last_timer_tics,
  threading_millimeters_target,
  blocks,                           \* planner ring: "thread" or "line"
  cycle,                            \* is sys.state CYCLE, or about to be?
  pc, task, line, source,
  exec_reset, abort,                \* EXEC_RESET, sys.abort
  \* What the properties compare with.
  since_index,                      \* ticks since the last measured index pulse, or NONE
  turns,                            \* index pulses that arrived since threading_init()
  pulses,                           \* synchronisation pulses flagged since the thread was planned
  lines, resets                     \* bounds

NONE == -1   \* no index pulse has been measured since the clock was reset

countVars == <<threading_index_pulse_count, threading_sync_pulse_count>>
motionVars == <<blocks, cycle>>
mainVars == <<pc, task, line, source>>
resetVars == <<exec_reset, abort, resets>>
vars == <<clockVars, sync_pulses, threading_exec_flags, countVars,
          threading_index_Last_timer_tics, threading_millimeters_target,
          motionVars, mainVars, resetVars, since_index, turns, pulses, lines>>

Init ==
  /\ ClockInit
  /\ sync_pulses \in {1, 2}
  /\ threading_exec_flags = {}
  /\ threading_index_pulse_count = 0 /\ threading_sync_pulse_count = 0
  /\ threading_index_Last_timer_tics = 0 /\ threading_millimeters_target = 0
  /\ blocks = <<>> /\ cycle = FALSE
  /\ pc = "main" /\ task = "loop" /\ line = "none" /\ source = "serial"
  /\ exec_reset = FALSE /\ abort = FALSE
  /\ since_index = NONE /\ turns = 0 /\ pulses = 0 /\ lines = 0 /\ resets = 0

-----------------------------------------------------------------------------
(* The clock and the interrupts.                                           *)

\* At most one tick falls between the two readings of get_timer_ticks().
Tick ==
  /\ pc = "process" => TCNT5 = ticks % PERIOD
  /\ Count
  /\ since_index' = IF since_index = NONE THEN NONE ELSE (since_index + 1) % WORD
  /\ UNCHANGED <<sync_pulses, threading_exec_flags, countVars,
                 threading_index_Last_timer_tics, threading_millimeters_target,
                 motionVars, mainVars, resetVars, turns, pulses, lines>>

\* get_timer_ticks() runs with interrupts off.
InterruptsOn == pc # "process"

OverflowInterrupt ==
  /\ InterruptsOn
  /\ Overflow
  /\ UNCHANGED <<sync_pulses, threading_exec_flags, countVars,
                 threading_index_Last_timer_tics, threading_millimeters_target,
                 motionVars, mainVars, resetVars, since_index, turns, pulses, lines>>

Threads == {i \in DOMAIN blocks : blocks[i] = "thread"}

\* INT0 and, with debouncing, the compare match after it: an index pulse.
IndexPulse ==
  /\ InterruptsOn
  /\ Threads # {} => pulses < MaxPulses
  /\ "INDEX" \notin threading_exec_flags
  /\ threading_exec_flags' = threading_exec_flags \cup {"INDEX"}
  /\ turns' = IF turns < SPINDLE_INDEX_PULSES_BEFORE_START_G33 THEN turns + 1 ELSE turns
  /\ UNCHANGED <<clockVars, sync_pulses, countVars,
                 threading_index_Last_timer_tics, threading_millimeters_target,
                 motionVars, mainVars, resetVars, since_index, pulses, lines>>

\* What a pulse flagged while a thread is in the planner adds to pulses.
Flagged == pulses' = IF Threads # {} THEN pulses + 1 ELSE pulses

\* INT1 and, with debouncing, the compare match after it.
SyncPulse ==
  /\ InterruptsOn
  /\ sync_pulses > 1
  /\ Threads # {} => pulses < MaxPulses
  /\ "SYNC" \notin threading_exec_flags
  /\ threading_exec_flags' = threading_exec_flags \cup {"SYNC"}
  /\ Flagged
  /\ UNCHANGED <<clockVars, sync_pulses, countVars,
                 threading_index_Last_timer_tics, threading_millimeters_target,
                 motionVars, mainVars, resetVars, since_index, turns, lines>>

\* A reset character in the serial interrupt.
RxReset ==
  /\ InterruptsOn
  /\ ~exec_reset /\ ~abort /\ resets < MaxResets
  /\ exec_reset' = TRUE /\ resets' = resets + 1
  /\ UNCHANGED <<clockVars, sync_pulses, threading_exec_flags, countVars,
                 threading_index_Last_timer_tics, threading_millimeters_target,
                 motionVars, mainVars, abort, since_index, turns, pulses, lines>>

Interrupt == OverflowInterrupt \/ IndexPulse \/ SyncPulse \/ RxReset

-----------------------------------------------------------------------------
(* protocol_exec_rt_system(): the pulses, a reset, the segment buffer.     *)

spindle_synchronization_active == blocks # <<>> /\ Head(blocks) = "thread"

\* plan_compute_profile_nominal_speed() for the current block.
ComputeKeepsFlag ==
  IF spindle_synchronization_active /\ "SYNC" \in threading_exec_flags
  THEN /\ threading_millimeters_target' = threading_millimeters_target - 1
       /\ UNCHANGED threading_exec_flags
  ELSE UNCHANGED <<threading_exec_flags, threading_millimeters_target>>
Compute ==
  IF spindle_synchronization_active /\ "SYNC" \in threading_exec_flags
  THEN /\ threading_millimeters_target' = threading_millimeters_target - 1
       /\ threading_exec_flags' = threading_exec_flags \ {"SYNC"}
  ELSE UNCHANGED <<threading_exec_flags, threading_millimeters_target>>

At(p, next) ==
  /\ pc = p /\ pc' = next
  /\ UNCHANGED <<sync_pulses, task, line, source, resets, turns, lines>>

\* Is there an index pulse, and is the pin still active?
TestIndex ==
  \E next \in IF "INDEX" \in threading_exec_flags THEN {"ticks", "index_clear"} ELSE {"sync"} :
    /\ At("index", next)
    /\ UNCHANGED <<clockVars, threading_exec_flags, countVars,
                   threading_index_Last_timer_tics, threading_millimeters_target,
                   motionVars, exec_reset, abort, since_index, pulses>>

ReadTicks ==
  /\ At("ticks", "process")
  /\ ticks' = FirstReading
  /\ UNCHANGED <<TCNT5, TOV5, overflow_offset, threading_exec_flags, countVars,
                 threading_index_Last_timer_tics, threading_millimeters_target,
                 motionVars, exec_reset, abort, since_index, pulses>>

\* process_spindle_index_pulse(); threading_index_timer_tics_passed is what
\* threading_index_Last_timer_tics advances by.
ProcessIndexPulse ==
  /\ At("process", "index_clear")
  /\ threading_index_Last_timer_tics' = TicksRead
  /\ threading_index_pulse_count' =
       IF threading_index_pulse_count < SPINDLE_INDEX_PULSES_BEFORE_START_G33
       THEN threading_index_pulse_count + 1 ELSE threading_index_pulse_count
  /\ ticks' = 0
  /\ since_index' = IF TOV5 THEN 0 ELSE (TCNT5 - ticks) % PERIOD
  /\ UNCHANGED <<TCNT5, TOV5, overflow_offset, threading_exec_flags,
                 threading_sync_pulse_count, threading_millimeters_target,
                 motionVars, exec_reset, abort, pulses>>

\* With one pulse per revolution the index pulse is a synchronisation pulse too.
ClearIndex ==
  /\ At("index_clear", "sync")
  /\ IF sync_pulses = 1
     THEN /\ threading_exec_flags' = (threading_exec_flags \cup {"SYNC"}) \ {"INDEX"}
          /\ Flagged
     ELSE /\ threading_exec_flags' = threading_exec_flags \ {"INDEX"}
          /\ UNCHANGED pulses
  /\ UNCHANGED <<clockVars, countVars, threading_index_Last_timer_tics,
                 threading_millimeters_target, motionVars, exec_reset, abort, since_index>>

\* process_spindle_synchronization_pulse() and update_planner_feed_rate(), if the
\* pin is still active.
ProcessSyncPulse ==
  /\ At("sync", IF "SYNC" \in threading_exec_flags THEN "sync_clear" ELSE "flags")
  /\ \/ /\ "SYNC" \in threading_exec_flags
        /\ threading_sync_pulse_count' = 1
        /\ Compute
     \/ UNCHANGED <<threading_exec_flags, threading_sync_pulse_count,
                    threading_millimeters_target>>
  /\ UNCHANGED <<clockVars, threading_index_pulse_count, threading_index_Last_timer_tics,
                 motionVars, exec_reset, abort, since_index, pulses>>

ClearSync ==
  /\ At("sync_clear", "flags")
  /\ threading_exec_flags' = threading_exec_flags \ {"SYNC"}
  /\ UNCHANGED <<clockVars, countVars, threading_index_Last_timer_tics,
                 threading_millimeters_target, motionVars, exec_reset, abort,
                 since_index, pulses>>

\* A reset; or the cycle goes on, or is stopped.
ServeFlags ==
  /\ \/ exec_reset /\ abort' = TRUE /\ At("flags", "main") /\ UNCHANGED cycle
     \/ ~exec_reset /\ cycle /\ At("flags", "prep") /\ UNCHANGED <<cycle, abort>>
     \/ ~exec_reset /\ cycle' = FALSE /\ At("flags", "main") /\ UNCHANGED abort
  /\ UNCHANGED <<clockVars, threading_exec_flags, countVars,
                 threading_index_Last_timer_tics, threading_millimeters_target,
                 blocks, exec_reset, since_index, pulses>>

\* st_prep_buffer(): it computes the speed of the current block anew when it loads
\* it or has to, and may come to the end of it.
PrepBuffer ==
  /\ At("prep", "main")
  /\ Compute \/ UNCHANGED <<threading_exec_flags, threading_millimeters_target>>
  /\ blocks' \in IF blocks = <<>> THEN {blocks} ELSE {blocks, Tail(blocks)}
  /\ UNCHANGED <<clockVars, countVars, threading_index_Last_timer_tics, cycle,
                 exec_reset, abort, since_index, pulses>>

ExecRtSystem ==
  \/ TestIndex \/ ReadTicks \/ ProcessIndexPulse \/ ClearIndex
  \/ ProcessSyncPulse \/ ClearSync \/ ServeFlags \/ PrepBuffer

-----------------------------------------------------------------------------
(* The main program around it.                                             *)

Main(t) == pc = "main" /\ task = t

\* The next poll, and what the main program is doing when it returns.
PollIn(t) == pc' = "index" /\ task' = t
\* Go on with t without a poll.
GoOn(t) == pc' = pc /\ task' = t

\* protocol_auto_cycle_start(); the poll that follows serves it.
AutoCycleStart == cycle' = (cycle \/ blocks # <<>>)

\* gc_execute_line() of a line of kind k, up to its first poll.
ExecuteLine(k) ==
  IF k = "thread" THEN PollIn("synchronize") /\ AutoCycleStart
                  ELSE PollIn("mc_line") /\ UNCHANGED cycle

Executed == GoOn(IF source = "serial" THEN "serial" ELSE "poll")

\* Everything but the main program's place and the cycle.
UnchangedData ==
  UNCHANGED <<clockVars, sync_pulses, threading_exec_flags, threading_index_pulse_count,
              threading_index_Last_timer_tics, threading_millimeters_target,
              blocks, resetVars, since_index, turns, pulses>>

\* No line is read from the serial port while a thread is the current block.
Loop ==
  /\ Main("loop")
  /\ GoOn(IF spindle_synchronization_active THEN "other" ELSE "serial")
  /\ UnchangedData /\ UNCHANGED <<threading_sync_pulse_count, cycle, line, source, lines>>

ReadLine ==
  /\ Main("serial") /\ lines < MaxLines
  /\ line' \in {"thread", "line"} /\ source' = "serial" /\ lines' = lines + 1
  /\ PollIn("eol")
  /\ UnchangedData /\ UNCHANGED <<threading_sync_pulse_count, cycle>>

\* The end of line polls first; a reset that it serves is for main().
EndOfLine ==
  /\ Main("eol") /\ ~abort
  /\ ExecuteLine(line)
  /\ UnchangedData /\ UNCHANGED <<threading_sync_pulse_count, line, source, lines>>

NoMoreLines ==
  /\ Main("serial")
  /\ GoOn("other")
  /\ UnchangedData /\ UNCHANGED <<threading_sync_pulse_count, cycle, line, source, lines>>

\* A line of the user interface or of the SD card, or none.
OtherLine ==
  /\ Main("other")
  /\ \/ /\ lines < MaxLines /\ lines' = lines + 1
        /\ line' \in {"thread", "line"} /\ source' = "other"
        /\ ExecuteLine(line')
     \/ GoOn("poll") /\ UNCHANGED <<cycle, line, source, lines>>
  /\ UnchangedData /\ UNCHANGED threading_sync_pulse_count

Poll ==
  /\ Main("poll")
  /\ AutoCycleStart /\ PollIn("polled")
  /\ UnchangedData /\ UNCHANGED <<threading_sync_pulse_count, line, source, lines>>

Polled ==
  /\ Main("polled") /\ ~abort
  /\ GoOn("loop")
  /\ UnchangedData /\ UNCHANGED <<threading_sync_pulse_count, cycle, line, source, lines>>

\* threading_reset().
ThreadingResetKeepsFlags ==
  /\ threading_index_pulse_count' = 0 /\ threading_sync_pulse_count' = 0
  /\ threading_index_Last_timer_tics' = 0 /\ threading_millimeters_target' = 0
  /\ UNCHANGED threading_exec_flags
ThreadingReset ==
  /\ threading_index_pulse_count' = 0 /\ threading_sync_pulse_count' = 0
  /\ threading_index_Last_timer_tics' = 0 /\ threading_millimeters_target' = 0
  /\ threading_exec_flags' = {}

SynchronizedWhenIdle == ~cycle
\* The condition on which protocol_buffer_synchronize() returns, reset or not.
Synchronized == abort \/ (blocks = <<>> /\ ~cycle)

\* G33: wait for the end of all motion, then threading_init().
Synchronize ==
  /\ Main("synchronize")
  /\ IF Synchronized
     THEN /\ GoOn("wait_index")
          /\ TimekeeperReset /\ ThreadingReset
          /\ since_index' = NONE /\ turns' = 0
     ELSE /\ PollIn("synchronize")
          /\ UNCHANGED <<clockVars, countVars, threading_exec_flags,
                         threading_index_Last_timer_tics, threading_millimeters_target,
                         since_index, turns>>
  /\ UNCHANGED <<sync_pulses, blocks, cycle, line, source, resetVars, pulses, lines>>

\* The wait for index pulses; FAIL(STATUS_INDEX_PULSE_TIMEOUT).
WaitIndex ==
  /\ Main("wait_index")
  /\ IF threading_index_pulse_count < SPINDLE_INDEX_PULSES_BEFORE_START_G33
     THEN /\ IF Ticks > IndexTimeout THEN Executed ELSE PollIn("wait_index")
          /\ UNCHANGED threading_sync_pulse_count
     ELSE IF sync_pulses > 1
          THEN GoOn("wait_sync") /\ threading_sync_pulse_count' = 0
          ELSE PollIn("mc_line") /\ UNCHANGED threading_sync_pulse_count
  /\ UnchangedData /\ UNCHANGED <<cycle, line, source, lines>>

\* The wait for a synchronisation pulse; FAIL(STATUS_SYNCHRONIZATION_PULSE_TIMEOUT).
WaitSync ==
  /\ Main("wait_sync")
  /\ IF threading_sync_pulse_count = 0
     THEN IF Ticks > SyncTimeout THEN Executed ELSE PollIn("wait_sync")
     ELSE PollIn("mc_line")
  /\ UnchangedData /\ UNCHANGED <<threading_sync_pulse_count, cycle, line, source, lines>>

\* plan_buffer_line(): the speed of a thread is computed with the target of the one
\* before, then the target is set.
PlanBufferLine ==
  /\ blocks' = Append(blocks, line)
  /\ IF line = "thread"
     THEN /\ threading_exec_flags' = threading_exec_flags \ {"SYNC"}
          /\ threading_millimeters_target' = Millimeters
          /\ pulses' = 0
     ELSE UNCHANGED <<threading_exec_flags, threading_millimeters_target, pulses>>

\* plan_check_full_buffer().
Full == Len(blocks) = MaxQueue

\* mc_line() after its poll: given up for a reset, waiting for room, or planned.
McLine ==
  /\ Main("mc_line")
  /\ \/ /\ abort /\ Executed
        /\ UNCHANGED <<blocks, cycle, threading_exec_flags,
                       threading_millimeters_target, pulses>>
     \/ /\ ~abort /\ Full
        /\ AutoCycleStart /\ PollIn("mc_line")
        /\ UNCHANGED <<blocks, threading_exec_flags, threading_millimeters_target, pulses>>
     \/ /\ ~abort /\ ~Full
        /\ PlanBufferLine /\ Executed
        /\ UNCHANGED cycle
  /\ UNCHANGED <<clockVars, sync_pulses, countVars, threading_index_Last_timer_tics,
                 line, source, resetVars, since_index, turns, lines>>

\* main() after a reset: the clock restarts, the pulses' variables stay.
Restart ==
  /\ pc = "main" /\ task \in {"eol", "polled"} /\ abort
  /\ GoOn("loop")
  /\ TimekeeperReset /\ since_index' = NONE
  /\ blocks' = <<>> /\ cycle' = FALSE
  /\ exec_reset' = FALSE /\ abort' = FALSE
  /\ UNCHANGED <<sync_pulses, threading_exec_flags, countVars,
                 threading_index_Last_timer_tics, threading_millimeters_target,
                 line, source, resets, turns, pulses, lines>>

MainProgram ==
  \/ ExecRtSystem
  \/ Loop \/ ReadLine \/ EndOfLine \/ NoMoreLines \/ OtherLine \/ Poll \/ Polled
  \/ Synchronize \/ WaitIndex \/ WaitSync \/ McLine \/ Restart

Next == MainProgram \/ Tick \/ Interrupt

Spec == Init /\ [][Next]_vars

-----------------------------------------------------------------------------
(* Properties.                                                             *)

PulseTypeOK ==
  /\ sync_pulses \in {1, 2}
  /\ threading_exec_flags \subseteq {"INDEX", "SYNC"}
  /\ threading_index_pulse_count \in 0 .. SPINDLE_INDEX_PULSES_BEFORE_START_G33
  /\ threading_sync_pulse_count \in {0, 1}
  /\ threading_index_Last_timer_tics \in 0 .. WORD - 1
  /\ since_index \in {NONE} \cup 0 .. WORD - 1
  /\ turns \in 0 .. SPINDLE_INDEX_PULSES_BEFORE_START_G33
MotionTypeOK ==
  /\ threading_millimeters_target \in -MaxPulses .. Millimeters
  /\ pulses \in 0 .. MaxPulses
  /\ Len(blocks) <= MaxQueue
  /\ \A i \in DOMAIN blocks : blocks[i] \in {"thread", "line"}
MainTypeOK ==
  /\ cycle \in BOOLEAN /\ exec_reset \in BOOLEAN /\ abort \in BOOLEAN
  /\ pc \in {"main", "index", "ticks", "process", "index_clear", "sync", "sync_clear",
             "flags", "prep"}
  /\ task \in {"loop", "serial", "eol", "other", "poll", "polled", "synchronize",
               "wait_index", "wait_sync", "mc_line"}
  /\ line \in {"none", "thread", "line"} /\ source \in {"serial", "other"}
  /\ lines \in 0 .. MaxLines /\ resets \in 0 .. MaxResets
ThTypeOK == ClockTypeOK /\ PulseTypeOK /\ MotionTypeOK /\ MainTypeOK

\* The measured time between two index pulses is the time that has passed between
\* their measurements, to the tick, wherever the counter overflows around and inside
\* get_timer_ticks(), also when the 32 bits wrap (threading.c:68-69,
\* timekeeper.c:64-72).
IntervalsExact ==
  [][ProcessIndexPulse /\ since_index # NONE
       => (threading_index_Last_timer_tics' - threading_index_Last_timer_tics) % WORD
            = (since_index - since_index') % WORD]_vars

\* A thread is planned only after the spindle has given the pulses that are asked
\* for since threading_init(), none of them left over from before, and its speed was
\* measured on the clock that is running (gcode.c:1066-1084, threading.c:46-54).
ThreadMeasured ==
  [][Threads = {} /\ Threads' # {}
       => /\ turns >= SPINDLE_INDEX_PULSES_BEFORE_START_G33
          /\ since_index # NONE]_vars

\* A thread is the current block from the moment it is planned: its target, one
\* variable for all blocks, is never that of a block behind it (gcode.c:1065,
\* planner.c:482-485).
ThreadIsCurrent == Threads \subseteq {1}

\* The target never runs ahead of the spindle: no pulse moves it twice, although the
\* flag is looked at and cleared in three places (protocol.c:316-321,
\* planner.c:264-266: "clear the bit to avoid processing again").  Under a reset a
\* second G33 no longer waits for the first and restarts its target.
NeverAheadOfSpindle ==
  Threads # {} /\ ~abort => Millimeters - threading_millimeters_target <= pulses

\* The variables have their types, the counts and the flags included, and no
\* pulse moves the target of a thread twice.
ThSafe == ThTypeOK /\ NeverAheadOfSpindle
=============================================================================
