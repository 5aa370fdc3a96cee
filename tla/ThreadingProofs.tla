--------------------------- MODULE ThreadingProofs ---------------------------
(***************************************************************************)
(* Theorems about Threading, for every value of its constants: a thread is *)
(* always the current block, it is planned only for a measured spindle, no *)
(* pulse moves its target twice, and the time between two index pulses is  *)
(* measured to the tick, through every overflow of the counter.            *)
(***************************************************************************)
EXTENDS Threading, TLAPS

USE DEF NONE

Kinds == {"thread", "line"}

\* What the proofs need to know of the variables' types.
Types ==
  /\ TCNT5 \in Int /\ overflow_offset \in Int /\ ticks \in Int
  /\ threading_index_pulse_count \in Nat /\ turns \in Nat
  /\ since_index \in Int
  /\ blocks \in Seq(Kinds)
  /\ line \in {"none"} \cup Kinds

\* G33 between threading_init() and the plan of its move.
Waiting == task = "wait_index"
Ready == task = "wait_sync" \/ (task = "mc_line" /\ line = "thread")

\* An index pulse that has been flagged and may still be counted.
Pending == IF "INDEX" \in threading_exec_flags /\ pc # "index_clear" THEN 1 ELSE 0

ThreadsFirst == \A i \in 1 .. Len(blocks) : blocks[i] = "thread" => i = 1
PlannerEmptied == Waiting \/ Ready => abort \/ blocks = <<>>
CountsArrived ==
  Waiting => \/ threading_index_pulse_count + Pending <= turns
             \/ turns >= SPINDLE_INDEX_PULSES_BEFORE_START_G33
CountsMeasured == Waiting /\ threading_index_pulse_count > 0 => since_index # NONE
ReadyMeasured ==
  Ready => turns >= SPINDLE_INDEX_PULSES_BEFORE_START_G33 /\ since_index # NONE
Processing == pc \in {"ticks", "process"} => "INDEX" \in threading_exec_flags
Executing ==
  task \in {"eol", "synchronize", "wait_index", "wait_sync", "mc_line"} => line \in Kinds

\* The inductive invariant of both theorems.
ThInv ==
  /\ Types /\ ThreadsFirst /\ PlannerEmptied
  /\ CountsArrived /\ CountsMeasured /\ ReadyMeasured /\ Processing /\ Executing

-----------------------------------------------------------------------------
(* The invariant holds initially.                                          *)

LEMMA InitThInv == Init => ThInv
  BY ThreadingAssumption DEF Init, ClockInit, ThInv, Types, Kinds, ThreadsFirst, PlannerEmptied,
     CountsArrived, CountsMeasured, ReadyMeasured, Processing, Executing, Waiting, Ready

-----------------------------------------------------------------------------
(* Arithmetic and lists.                                                   *)

LEMMA WordType == WORD \in Nat \ {0}
  BY ClockAssumption DEF WORD

LEMMA ModType == ASSUME NEW a \in Int, NEW n \in Nat \ {0} PROVE a % n \in 0 .. n - 1
  OBVIOUS

\* Removing the current block keeps threads first: there are none left.
LEMMA TailFirst ==
  ASSUME NEW b \in Seq(Kinds), b # <<>>,
         \A i \in 1 .. Len(b) : b[i] = "thread" => i = 1
  PROVE  /\ Tail(b) \in Seq(Kinds)
         /\ \A i \in 1 .. Len(Tail(b)) : Tail(b)[i] = "thread" => i = 1
  <1>1. Tail(b) \in Seq(Kinds) /\ Len(Tail(b)) = Len(b) - 1 /\ Len(b) \in Nat
    OBVIOUS
  <1>2. \A i \in 1 .. Len(Tail(b)) : Tail(b)[i] = b[i + 1] /\ i + 1 \in 1 .. Len(b) /\ i + 1 # 1
    BY <1>1
  <1> QED
    BY <1>1, <1>2

LEMMA AppendFirst ==
  ASSUME NEW b \in Seq(Kinds), NEW k \in Kinds, k = "thread" => b = <<>>,
         \A i \in 1 .. Len(b) : b[i] = "thread" => i = 1
  PROVE  /\ Append(b, k) \in Seq(Kinds)
         /\ \A i \in 1 .. Len(Append(b, k)) : Append(b, k)[i] = "thread" => i = 1
  <1>1. Append(b, k) \in Seq(Kinds) /\ Len(Append(b, k)) = Len(b) + 1 /\ Len(b) \in Nat
    OBVIOUS
  <1>2. ASSUME NEW i \in 1 .. Len(b) + 1, Append(b, k)[i] = "thread" PROVE i = 1
    <2>1. CASE i \in 1 .. Len(b)
      BY <1>2, <2>1, Append(b, k)[i] = b[i]
    <2>2. CASE i = Len(b) + 1
      <3>1. k = "thread"
        BY <1>2, <2>2, Append(b, k)[Len(b) + 1] = k
      <3> QED
        BY <3>1, <2>2, Len(<<>>) = 0
    <2> QED
      BY <1>1, <2>1, <2>2
  <1> QED
    BY <1>1, <1>2

-----------------------------------------------------------------------------
(* Every step preserves the invariant.                                     *)

USE DEF clockVars, countVars, motionVars, mainVars, resetVars

\* An arriving pulse may be counted once: turns goes up with it.
LEMMA IndexPulseStep == ASSUME ThInv, IndexPulse PROVE ThInv'
  <1> USE DEF ThInv, IndexPulse
  <1>1. Types' /\ ThreadsFirst' /\ PlannerEmptied' /\ CountsMeasured' /\ Processing'
        /\ Executing'
    BY ThreadingAssumption
       DEF Types, ThreadsFirst, PlannerEmptied, CountsMeasured, Processing, Executing,
           Waiting, Ready
  <1>2. CountsArrived'
    <2>1. CASE turns < SPINDLE_INDEX_PULSES_BEFORE_START_G33
      BY <2>1, ThreadingAssumption DEF Types, CountsArrived, Waiting, Pending
    <2>2. CASE ~(turns < SPINDLE_INDEX_PULSES_BEFORE_START_G33)
      BY <2>2, ThreadingAssumption DEF Types, CountsArrived, Waiting
    <2> QED
      BY <2>1, <2>2
  <1>3. ReadyMeasured'
    BY ThreadingAssumption DEF Types, ReadyMeasured, Ready
  <1> QED
    BY <1>1, <1>2, <1>3

\* The wait for the spindle starts with an empty planner and nothing counted.
LEMMA SynchronizeStep == ASSUME ThInv, Synchronize PROVE ThInv'
  <1> USE DEF ThInv, Synchronize, Main
  <1>1. CASE Synchronized
    <2>1. /\ task' = "wait_index" /\ pc' = "main" /\ threading_exec_flags' = {}
          /\ threading_index_pulse_count' = 0 /\ turns' = 0 /\ since_index' = NONE
          /\ TCNT5' = 0 /\ overflow_offset' = 0 /\ ticks' = ticks
          /\ UNCHANGED <<blocks, line, abort>>
      BY <1>1 DEF GoOn, TimekeeperReset, ThreadingReset
    <2>2. abort \/ blocks = <<>>
      BY <1>1 DEF Synchronized
    <2>3. Types' /\ ThreadsFirst' /\ Processing' /\ Executing'
      BY <2>1 DEF Types, ThreadsFirst, Processing, Executing
    <2>4. PlannerEmptied' /\ ReadyMeasured'
      BY <2>1, <2>2 DEF PlannerEmptied, ReadyMeasured, Ready
    <2>5. CountsArrived' /\ CountsMeasured'
      BY <2>1 DEF CountsArrived, CountsMeasured, Pending
    <2> QED
      BY <2>3, <2>4, <2>5
  <1>2. CASE ~Synchronized
    BY <1>2 DEF PollIn, Types, ThreadsFirst, PlannerEmptied, CountsArrived, CountsMeasured,
       ReadyMeasured, Processing, Executing, Waiting, Ready
  <1> QED
    BY <1>1, <1>2

\* A thread is planned into an empty planner.
LEMMA McLineStep == ASSUME ThInv, McLine PROVE ThInv'
  <1> USE DEF ThInv, McLine, Main
  <1>1. CASE ~abort /\ ~Full /\ PlanBufferLine /\ Executed /\ UNCHANGED cycle
    <2>1. /\ blocks' = Append(blocks, line) /\ task' \in {"serial", "poll"} /\ pc' = "main"
          /\ UNCHANGED <<TCNT5, overflow_offset, ticks, threading_index_pulse_count, turns,
                         since_index, line>>
      BY <1>1 DEF PlanBufferLine, Executed, GoOn
    <2>2. line = "thread" => blocks = <<>>
      BY <1>1 DEF PlannerEmptied, Ready
    <2>3. line \in Kinds
      BY DEF Executing
    <2>4. blocks' \in Seq(Kinds) /\ ThreadsFirst'
      BY <2>1, <2>2, <2>3, AppendFirst DEF Types, ThreadsFirst
    <2>5. Types'
      BY <2>1, <2>4 DEF Types
    <2>6. /\ PlannerEmptied' /\ CountsArrived' /\ CountsMeasured' /\ ReadyMeasured'
          /\ Processing' /\ Executing'
      BY <2>1 DEF PlannerEmptied, CountsArrived, CountsMeasured, ReadyMeasured, Processing,
         Executing, Waiting, Ready
    <2> QED
      BY <2>4, <2>5, <2>6
  <1>2. CASE \/ abort /\ Executed /\ UNCHANGED blocks
             \/ ~abort /\ PollIn("mc_line") /\ UNCHANGED blocks
    BY <1>2 DEF Executed, GoOn, PollIn, Types, ThreadsFirst, PlannerEmptied, CountsArrived,
       CountsMeasured, ReadyMeasured, Processing, Executing, Waiting, Ready
  <1> QED
    BY <1>1, <1>2

LEMMA NextThInv == ThInv /\ [Next]_vars => ThInv'
  <1> SUFFICES ASSUME ThInv, [Next]_vars PROVE ThInv'
    OBVIOUS
  <1> USE DEF ThInv, Types, Kinds, ThreadsFirst, PlannerEmptied, CountsArrived, CountsMeasured,
          ReadyMeasured, Processing, Executing, Waiting, Ready, Pending
  <1>1. CASE Tick
    BY <1>1, WordType, ModType DEF Tick, Count
  <1>2. CASE OverflowInterrupt
    BY <1>2, WordType, ModType DEF OverflowInterrupt, Overflow
  <1>3. CASE IndexPulse
    BY <1>3, IndexPulseStep
  <1>4. CASE SyncPulse
    BY <1>4 DEF SyncPulse, Flagged
  <1>5. CASE RxReset
    BY <1>5 DEF RxReset
  <1>6. CASE TestIndex
    BY <1>6 DEF TestIndex, At
  <1>7. CASE ReadTicks
    BY <1>7, WordType, ModType DEF ReadTicks, At, FirstReading
  <1>8. CASE ProcessIndexPulse
    BY <1>8, ThreadingAssumption, ClockAssumption, ModType DEF ProcessIndexPulse, At
  <1>9. CASE ClearIndex
    BY <1>9 DEF ClearIndex, At, Flagged
  <1>10. CASE ProcessSyncPulse
    BY <1>10 DEF ProcessSyncPulse, At, Compute
  <1>11. CASE ClearSync
    BY <1>11 DEF ClearSync, At
  <1>12. CASE ServeFlags
    BY <1>12 DEF ServeFlags, At
  <1>13. CASE PrepBuffer
    BY <1>13, TailFirst DEF PrepBuffer, At, Compute
  <1>14. CASE Loop
    BY <1>14 DEF Loop, Main, GoOn, UnchangedData
  <1>15. CASE ReadLine
    BY <1>15 DEF ReadLine, Main, PollIn, UnchangedData
  <1>16. CASE EndOfLine
    BY <1>16 DEF EndOfLine, Main, PollIn, ExecuteLine, UnchangedData
  <1>17. CASE NoMoreLines
    BY <1>17 DEF NoMoreLines, Main, GoOn, UnchangedData
  <1>18. CASE OtherLine
    BY <1>18 DEF OtherLine, Main, GoOn, PollIn, ExecuteLine, UnchangedData
  <1>19. CASE Poll
    BY <1>19 DEF Poll, Main, PollIn, UnchangedData
  <1>20. CASE Polled
    BY <1>20 DEF Polled, Main, GoOn, UnchangedData
  <1>21. CASE Synchronize
    BY <1>21, SynchronizeStep
  <1>22. CASE WaitIndex
    BY <1>22, ThreadingAssumption DEF WaitIndex, Main, GoOn, PollIn, Executed, UnchangedData
  <1>23. CASE WaitSync
    BY <1>23 DEF WaitSync, Main, GoOn, PollIn, Executed, UnchangedData
  <1>24. CASE McLine
    BY <1>24, McLineStep
  <1>25. CASE Restart
    BY <1>25 DEF Restart, GoOn, TimekeeperReset
  <1>26. CASE UNCHANGED vars
    BY <1>26 DEF vars
  <1> QED
    BY
      <1>1, <1>2, <1>3, <1>4, <1>5, <1>6, <1>7, <1>8, <1>9, <1>10, <1>11, <1>12, <1>13,
      <1>14, <1>15, <1>16, <1>17, <1>18, <1>19, <1>20, <1>21, <1>22, <1>23, <1>24,
      <1>25, <1>26
    DEF Next, MainProgram, ExecRtSystem, Interrupt

-----------------------------------------------------------------------------
(* The theorems.                                                           *)

THEOREM ThreadingInvariance == Spec => []ThInv
  BY InitThInv, NextThInv, PTL DEF Spec

\* A thread is the current block from the moment it is planned, for planners of every
\* size, any number of lines, pulses and resets: the one target belongs to it
\* (gcode.c:1065, planner.c:482-485).
THEOREM ThreadAlwaysCurrent == Spec => []ThreadIsCurrent
  <1>1. ThInv => ThreadIsCurrent
    BY DEF ThInv, Types, ThreadsFirst, ThreadIsCurrent, Threads
  <1> QED
    BY <1>1, ThreadingInvariance, PTL

\* A thread is planned only after as many index pulses as the firmware asks for have
\* arrived since threading_init(), measured on the running clock, for every number of
\* pulses asked for and all timeouts (gcode.c:1066-1084).
THEOREM ThreadAlwaysMeasured == Spec => ThreadMeasured
  <1>1. ThInv /\ [Next]_vars
          => [Threads = {} /\ Threads' # {}
                => /\ turns >= SPINDLE_INDEX_PULSES_BEFORE_START_G33
                   /\ since_index # NONE]_vars
    <2> SUFFICES ASSUME ThInv, [Next]_vars, Threads = {}, Threads' # {}
                 PROVE  /\ turns >= SPINDLE_INDEX_PULSES_BEFORE_START_G33
                        /\ since_index # NONE
      OBVIOUS
    <2> USE DEF ThInv, Types, Threads
    <2>1. CASE McLine /\ line = "thread"
      BY <2>1 DEF McLine, Main, ReadyMeasured, Ready
    <2>2. CASE McLine /\ line # "thread"
      <3>1. blocks' = blocks \/ blocks' = Append(blocks, line)
        BY <2>2 DEF McLine, PlanBufferLine
      <3>2. Len(blocks) \in Nat
        OBVIOUS
      <3>3. ASSUME blocks' = Append(blocks, line), NEW i \in 1 .. Len(blocks) + 1
            PROVE  blocks'[i] # "thread"
        BY <2>2, <3>2, <3>3
      <3> QED
        BY <3>1, <3>2, <3>3
    <2>3. CASE PrepBuffer
      <3>1. blocks' = blocks \/ (blocks # <<>> /\ blocks' = Tail(blocks))
        BY <2>3 DEF PrepBuffer
      <3> QED
        BY <3>1
    <2>4. CASE Restart
      BY <2>4 DEF Restart
    <2>5. CASE UNCHANGED blocks
      BY <2>5
    <2>6. McLine \/ PrepBuffer \/ Restart \/ UNCHANGED blocks
      BY DEF Next, MainProgram, ExecRtSystem, Interrupt, vars, Tick, OverflowInterrupt, IndexPulse,
         SyncPulse, RxReset, TestIndex, ReadTicks, ProcessIndexPulse, ClearIndex,
         ProcessSyncPulse, ClearSync, ServeFlags, Loop, ReadLine, EndOfLine, NoMoreLines,
         OtherLine, Poll, Polled, Synchronize, WaitIndex, WaitSync, UnchangedData
    <2> QED
      BY <2>1, <2>2, <2>3, <2>4, <2>5, <2>6
  <1> QED
    BY <1>1, ThreadingInvariance, PTL DEF Spec, ThreadMeasured

-----------------------------------------------------------------------------
(* The target of a thread.                                                 *)

\* A synchronisation pulse that has been flagged and not been used.
Unused == IF "SYNC" \in threading_exec_flags THEN 1 ELSE 0

\* What has moved the target, and the pulse that may still do so, are among the
\* pulses of the thread: since it was planned, and, under a reset, since the target
\* was last set to 0.
TargetBehind == Threads # {} /\ ~abort => Millimeters - threading_millimeters_target + Unused <= pulses
TargetBounded == Threads # {} => Unused - threading_millimeters_target <= pulses
\* With one pulse per revolution, an index pulse will be a synchronisation pulse.
PulseToCome ==
  sync_pulses = 1 /\ "INDEX" \in threading_exec_flags /\ Threads # {} => pulses < MaxPulses
Clearing == pc = "index_clear" => "INDEX" \in threading_exec_flags

\* The inductive invariant of ThSafe, on top of ThInv.
TargetInv == ThTypeOK /\ TargetBehind /\ TargetBounded /\ PulseToCome /\ Clearing

-----------------------------------------------------------------------------
(* The clock.                                                              *)

Congruent(a, b, n) == \E k \in Int : a = b + k * n

\* The time that the counter and the overflows show.
Now == overflow_offset + TCNT5 + (IF TOV5 THEN PERIOD ELSE 0)

WholePeriods == \E k \in 0 .. PERIODS - 1 : overflow_offset = k * PERIOD
\* Between the two readings of get_timer_ticks() at most one tick falls.
FirstReadingGood ==
  pc = "process" /\ ~TOV5
    => \/ ticks = overflow_offset + TCNT5
       \/ ticks = overflow_offset + TCNT5 - 1 /\ TCNT5 > 0
SinceLast ==
  since_index # NONE => Congruent(threading_index_Last_timer_tics + since_index, Now, WORD)

\* The inductive invariant of IntervalsExact, on top of ThTypeOK.
ClockInv == WholePeriods /\ FirstReadingGood /\ SinceLast

-----------------------------------------------------------------------------
(* Every step keeps the types and the target.                              *)

\* The types in two parts: the provers treat Booleans and numbers apart.
Switches == TOV5 \in BOOLEAN /\ cycle \in BOOLEAN /\ exec_reset \in BOOLEAN /\ abort \in BOOLEAN
ClockNumbers ==
  TCNT5 \in 0 .. PERIOD - 1 /\ overflow_offset \in 0 .. WORD - 1 /\ ticks \in 0 .. WORD - 1
Places ==
  /\ pc \in {"main", "index", "ticks", "process", "index_clear", "sync", "sync_clear",
             "flags", "prep"}
  /\ task \in {"loop", "serial", "eol", "other", "poll", "polled", "synchronize",
               "wait_index", "wait_sync", "mc_line"}
  /\ line \in {"none", "thread", "line"} /\ source \in {"serial", "other"}
  /\ lines \in 0 .. MaxLines /\ resets \in 0 .. MaxResets

LEMMA TypesInParts == ThTypeOK <=> Switches /\ ClockNumbers /\ PulseTypeOK /\ MotionTypeOK /\ Places
  BY DEF ThTypeOK, ClockTypeOK, MainTypeOK, Switches, ClockNumbers, Places

LEMMA SwitchesStep == ASSUME Switches, [Next]_vars PROVE Switches'
  <1> USE DEF Switches
  <1>1. CASE Tick
    BY <1>1, ZenonT(20) DEF Tick, Count
  <1>2. CASE Interrupt
    BY <1>2, ZenonT(20) DEF Interrupt, OverflowInterrupt, Overflow, IndexPulse, SyncPulse, RxReset
  <1>3. CASE ExecRtSystem
    BY <1>3, ZenonT(20) DEF ExecRtSystem, TestIndex, ReadTicks, ProcessIndexPulse, ClearIndex,
       ProcessSyncPulse, ClearSync, ServeFlags, PrepBuffer, At
  <1>4. CASE Loop \/ ReadLine \/ EndOfLine \/ NoMoreLines \/ OtherLine \/ Poll \/ Polled
    BY <1>4, ZenonT(20) DEF Loop, ReadLine, EndOfLine, NoMoreLines, OtherLine, Poll, Polled, ExecuteLine,
       AutoCycleStart, UnchangedData
  <1>5. CASE Synchronize \/ WaitIndex \/ WaitSync \/ McLine \/ Restart
    BY <1>5, ZenonT(20) DEF Synchronize, WaitIndex, WaitSync, McLine, Restart, TimekeeperReset,
       AutoCycleStart, UnchangedData
  <1>6. CASE UNCHANGED vars
    BY <1>6, ZenonT(20) DEF vars
  <1> QED
    BY <1>1, <1>2, <1>3, <1>4, <1>5, <1>6, Zenon DEF Next, MainProgram

LEMMA InitTargetInv == Init => TargetInv
  <1> SUFFICES ASSUME Init PROVE TargetInv
    OBVIOUS
  <1> USE ThreadingAssumption, ClockAssumption, WordType DEF Init, ClockInit
  <1>1. ClockNumbers
    BY DEF ClockNumbers
  <1>5. Switches
    BY Zenon DEF Switches
  <1>2. PulseTypeOK
    BY DEF PulseTypeOK
  <1>3. MotionTypeOK /\ Threads = {}
    BY DEF MotionTypeOK, Threads
  <1>4. Places
    BY DEF Places
  <1> QED
    BY <1>1, <1>2, <1>3, <1>4, <1>5, TypesInParts
       DEF TargetInv, TargetBehind, TargetBounded, PulseToCome, Clearing

LEMMA ClockNumbersStep == ASSUME ClockNumbers, [Next]_vars PROVE ClockNumbers'
  <1> USE WordType, ModType, ClockAssumption DEF ClockNumbers
  <1>1. CASE Tick
    BY <1>1 DEF Tick, Count
  <1>2. CASE OverflowInterrupt
    BY <1>2 DEF OverflowInterrupt, Overflow
  <1>3. CASE ReadTicks
    BY <1>3 DEF ReadTicks, FirstReading
  <1>4. CASE ProcessIndexPulse
    BY <1>4 DEF ProcessIndexPulse
  <1>5. CASE Synchronize \/ Restart
    <2>1. \/ TCNT5' = 0 /\ overflow_offset' = 0 /\ ticks' = ticks
          \/ UNCHANGED <<TCNT5, overflow_offset, ticks>>
      BY <1>5, Zenon DEF Synchronize, Restart, TimekeeperReset
    <2> QED
      BY <2>1
  <1>6. CASE UNCHANGED clockVars
    BY <1>6
  <1>7. UNCHANGED clockVars \/ Tick \/ OverflowInterrupt \/ ReadTicks \/ ProcessIndexPulse
        \/ Synchronize \/ Restart
    BY DEF Next, MainProgram, ExecRtSystem, Interrupt, vars, IndexPulse, SyncPulse, RxReset,
       TestIndex, ClearIndex, ProcessSyncPulse, ClearSync, ServeFlags, PrepBuffer, Loop, ReadLine,
       EndOfLine, NoMoreLines, OtherLine, Poll, Polled, WaitIndex, WaitSync, McLine, UnchangedData
  <1> QED
    BY <1>1, <1>2, <1>3, <1>4, <1>5, <1>6, <1>7

LEMMA PulseTypeStep == ASSUME ClockNumbers, PulseTypeOK, [Next]_vars PROVE PulseTypeOK'
  <1> USE WordType, ModType, ThreadingAssumption, ClockAssumption DEF ClockNumbers, PulseTypeOK
  <1>1. CASE Tick
    BY <1>1 DEF Tick
  <1>2. CASE IndexPulse \/ SyncPulse
    <2>1. CASE IndexPulse
      BY <1>2, <2>1 DEF IndexPulse
    <2>2. CASE SyncPulse
      BY <1>2, <2>2 DEF SyncPulse
    <2> QED
      BY <1>2, <2>1, <2>2
  <1>3. CASE ProcessIndexPulse
    <2>1. PERIOD <= WORD
      BY DEF WORD
    <2>2. TicksRead \in 0 .. WORD - 1
      BY DEF TicksRead
    <2>3. (TCNT5 - ticks) % PERIOD \in 0 .. PERIOD - 1
      OBVIOUS
    <2> QED
      BY <1>3, <2>1, <2>2, <2>3 DEF ProcessIndexPulse, At
  <1>4. CASE ClearIndex
    BY <1>4 DEF ClearIndex, At
  <1>5. CASE ProcessSyncPulse
    BY <1>5 DEF ProcessSyncPulse, At, Compute
  <1>6. CASE ClearSync
    BY <1>6 DEF ClearSync, At
  <1>7. CASE PrepBuffer
    BY <1>7 DEF PrepBuffer, At, Compute
  <1>8. CASE Synchronize
    <2>1. CASE Synchronized
      BY <1>8, <2>1 DEF Synchronize, ThreadingReset
    <2>2. CASE ~Synchronized
      BY <1>8, <2>2 DEF Synchronize
    <2> QED
      BY <2>1, <2>2
  <1>9. CASE WaitIndex
    BY <1>9 DEF WaitIndex, UnchangedData
  <1>10. CASE McLine
    BY <1>10 DEF McLine, PlanBufferLine
  <1>11. CASE Restart
    BY <1>11 DEF Restart
  <1>12. CASE UNCHANGED <<sync_pulses, threading_exec_flags, countVars,
                          threading_index_Last_timer_tics, since_index, turns>>
    BY <1>12
  <1>13. \/ UNCHANGED <<sync_pulses, threading_exec_flags, countVars,
                        threading_index_Last_timer_tics, since_index, turns>>
         \/ Tick \/ IndexPulse \/ SyncPulse \/ ProcessIndexPulse \/ ClearIndex
         \/ ProcessSyncPulse \/ ClearSync \/ PrepBuffer \/ Synchronize \/ WaitIndex
         \/ McLine \/ Restart
    BY DEF Next, MainProgram, ExecRtSystem, Interrupt, vars, OverflowInterrupt, RxReset,
       TestIndex, ReadTicks, ServeFlags, Loop, ReadLine, EndOfLine, NoMoreLines, OtherLine, Poll,
       Polled, WaitSync, UnchangedData, At
  <1> QED
    BY <1>1, <1>2, <1>3, <1>4, <1>5, <1>6, <1>7, <1>8, <1>9, <1>10, <1>11, <1>12, <1>13

LEMMA PlacesStep == ASSUME Places, [Next]_vars PROVE Places'
  <1> USE DEF Places
  <1>1. CASE Tick \/ Interrupt
    BY <1>1, ThreadingAssumption DEF Tick, Interrupt, OverflowInterrupt, IndexPulse, SyncPulse,
       RxReset
  <1>2. CASE ExecRtSystem
    BY <1>2 DEF ExecRtSystem, TestIndex, ReadTicks, ProcessIndexPulse, ClearIndex,
       ProcessSyncPulse, ClearSync, ServeFlags, PrepBuffer, At
  <1>3. CASE Loop \/ NoMoreLines \/ Poll \/ Polled
    BY <1>3 DEF Loop, NoMoreLines, Poll, Polled, GoOn, PollIn, AutoCycleStart, UnchangedData
  <1>4. CASE ReadLine
    BY <1>4, ThreadingAssumption DEF ReadLine, PollIn, UnchangedData
  <1>5. CASE EndOfLine
    BY <1>5 DEF EndOfLine, ExecuteLine, PollIn, AutoCycleStart, UnchangedData
  <1>6. CASE OtherLine
    BY <1>6, ThreadingAssumption
       DEF OtherLine, ExecuteLine, PollIn, GoOn, AutoCycleStart, UnchangedData
  <1>7. CASE Synchronize
    BY <1>7 DEF Synchronize, PollIn, GoOn
  <1>8. CASE WaitIndex \/ WaitSync
    BY <1>8 DEF WaitIndex, WaitSync, Executed, PollIn, GoOn, UnchangedData
  <1>9. CASE McLine
    BY <1>9 DEF McLine, Executed, PollIn, GoOn, AutoCycleStart
  <1>10. CASE Restart
    BY <1>10 DEF Restart, GoOn
  <1>11. CASE UNCHANGED vars
    BY <1>11 DEF vars
  <1> QED
    BY <1>1, <1>2, <1>3, <1>4, <1>5, <1>6, <1>7, <1>8, <1>9, <1>10, <1>11 DEF Next, MainProgram

LEMMA ThreadIsActive ==
  ASSUME ThInv PROVE (Threads # {} <=> spindle_synchronization_active) /\ Len(blocks) \in Nat
  <1> USE DEF ThInv, Types, ThreadsFirst
  <1>1. Len(blocks) \in Nat /\ DOMAIN blocks = 1 .. Len(blocks)
    OBVIOUS
  <1>2. CASE blocks = <<>>
    BY <1>1, <1>2 DEF Threads, spindle_synchronization_active
  <1>3. CASE blocks # <<>>
    <2>1. Len(blocks) > 0 /\ Head(blocks) = blocks[1]
      BY <1>1, <1>3
    <2> QED
      BY <1>1, <1>3, <2>1 DEF Threads, spindle_synchronization_active
  <1> QED
    BY <1>1, <1>2, <1>3

\* There is no thread behind the current block, nor in a line that is none.
LEMMA TailHasNone ==
  ASSUME ThInv, blocks # <<>>, blocks' = Tail(blocks)
  PROVE  Threads' = {} /\ Len(blocks') < Len(blocks)
  <1> USE DEF ThInv, Types, ThreadsFirst
  <1>1. Tail(blocks) \in Seq(Kinds) /\ Len(Tail(blocks)) = Len(blocks) - 1 /\ Len(blocks) \in Nat
    OBVIOUS
  <1>2. \A i \in 1 .. Len(Tail(blocks)) :
          Tail(blocks)[i] = blocks[i + 1] /\ i + 1 \in 1 .. Len(blocks) /\ i + 1 # 1
    BY <1>1
  <1> QED
    BY <1>1, <1>2 DEF Threads

LEMMA LineIsNone ==
  ASSUME ThInv, NEW k \in Kinds, k # "thread", blocks' = Append(blocks, k)
  PROVE  Threads' = Threads
  <1> USE DEF ThInv, Types
  <1>1. blocks' \in Seq(Kinds) /\ Len(blocks') = Len(blocks) + 1 /\ Len(blocks) \in Nat
    OBVIOUS
  <1>2. /\ \A i \in 1 .. Len(blocks) : blocks'[i] = blocks[i]
        /\ blocks'[Len(blocks) + 1] = k
    OBVIOUS
  <1> QED
    BY <1>1, <1>2 DEF Threads

LEMMA ClearingStep == ASSUME ThInv, Clearing, [Next]_vars PROVE Clearing'
  <1> USE DEF ThInv, Processing, Clearing
  <1>1. CASE Tick \/ Interrupt
    BY <1>1 DEF Tick, Interrupt, OverflowInterrupt, IndexPulse, SyncPulse, RxReset
  <1>2. CASE ExecRtSystem
    BY <1>2 DEF ExecRtSystem, TestIndex, ReadTicks, ProcessIndexPulse, ClearIndex,
       ProcessSyncPulse, ClearSync, ServeFlags, PrepBuffer, At
  <1>3. CASE UNCHANGED vars
    BY <1>3 DEF vars
  <1>4. CASE MainProgram /\ ~ExecRtSystem
    <2>1. pc' \in {"main", "index"}
      BY <1>4 DEF MainProgram, Loop, ReadLine, EndOfLine, NoMoreLines, OtherLine, Poll, Polled,
         Synchronize, WaitIndex, WaitSync, McLine, Restart, Main, GoOn, PollIn, Executed,
         ExecuteLine
    <2> QED
      BY <2>1
  <1> QED
    BY <1>1, <1>2, <1>3, <1>4 DEF Next

TargetParts == MotionTypeOK /\ TargetBehind /\ TargetBounded /\ PulseToCome

\* A pulse is flagged for the thread, used, or cleared; a part of the step that
\* several actions take.
LEMMA UseKeeps ==
  ASSUME ThInv, ThInv', TargetParts, sync_pulses' = sync_pulses, pulses' = pulses, abort' = abort,
         Compute \/ UNCHANGED <<threading_exec_flags, threading_millimeters_target>>,
         blocks' = blocks \/ (blocks # <<>> /\ blocks' = Tail(blocks))
  PROVE  TargetParts'
  <1> USE ThreadingAssumption DEF TargetParts, MotionTypeOK, TargetBehind, TargetBounded, PulseToCome
  <1>1. Threads # {} <=> spindle_synchronization_active
    BY ThreadIsActive
  <1>2. \A i \in DOMAIN blocks' : blocks'[i] \in {"thread", "line"}
    BY DEF ThInv, Types, Kinds
  <1>3. /\ threading_millimeters_target' \in -MaxPulses .. Millimeters
        /\ Threads # {} /\ ~abort
             => Millimeters - threading_millimeters_target' + Unused' <= pulses
        /\ Threads # {} => Unused' - threading_millimeters_target' <= pulses
        /\ "INDEX" \in threading_exec_flags' => "INDEX" \in threading_exec_flags
    BY <1>1 DEF Compute, Unused
  <1>4. Len(blocks') <= Len(blocks) /\ Len(blocks) \in Nat /\ Len(blocks') \in Nat
        /\ (Threads' = {} \/ Threads' = Threads)
    BY TailHasNone, ThreadIsActive DEF Threads, ThInv, Types
  <1> QED
    BY <1>2, <1>3, <1>4

LEMMA TargetPartsStep ==
  ASSUME ThInv, ThInv', TargetParts, Clearing, PulseTypeOK, [Next]_vars PROVE TargetParts'
  <1> USE ThreadingAssumption DEF TargetParts, MotionTypeOK, TargetBehind, TargetBounded, PulseToCome
  <1> DEFINE frame == <<sync_pulses, threading_exec_flags, threading_millimeters_target, blocks,
                        abort, pulses>>
  <1>1. CASE UNCHANGED frame
    BY <1>1 DEF Threads, Unused
  <1>2. CASE IndexPulse
    BY <1>2 DEF IndexPulse, Threads, Unused
  <1>3. CASE SyncPulse
    BY <1>3 DEF SyncPulse, Flagged, Threads, Unused, PulseTypeOK
  <1>4. CASE ClearIndex
    <2>1. /\ UNCHANGED <<sync_pulses, threading_millimeters_target, blocks, abort>>
          /\ "INDEX" \in threading_exec_flags /\ "INDEX" \notin threading_exec_flags'
      BY <1>4 DEF ClearIndex, At, Clearing
    <2>2. CASE sync_pulses = 1
      <3>1. /\ Threads # {} => pulses < MaxPulses /\ pulses' = pulses + 1
            /\ Threads = {} => pulses' = pulses
            /\ Threads' = Threads /\ Unused' <= 1 /\ Unused' \in Nat /\ Unused \in Nat
        BY <1>4, <2>1, <2>2 DEF ClearIndex, Flagged, Threads, Unused
      <3> QED
        BY <2>1, <3>1
    <2>3. CASE sync_pulses # 1
      BY <1>4, <2>1, <2>3 DEF ClearIndex, Threads, Unused
    <2> QED
      BY <2>2, <2>3
  <1>5. CASE ProcessSyncPulse
    BY <1>5, UseKeeps DEF ProcessSyncPulse, At
  <1>6. CASE PrepBuffer
    BY <1>6, UseKeeps DEF PrepBuffer, At
  <1>7. CASE ClearSync
    BY <1>7 DEF ClearSync, At, Threads, Unused
  <1>8. CASE Synchronize
    <2>1. CASE Synchronized
      <3>1. /\ UNCHANGED <<sync_pulses, blocks, abort, pulses>> /\ (abort \/ blocks = <<>>)
            /\ threading_exec_flags' = {} /\ threading_millimeters_target' = 0
        BY <1>8, <2>1 DEF Synchronize, Synchronized, ThreadingReset
      <3> QED
        BY <3>1 DEF Threads, Unused
    <2>2. CASE ~Synchronized
      BY <1>1, <1>8, <2>2 DEF Synchronize
    <2> QED
      BY <2>1, <2>2
  <1>9. CASE McLine
    <2>1. CASE UNCHANGED <<blocks, threading_exec_flags, threading_millimeters_target, pulses>>
      BY <1>1, <1>9, <2>1 DEF McLine
    <2>2. CASE ~Full /\ PlanBufferLine
      <3>1. /\ UNCHANGED <<sync_pulses, abort>> /\ line \in Kinds /\ blocks' = Append(blocks, line)
        BY <1>9, <2>2 DEF McLine, Main, PlanBufferLine, ThInv, Executing
      <3>2. /\ Len(blocks') <= MaxQueue
            /\ \A i \in DOMAIN blocks' : blocks'[i] \in {"thread", "line"}
        <4>1. Len(blocks) \in Nat /\ Len(blocks') = Len(blocks) + 1 /\ Len(blocks) # MaxQueue
          BY <2>2, <3>1 DEF Full, ThInv, Types
        <4> QED
          BY <4>1 DEF ThInv, Types, Kinds
      <3>3. CASE line = "thread"
        BY <2>2, <3>1, <3>2, <3>3 DEF PlanBufferLine, Unused
      <3>4. CASE line # "thread"
        BY <2>2, <3>1, <3>2, <3>4, LineIsNone DEF PlanBufferLine, Unused
      <3> QED
        BY <3>3, <3>4
    <2> QED
      BY <1>9, <2>1, <2>2 DEF McLine
  <1>10. CASE Restart
    BY <1>10 DEF Restart, Threads, Unused
  <1>11. CASE ServeFlags
    BY <1>11 DEF ServeFlags, At, Threads, Unused
  <1>12. \/ UNCHANGED frame \/ IndexPulse \/ SyncPulse \/ ClearIndex \/ ProcessSyncPulse
         \/ PrepBuffer \/ ClearSync \/ Synchronize \/ McLine \/ Restart \/ ServeFlags
    BY DEF Next, MainProgram, ExecRtSystem, Interrupt, vars, Tick, OverflowInterrupt, RxReset,
       TestIndex, ReadTicks, ProcessIndexPulse, Loop, ReadLine, EndOfLine, NoMoreLines, OtherLine,
       Poll, Polled, WaitIndex, WaitSync, UnchangedData, At
  <1> HIDE DEF frame
  <1> QED
    BY <1>1, <1>2, <1>3, <1>4, <1>5, <1>6, <1>7, <1>8, <1>9, <1>10, <1>11, <1>12

LEMMA NextTargetInv == ThInv /\ ThInv' /\ TargetInv /\ [Next]_vars => TargetInv'
  <1> SUFFICES ASSUME ThInv, ThInv', TargetInv, [Next]_vars PROVE TargetInv'
    OBVIOUS
  <1>1. Switches /\ ClockNumbers /\ PulseTypeOK /\ TargetParts /\ Places /\ Clearing
    BY TypesInParts DEF TargetInv, TargetParts
  <1>2. Switches' /\ ClockNumbers' /\ PulseTypeOK' /\ Places' /\ Clearing'
    BY <1>1, SwitchesStep, ClockNumbersStep, PulseTypeStep, PlacesStep, ClearingStep
  <1>3. TargetParts'
    BY <1>1, TargetPartsStep
  <1>4. ThTypeOK'
    BY <1>2, <1>3
       DEF TargetParts, ThTypeOK, ClockTypeOK, MainTypeOK, Switches, ClockNumbers, Places
  <1> QED
    BY <1>2, <1>3, <1>4 DEF TargetInv, TargetParts

\* Every variable keeps its type, and no pulse moves the target of a thread twice,
\* although its flag is looked at and cleared in three places, for every number of
\* pulses per revolution that the model tells apart, all lengths of a thread, planners
\* of every size and any number of lines and resets (protocol.c:316-321,
\* planner.c:264-266).
THEOREM TargetFollowsSpindle == Spec => []ThSafe
  <1>1. TargetInv => ThSafe
    <2> SUFFICES ASSUME TargetInv, Threads # {} /\ ~abort
                 PROVE  Millimeters - threading_millimeters_target <= pulses
      BY DEF TargetInv, ThSafe, NeverAheadOfSpindle
    <2>1. threading_millimeters_target \in Int /\ pulses \in Int /\ Unused \in Nat
      BY ThreadingAssumption DEF TargetInv, ThTypeOK, MotionTypeOK, Unused
    <2> QED
      BY <2>1, ThreadingAssumption DEF TargetInv, TargetBehind
  <1> QED
    BY <1>1, InitThInv, InitTargetInv, NextThInv, NextTargetInv, PTL DEF Spec

-----------------------------------------------------------------------------
(* Arithmetic modulo n.                                                    *)

LEMMA Division ==
  ASSUME NEW a \in Int, NEW n \in Nat \ {0} PROVE \E q \in Int : a = q * n + (a % n)
  <1> DEFINE q == a \div n
  <1>1. a = n * (a \div n) + (a % n) /\ a \div n \in Int
    OBVIOUS
  <1>2. q * n = n * q
    BY <1>1
  <1> QED
    BY <1>1, <1>2

LEMMA OneRemainder ==
  ASSUME NEW n \in Nat \ {0}, NEW r \in 0 .. n - 1, NEW s \in 0 .. n - 1, NEW k \in Int,
         r = s + k * n
  PROVE  r = s
  <1>1. CASE k >= 1
    <2>1. k * n >= n
      BY <1>1
    <2> QED
      BY <2>1
  <1>2. CASE k <= -1
    <2>1. k * n <= -n
      BY <1>2
    <2> QED
      BY <2>1
  <1> QED
    BY <1>1, <1>2

LEMMA Remainder ==
  ASSUME NEW n \in Nat \ {0}, NEW a \in Int, NEW q \in Int, NEW r \in 0 .. n - 1, a = q * n + r
  PROVE  a % n = r
  <1>1. PICK p \in Int : a = p * n + (a % n)
    BY Division
  <1>2. a % n \in 0 .. n - 1
    OBVIOUS
  <1>3. a % n = r + (q - p) * n
    <2>1. (q - p) * n = q * n - p * n
      OBVIOUS
    <2> QED
      BY <1>1, <1>2, <2>1
  <1> QED
    BY <1>2, <1>3, q - p \in Int, OneRemainder

LEMMA CongruentMod ==
  ASSUME NEW n \in Nat \ {0}, NEW a \in Int, NEW b \in Int, Congruent(a, b, n)
  PROVE  a % n = b % n
  <1>1. PICK k \in Int : a = b + k * n
    BY DEF Congruent
  <1>2. PICK q \in Int : b = q * n + (b % n)
    BY Division
  <1>3. a = (q + k) * n + (b % n)
    <2>1. (q + k) * n = q * n + k * n /\ q * n \in Int /\ k * n \in Int /\ b % n \in Int
      OBVIOUS
    <2> QED
      BY <1>1, <1>2, <2>1
  <1> QED
    BY <1>3, q + k \in Int, b % n \in 0 .. n - 1, Remainder

LEMMA ModCongruent ==
  ASSUME NEW n \in Nat \ {0}, NEW a \in Int PROVE Congruent(a % n, a, n)
  <1>1. PICK q \in Int : a = q * n + (a % n)
    BY Division
  <1>2. a % n = a + (-q) * n
    <2>1. (-q) * n = -(q * n) /\ q * n \in Int /\ a % n \in Int
      OBVIOUS
    <2> QED
      BY <1>1, <2>1
  <1> QED
    BY <1>2, -q \in Int DEF Congruent

LEMMA CongruentSelf == ASSUME NEW n \in Nat \ {0}, NEW a \in Int PROVE Congruent(a, a, n)
  BY a = a + 0 * n DEF Congruent

LEMMA CongruentSum ==
  ASSUME NEW n \in Nat \ {0}, NEW a \in Int, NEW b \in Int, NEW c \in Int, NEW d \in Int,
         Congruent(a, b, n), Congruent(c, d, n)
  PROVE  Congruent(a + c, b + d, n) /\ Congruent(a - c, b - d, n)
  <1>1. PICK k \in Int : a = b + k * n
    BY DEF Congruent
  <1>2. PICK l \in Int : c = d + l * n
    BY DEF Congruent
  <1>3. /\ (k + l) * n = k * n + l * n /\ (k - l) * n = k * n - l * n
        /\ k * n \in Int /\ l * n \in Int
    OBVIOUS
  <1>4. a + c = b + d + (k + l) * n /\ a - c = b - d + (k - l) * n
    BY <1>1, <1>2, <1>3
  <1> QED
    BY <1>4, k + l \in Int, k - l \in Int DEF Congruent

LEMMA CongruentStep ==
  ASSUME NEW n \in Nat \ {0}, NEW a \in Int, NEW b \in Int, NEW c \in Int,
         Congruent(a, b, n), Congruent(b, c, n)
  PROVE  Congruent(a, c, n) /\ Congruent(b, a, n)
  <1>1. PICK k \in Int : a = b + k * n
    BY DEF Congruent
  <1>2. PICK l \in Int : b = c + l * n
    BY DEF Congruent
  <1>3. (k + l) * n = k * n + l * n /\ (-k) * n = -(k * n) /\ k * n \in Int /\ l * n \in Int
    OBVIOUS
  <1>4. a = c + (k + l) * n /\ b = a + (-k) * n
    BY <1>1, <1>2, <1>3
  <1> QED
    BY <1>4, k + l \in Int, -k \in Int DEF Congruent

-----------------------------------------------------------------------------
(* Whole periods.                                                          *)

\* The counter never carries into the overflows, and fits in the word with them.
LEMMA CounterFits ==
  ASSUME ClockNumbers, WholePeriods
  PROVE  /\ TCNT5 + overflow_offset \in 0 .. WORD - 1
         /\ (TCNT5 + overflow_offset) % WORD = TCNT5 + overflow_offset
         /\ (TCNT5 + overflow_offset) % PERIOD = TCNT5
  <1> USE ClockAssumption, WordType DEF ClockNumbers
  <1>1. PICK k \in 0 .. PERIODS - 1 : overflow_offset = k * PERIOD
    BY DEF WholePeriods
  <1>2. k * PERIOD + PERIOD <= WORD
    <2>1. (k + 1) * PERIOD = k * PERIOD + PERIOD /\ k + 1 <= PERIODS
      OBVIOUS
    <2>2. (k + 1) * PERIOD <= PERIODS * PERIOD /\ PERIODS * PERIOD = WORD
      BY <2>1 DEF WORD
    <2> QED
      BY <2>1, <2>2
  <1>3. TCNT5 + overflow_offset \in 0 .. WORD - 1
    BY <1>1, <1>2
  <1>4. (TCNT5 + overflow_offset) % WORD = TCNT5 + overflow_offset
    BY <1>3, TCNT5 + overflow_offset = 0 * WORD + (TCNT5 + overflow_offset), Remainder
  <1>5. (TCNT5 + overflow_offset) % PERIOD = TCNT5
    BY <1>1, TCNT5 + overflow_offset = k * PERIOD + TCNT5, Remainder
  <1> QED
    BY <1>3, <1>4, <1>5

LEMMA OverflowKeepsWhole ==
  ASSUME WholePeriods, overflow_offset' = (overflow_offset + PERIOD) % WORD
  PROVE  WholePeriods'
  <1> USE ClockAssumption, WordType DEF WholePeriods
  <1>1. PICK k \in 0 .. PERIODS - 1 : overflow_offset = k * PERIOD
    OBVIOUS
  <1>2. (k + 1) * PERIOD = k * PERIOD + PERIOD /\ k * PERIOD \in Nat /\ PERIODS * PERIOD = WORD
    BY DEF WORD
  <1>3. CASE k + 1 = PERIODS
    <2>1. overflow_offset + PERIOD = 1 * WORD + 0
      BY <1>1, <1>2, <1>3
    <2>2. overflow_offset' = 0
      BY <1>1, <1>2, <2>1, Remainder
    <2> QED
      BY <2>2, 0 = 0 * PERIOD
  <1>4. CASE k + 1 \in 0 .. PERIODS - 1
    <2>1. (k + 1) * PERIOD <= (PERIODS - 1) * PERIOD /\ (PERIODS - 1) * PERIOD = WORD - PERIOD
      BY <1>2, <1>4
    <2>2. overflow_offset + PERIOD \in 0 .. WORD - 1
      BY <1>1, <1>2, <2>1
    <2>3. overflow_offset' = overflow_offset + PERIOD
      BY <2>2, overflow_offset + PERIOD = 0 * WORD + (overflow_offset + PERIOD), Remainder
    <2> QED
      BY <1>1, <1>2, <1>4, <2>3
  <1> QED
    BY <1>3, <1>4

-----------------------------------------------------------------------------
(* Every step keeps the clock.                                             *)

\* One tick is one tick, also when the counter overflows.
LEMMA TickCounts ==
  ASSUME ClockNumbers, TOV5 \in BOOLEAN, Count
  PROVE  /\ Now' = Now + 1 /\ overflow_offset' = overflow_offset /\ ticks' = ticks
         /\ ~TOV5' => ~TOV5 /\ TCNT5' = TCNT5 + 1
  <1> USE ClockAssumption DEF ClockNumbers
  <1>1. overflow_offset' = overflow_offset /\ ticks' = ticks /\ TCNT5' = (TCNT5 + 1) % PERIOD
    BY DEF Count
  <1>2. CASE TCNT5 = PERIOD - 1
    <2>1. TOV5' /\ ~TOV5
      BY <1>2, Zenon DEF Count
    <2>2. TCNT5' = 0
      BY <1>1, <1>2, TCNT5 + 1 = 1 * PERIOD + 0, Remainder
    <2> QED
      BY <1>1, <1>2, <2>1, <2>2 DEF Now
  <1>3. CASE TCNT5 # PERIOD - 1
    <2>1. (TOV5' => TOV5) /\ (TOV5 => TOV5')
      BY <1>3, Zenon DEF Count
    <2>2. TCNT5' = TCNT5 + 1
      BY <1>1, <1>3, TCNT5 + 1 = 0 * PERIOD + (TCNT5 + 1), TCNT5 + 1 \in 0 .. PERIOD - 1, Remainder
    <2> QED
      BY <1>1, <2>1, <2>2 DEF Now
  <1> QED
    BY <1>2, <1>3

\* The overflow interrupt changes how the time is kept, not the time.
LEMMA OverflowKeepsNow ==
  ASSUME ClockNumbers, Overflow PROVE Congruent(Now', Now, WORD)
  <1> USE ClockAssumption, WordType DEF ClockNumbers
  <1> DEFINE sum == overflow_offset + PERIOD
  <1>1. Now = sum + TCNT5 /\ Now' = (sum % WORD) + TCNT5
    BY DEF Overflow, Now
  <1>2. sum \in Int /\ TCNT5 \in Int
    OBVIOUS
  <1> HIDE DEF sum
  <1>3. sum % WORD \in Int
    BY <1>2
  <1>4. Congruent(sum % WORD, sum, WORD)
    BY <1>2, ModCongruent
  <1>5. Congruent(TCNT5, TCNT5, WORD)
    BY <1>2, CongruentSelf
  <1> QED
    BY <1>1, <1>2, <1>3, <1>4, <1>5, CongruentSum

LEMMA PulseMeasured ==
  ASSUME ClockNumbers, WholePeriods, FirstReadingGood, ProcessIndexPulse
  PROVE  /\ Congruent(threading_index_Last_timer_tics' + since_index', Now, WORD)
         /\ threading_index_Last_timer_tics' \in Int /\ since_index' \in Int
  <1> USE ClockAssumption, WordType DEF ClockNumbers
  <1>1. CASE TOV5
    <2>1. /\ threading_index_Last_timer_tics' = Now % WORD /\ since_index' = 0 /\ Now \in Int
      <3>1. Now = TCNT5 + overflow_offset + PERIOD
        BY <1>1 DEF Now
      <3> QED
        BY <1>1, <3>1 DEF ProcessIndexPulse, TicksRead
    <2> QED
      BY <2>1, ModCongruent, Now % WORD \in Int
  <1>2. CASE ~TOV5
    <2> DEFINE d == overflow_offset + TCNT5 - ticks
    <2>1. d \in 0 .. 1 /\ d \in 0 .. PERIOD - 1
      BY <1>2 DEF FirstReadingGood, ProcessIndexPulse, At
    <2>2. PICK k \in 0 .. PERIODS - 1 : overflow_offset = k * PERIOD
      BY DEF WholePeriods
    <2>3. (-k) * PERIOD = -(k * PERIOD) /\ k * PERIOD \in Int
      OBVIOUS
    <2>4. TCNT5 - ticks = (-k) * PERIOD + d
      BY <2>2, <2>3
    <2>5. (TCNT5 - ticks) % PERIOD = d
      <3> HIDE DEF d
      <3> QED
        BY <2>1, <2>4, -k \in Int, Remainder
    <2>6. threading_index_Last_timer_tics' = ticks /\ since_index' = d
      BY <1>2, <2>5 DEF ProcessIndexPulse, TicksRead
    <2>7. threading_index_Last_timer_tics' + since_index' = Now /\ Now \in Int
      BY <1>2, <2>6 DEF Now
    <2> QED
      BY <2>1, <2>6, <2>7, CongruentSelf
  <1> QED
    BY <1>1, <1>2

LEMMA FirstReadingStep ==
  ASSUME ClockNumbers, TOV5 \in BOOLEAN, WholePeriods, FirstReadingGood, [Next]_vars
  PROVE  FirstReadingGood'
  <1> USE ClockAssumption DEF ClockNumbers
  <1>1. CASE Tick
    <2> SUFFICES ASSUME pc' = "process", ~TOV5'
                 PROVE  ticks' = overflow_offset' + TCNT5' - 1 /\ TCNT5' > 0
      BY DEF FirstReadingGood
    <2>1. /\ pc = "process" /\ ~TOV5 /\ TCNT5 = ticks % PERIOD
          /\ TCNT5' = TCNT5 + 1 /\ overflow_offset' = overflow_offset /\ ticks' = ticks
      BY <1>1, TickCounts DEF Tick
    <2>2. ticks = overflow_offset + TCNT5
      <3>1. SUFFICES ASSUME ticks = overflow_offset + TCNT5 - 1, TCNT5 > 0 PROVE FALSE
        BY <2>1 DEF FirstReadingGood
      <3>2. PICK k \in 0 .. PERIODS - 1 : overflow_offset = k * PERIOD
        BY DEF WholePeriods
      <3>3. ticks % PERIOD = TCNT5 - 1
        BY <3>1, <3>2, ticks = k * PERIOD + (TCNT5 - 1), TCNT5 - 1 \in 0 .. PERIOD - 1, Remainder
      <3> QED
        BY <2>1, <3>3
    <2> QED
      BY <2>1, <2>2
  <1>2. CASE ReadTicks
    BY <1>2, CounterFits DEF ReadTicks, FirstReading, FirstReadingGood
  <1>3. CASE pc' # "process"
    BY <1>3 DEF FirstReadingGood
  <1>4. CASE UNCHANGED <<pc, clockVars>>
    BY <1>4 DEF FirstReadingGood
  <1>5. Tick \/ ReadTicks \/ pc' # "process" \/ UNCHANGED <<pc, clockVars>>
    BY DEF Next, MainProgram, ExecRtSystem, Interrupt, InterruptsOn, vars, OverflowInterrupt,
       IndexPulse, SyncPulse, RxReset, TestIndex, ProcessIndexPulse, ClearIndex, ProcessSyncPulse,
       ClearSync, ServeFlags, PrepBuffer, At, Loop, ReadLine, EndOfLine, NoMoreLines, OtherLine,
       Poll, Polled, Synchronize, WaitIndex, WaitSync, McLine, Restart, Main, GoOn, PollIn,
       Executed, ExecuteLine
  <1> QED
    BY <1>1, <1>2, <1>3, <1>4, <1>5

LEMMA NextClockInv == ThTypeOK /\ ClockInv /\ [Next]_vars => ClockInv'
  <1> SUFFICES ASSUME ThTypeOK, ClockInv, [Next]_vars PROVE ClockInv'
    OBVIOUS
  <1> USE DEF ClockInv
  <1>1. ClockNumbers /\ TOV5 \in BOOLEAN /\ PulseTypeOK
    BY TypesInParts DEF Switches
  <1>2. FirstReadingGood'
    BY <1>1, FirstReadingStep
  <1>3. /\ \/ UNCHANGED <<clockVars, threading_index_Last_timer_tics, since_index>>
           \/ Tick \/ OverflowInterrupt \/ ReadTicks \/ ProcessIndexPulse
           \/ TimekeeperReset /\ since_index' = NONE
    BY DEF Next, MainProgram, ExecRtSystem, Interrupt, vars, IndexPulse, SyncPulse, RxReset,
       TestIndex, ClearIndex, ProcessSyncPulse, ClearSync, ServeFlags, PrepBuffer, At, Loop,
       ReadLine, EndOfLine, NoMoreLines, OtherLine, Poll, Polled, Synchronize, WaitIndex, WaitSync,
       McLine, Restart, UnchangedData
  <1>4. WholePeriods'
    <2>1. CASE TimekeeperReset
      BY <2>1, ClockAssumption, 0 = 0 * PERIOD DEF TimekeeperReset, WholePeriods
    <2>2. CASE OverflowInterrupt
      BY <2>2, OverflowKeepsWhole DEF OverflowInterrupt, Overflow
    <2>3. CASE UNCHANGED overflow_offset
      BY <2>3 DEF WholePeriods
    <2> QED
      BY <1>3, <2>1, <2>2, <2>3 DEF Tick, Count, ReadTicks, ProcessIndexPulse
  <1>5. SinceLast'
    <2> USE WordType
    <2> DEFINE last == threading_index_Last_timer_tics
    <2>1. last \in Int /\ since_index \in Int /\ Now \in Int
      BY <1>1, ClockAssumption DEF PulseTypeOK, ClockNumbers, Now
    <2>2. CASE TimekeeperReset /\ since_index' = NONE
      BY <2>2 DEF SinceLast
    <2>3. CASE UNCHANGED <<clockVars, last, since_index>>
      BY <2>3 DEF SinceLast, Now
    <2>4. CASE ReadTicks
      BY <2>4 DEF ReadTicks, SinceLast, Now
    <2>5. CASE ProcessIndexPulse
      <3>1. Now' = Now
        BY <2>5 DEF ProcessIndexPulse, Now
      <3> QED
        BY <1>1, <2>5, <3>1, PulseMeasured DEF SinceLast
    <2>6. CASE OverflowInterrupt
      <3> SUFFICES ASSUME since_index # NONE PROVE Congruent(last + since_index, Now', WORD)
        BY <2>6 DEF OverflowInterrupt, SinceLast
      <3>0. Now' \in Int
        BY <1>1, <2>6, ClockAssumption, ModType
           DEF OverflowInterrupt, Overflow, Now, ClockNumbers
      <3>1. Congruent(Now', Now, WORD) /\ Now' \in Int
        BY <1>1, <2>6, <3>0, OverflowKeepsNow DEF OverflowInterrupt
      <3>2. Congruent(Now, Now', WORD)
        BY <2>1, <3>1, CongruentSelf, CongruentStep
      <3>3. last + since_index \in Int /\ Congruent(last + since_index, Now, WORD)
        BY <2>1 DEF SinceLast
      <3> QED
        BY <2>1, <3>1, <3>2, <3>3, CongruentStep
    <2>7. CASE Tick
      <3> SUFFICES ASSUME since_index # NONE PROVE Congruent(last + since_index', Now', WORD)
        BY <2>7 DEF Tick, SinceLast
      <3>1. Now' = Now + 1 /\ since_index' = (since_index + 1) % WORD
        BY <1>1, <2>7, TickCounts DEF Tick
      <3> DEFINE next == since_index + 1
      <3>2. next \in Int /\ next % WORD \in Int
        BY <2>1
      <3>3. Congruent(next % WORD, next, WORD)
        <4> HIDE DEF next
        <4> QED
          BY <3>2, ModCongruent
      <3>4. Congruent(last + (next % WORD), last + next, WORD)
        <4> HIDE DEF next
        <4> QED
          BY <2>1, <3>2, <3>3, CongruentSelf, CongruentSum
      <3>5. Congruent(last + since_index, Now, WORD) /\ last + since_index \in Int
        BY <2>1 DEF SinceLast
      <3>6. Congruent((last + since_index) + 1, Now + 1, WORD)
        BY <2>1, <3>5, 1 \in Int, CongruentSelf, CongruentSum
      <3>7. (last + since_index) + 1 = last + next
        BY <2>1
      <3> HIDE DEF next
      <3>8. last + next \in Int /\ last + (next % WORD) \in Int /\ Now + 1 \in Int
        BY <2>1, <3>2
      <3> QED
        BY <3>1, <3>4, <3>6, <3>7, <3>8, CongruentStep DEF next
    <2> QED
      BY <1>3, <2>2, <2>3, <2>4, <2>5, <2>6, <2>7
  <1> QED
    BY <1>2, <1>4, <1>5

\* The measured time between two index pulses is the time that has passed, to the tick,
\* for counters of every width and every number of overflows: around and inside
\* get_timer_ticks(), and when the word wraps (threading.c:68-69, timekeeper.c:64-72).
THEOREM IntervalsAlwaysExact == Spec => IntervalsExact
  <1>1. Init => ClockInv
    BY ClockAssumption, 0 = 0 * PERIOD
       DEF Init, ClockInit, ClockInv, WholePeriods, FirstReadingGood, SinceLast
  <1>2. TargetInv => ThTypeOK
    BY DEF TargetInv
  <1>3. ThTypeOK /\ ClockInv
          => [ProcessIndexPulse /\ since_index # NONE
                => (threading_index_Last_timer_tics' - threading_index_Last_timer_tics) % WORD
                     = (since_index - since_index') % WORD]_vars
    <2> SUFFICES ASSUME ThTypeOK, ClockInv, ProcessIndexPulse, since_index # NONE
                 PROVE  (threading_index_Last_timer_tics' - threading_index_Last_timer_tics) % WORD
                          = (since_index - since_index') % WORD
      OBVIOUS
    <2> DEFINE last == threading_index_Last_timer_tics
    <2>1. ClockNumbers /\ last \in Int /\ since_index \in Int
      BY TypesInParts, WordType DEF PulseTypeOK
    <2>2. /\ Congruent(last' + since_index', Now, WORD) /\ last' \in Int /\ since_index' \in Int
      BY <2>1, PulseMeasured DEF ClockInv
    <2>3. Congruent(last + since_index, Now, WORD)
      BY DEF ClockInv, SinceLast
    <2>4. PICK k \in Int : last' + since_index' = Now + k * WORD
      BY <2>2 DEF Congruent
    <2>5. PICK l \in Int : last + since_index = Now + l * WORD
      BY <2>3 DEF Congruent
    <2>6. /\ (k - l) * WORD = k * WORD - l * WORD /\ k * WORD \in Int /\ l * WORD \in Int
          /\ Now \in Int
      BY <2>1, WordType, ClockAssumption DEF ClockNumbers, Now
    <2>7. last' - last = (since_index - since_index') + (k - l) * WORD
      BY <2>1, <2>2, <2>4, <2>5, <2>6
    <2> HIDE DEF last
    <2>8. Congruent(last' - last, since_index - since_index', WORD)
      BY <2>7, k - l \in Int DEF Congruent
    <2>9. last' - last \in Int /\ since_index - since_index' \in Int
      BY <2>1, <2>2
    <2> QED
      BY <2>8, <2>9, WordType, CongruentMod DEF last
  <1> QED
    BY <1>1, <1>2, <1>3, InitThInv, InitTargetInv, NextThInv, NextTargetInv, NextClockInv, PTL
       DEF Spec, IntervalsExact
=============================================================================
