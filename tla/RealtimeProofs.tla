---------------------------- MODULE RealtimeProofs ----------------------------
(***************************************************************************)
(* Proofs about module Realtime: RtInv is an invariant of every session,   *)
(* whatever its commands and lines, and what follows from it of every step.*)
(***************************************************************************)
EXTENDS Realtime, TLAPS

USE DEF sysVars, flagVars, mainVars, machineVars, boundVars, probeVars, motionVars, spindleVars,
        doorVars, MaxLines, MaxCommands, Lines, Commands

-----------------------------------------------------------------------------
(* Types.                                                                  *)

\* The names of the bits and flags, for leaves that keep the sets themselves opaque.
LEMMA Names ==
  /\ {"HOLD_COMPLETE", "RESTART_RETRACT", "RETRACT_COMPLETE", "INITIATE_RESTORE",
      "RESTORE_COMPLETE", "SAFETY_DOOR_AJAR", "MOTION_CANCEL", "JOG_CANCEL"} \subseteq SuspendBits
  /\ {"MOTION_CANCEL", "FEED_HOLD", "SAFETY_DOOR", "SLEEP", "RESET", "CYCLE_START",
      "CYCLE_STOP"} \subseteq Flags
  BY DEF SuspendBits, Flags, HoldFlags

\* What the assumption on the constants says of a session.
LEMMA SessionFacts ==
  ASSUME session \in Sessions
  PROVE  /\ MaxCommands \in Nat /\ MaxLines \in Nat
         /\ Commands \subseteq {"CYCLE_START", "FEED_HOLD", "SAFETY_DOOR", "MOTION_CANCEL", "RESET",
                                "OVR_STOP", "DOOR"}
         /\ Lines \subseteq {"line", "jog", "probe", "spindle", "soft_limit", "sleep", "unlock"}
         /\ session.sd \in BOOLEAN /\ session.panel \in BOOLEAN
  BY RealtimeAssumption DEF SessionType

\* What st_prep_buffer() leaves has the type of what it found, and the ring no more blocks.
LEMMA PrepBufferType ==
  ASSUME NEW sc \in SUBSET {"HOLD", "END"}, NEW q \in Seq(Blocks), Len(q) <= MaxQueue,
         segs \subseteq Blocks, PrepBuffer(sc, q)
  PROVE  /\ step_control' \subseteq {"HOLD", "END"}
         /\ MotionTypeOK'
<1>1. CASE "END" \in sc \/ q = <<>>
  BY <1>1 DEF PrepBuffer, MotionTypeOK
<1>2. CASE ~("END" \in sc \/ q = <<>>)
  <2>1. Head(q) \in Blocks /\ Tail(q) \in Seq(Blocks) /\ Len(Tail(q)) <= Len(q)
    BY <1>2
  <2>2. queue' \in {q, Tail(q)} /\ segs' \in {segs, segs \cup {Head(q)}}
    BY <1>2 DEF PrepBuffer
  <2>3. step_control' \subseteq {"HOLD", "END"}
    BY <1>2 DEF PrepBuffer
  <2>4. Len(Tail(q)) \in Nat /\ Len(q) \in Nat /\ MaxQueue \in Nat
    BY <2>1, RealtimeAssumption
  <2>5. queue' \in Seq(Blocks) /\ Len(queue') <= MaxQueue
    BY <2>1, <2>2, <2>4
  <2>6. segs' \subseteq Blocks
    BY <2>1, <2>2
  <2> QED BY <2>3, <2>5, <2>6 DEF MotionTypeOK
<1> QED BY <1>1, <1>2

\* An empty planner has room.
LEMMA ResetMotionType == ResetMotion => MotionTypeOK'
  BY RealtimeAssumption DEF ResetMotion, MotionTypeOK

\* A ring with room takes a block.
LEMMA AppendType ==
  ASSUME MotionTypeOK, Len(queue) < MaxQueue, NEW b \in Blocks
  PROVE  Append(queue, b) \in Seq(Blocks) /\ Len(Append(queue, b)) <= MaxQueue
  BY RealtimeAssumption DEF MotionTypeOK

\* The realtime handler keeps the types.
LEMMA RtSystemType ==
  ASSUME RtTypeOK, session' = session, RtSystem
  PROVE  RtTypeOK'
<1> USE DEF RtTypeOK
<1>1. CASE ServeAlarm
  <2>1. SysTypeOK'
    BY <1>1, Names DEF ServeAlarm, SysTypeOK, States
  <2>2. FlagTypeOK'
    BY <1>1, Names DEF ServeAlarm, FlagTypeOK, NoCopy
  <2>3. MainTypeOK'
    BY <1>1 DEF ServeAlarm, MainTypeOK, Tasks
  <2>4. SwitchTypeOK' /\ MotionTypeOK' /\ BoundTypeOK'
    BY <1>1 DEF ServeAlarm, SwitchTypeOK, MotionTypeOK, BoundTypeOK
  <2> QED BY <2>1, <2>2, <2>3, <2>4 DEF RtTypeOK
<1>2. CASE CriticalEvent
  BY <1>2 DEF CriticalEvent, RtTypeOK, SysTypeOK, FlagTypeOK, MainTypeOK, SwitchTypeOK,
     MotionTypeOK, BoundTypeOK, Flags, HoldFlags, Tasks, NoCopy, Blocks
<1>3. CASE CopyFlags
  BY <1>3 DEF CopyFlags, RtTypeOK, SysTypeOK, FlagTypeOK, MainTypeOK, SwitchTypeOK,
     MotionTypeOK, BoundTypeOK, Flags, HoldFlags, Tasks, NoCopy, Blocks
<1>4. CASE ServeHold
  <2>1. SysTypeOK'
    BY <1>4, Names DEF ServeHold, HoldFlags, SysTypeOK, States
  <2>2. FlagTypeOK'
    BY <1>4, Names DEF ServeHold, HoldFlags, FlagTypeOK, NoCopy
  <2>3. MainTypeOK'
    BY <1>4 DEF ServeHold, HoldFlags, MainTypeOK, Tasks
  <2>4. SwitchTypeOK' /\ MotionTypeOK' /\ BoundTypeOK'
    BY <1>4 DEF ServeHold, HoldFlags, SwitchTypeOK, MotionTypeOK, BoundTypeOK
  <2> QED BY <2>1, <2>2, <2>3, <2>4 DEF RtTypeOK
<1>5. CASE ServeStart
  <2>1. SysTypeOK'
    BY <1>5, Names, PrepBufferType DEF ServeStart, DoorClosed, Respin, SysTypeOK, States,
       MotionTypeOK
  <2>2. FlagTypeOK'
    BY <1>5, Names DEF ServeStart, DoorClosed, PrepBuffer, Respin, FlagTypeOK, NoCopy
  <2>3. MainTypeOK'
    BY <1>5 DEF ServeStart, DoorClosed, PrepBuffer, Respin, MainTypeOK, Tasks
  <2>4. SwitchTypeOK'
    BY <1>5, ZenonT(20) DEF ServeStart, DoorClosed, PrepBuffer, Respin, SwitchTypeOK
  <2>5. MotionTypeOK'
    BY <1>5, PrepBufferType DEF ServeStart, DoorClosed, Respin, MotionTypeOK, Blocks
  <2>6. BoundTypeOK'
    BY <1>5 DEF ServeStart, DoorClosed, PrepBuffer, Respin, BoundTypeOK
  <2> QED BY <2>1, <2>2, <2>3, <2>4, <2>5, <2>6 DEF RtTypeOK
<1>6. CASE ServeStop
  <2>1. SysTypeOK'
    BY <1>6, Names DEF ServeStop, ResetMotion, SysTypeOK, States
  <2>2. FlagTypeOK'
    BY <1>6, Names DEF ServeStop, ResetMotion, FlagTypeOK, NoCopy
  <2>3. MainTypeOK'
    BY <1>6 DEF ServeStop, ResetMotion, MainTypeOK, Tasks
  <2>4. SwitchTypeOK'
    BY <1>6, ZenonT(20) DEF ServeStop, ResetMotion, SwitchTypeOK
  <2>5. MotionTypeOK'
    BY <1>6, ResetMotionType DEF ServeStop, MotionTypeOK, Blocks
  <2>6. BoundTypeOK'
    BY <1>6 DEF ServeStop, ResetMotion, BoundTypeOK
  <2> QED BY <2>1, <2>2, <2>3, <2>4, <2>5, <2>6 DEF RtTypeOK
<1>7. CASE Finish
  <2>1. SysTypeOK'
    BY <1>7, Names, PrepBufferType DEF Finish, SysTypeOK, States, MotionTypeOK
  <2>2. FlagTypeOK'
    BY <1>7, Names DEF Finish, PrepBuffer, FlagTypeOK, NoCopy
  <2>3. MainTypeOK'
    BY <1>7 DEF Finish, PrepBuffer, MainTypeOK, Tasks
  <2>4. SwitchTypeOK'
    BY <1>7, ZenonT(20) DEF Finish, PrepBuffer, SwitchTypeOK
  <2>5. MotionTypeOK'
    <3>1. CASE PrepBuffer(step_control, queue)
      BY <3>1, PrepBufferType DEF SysTypeOK, MotionTypeOK
    <3>2. CASE UNCHANGED <<queue, segs>>
      BY <3>2 DEF MotionTypeOK
    <3> QED BY <1>7, <3>1, <3>2 DEF Finish
  <2>6. BoundTypeOK'
    BY <1>7 DEF Finish, PrepBuffer, BoundTypeOK
  <2> QED BY <2>1, <2>2, <2>3, <2>4, <2>5, <2>6 DEF RtTypeOK
<1>8. CASE Abort
  <2>1. SysTypeOK'
    BY <1>8, Names DEF Abort, AfterReset, CallRtSystem, ResetMotion, SysTypeOK, States
  <2>2. FlagTypeOK'
    BY <1>8, Names DEF Abort, AfterReset, CallRtSystem, ResetMotion, FlagTypeOK, NoCopy
  <2>3. MainTypeOK'
    BY <1>8 DEF Abort, AfterReset, CallRtSystem, ResetMotion, MainTypeOK, Tasks
  <2>4. SwitchTypeOK'
    BY <1>8, ZenonT(20) DEF Abort, AfterReset, CallRtSystem, ResetMotion, SwitchTypeOK
  <2>5. MotionTypeOK'
    BY <1>8, ResetMotionType DEF Abort, AfterReset, CallRtSystem, MotionTypeOK, Blocks
  <2>6. BoundTypeOK'
    BY <1>8 DEF Abort, AfterReset, CallRtSystem, ResetMotion, BoundTypeOK
  <2> QED BY <2>1, <2>2, <2>3, <2>4, <2>5, <2>6 DEF RtTypeOK
<1> QED BY <1>1, <1>2, <1>3, <1>4, <1>5, <1>6, <1>7, <1>8 DEF RtSystem

\* The suspend loop keeps the types.
LEMMA SuspendType ==
  ASSUME RtTypeOK, session' = session, Suspend
  PROVE  RtTypeOK'
<1> USE DEF RtTypeOK
<1>1. CASE SuspendWait
  BY <1>1 DEF SuspendWait, CallRtSystem, RtTypeOK, SysTypeOK, FlagTypeOK, MainTypeOK,
     SwitchTypeOK, MotionTypeOK, BoundTypeOK, Flags, HoldFlags, Tasks, NoCopy, Blocks
<1>2. CASE Retract
  <2>1. SysTypeOK'
    BY <1>2, Names DEF Retract, CallRtSystem, Deenergize, SysTypeOK, States
  <2>2. MainTypeOK'
    BY <1>2 DEF Retract, CallRtSystem, Deenergize, MainTypeOK, Tasks
  <2>3. SwitchTypeOK'
    BY <1>2, ZenonT(20) DEF Retract, CallRtSystem, Deenergize, SwitchTypeOK
  <2>4. FlagTypeOK' /\ MotionTypeOK' /\ BoundTypeOK'
    BY <1>2 DEF Retract, CallRtSystem, Deenergize, FlagTypeOK, MotionTypeOK, BoundTypeOK
  <2> QED BY <2>1, <2>2, <2>3, <2>4 DEF RtTypeOK
<1>3. CASE Sleep
  <2>1. MainTypeOK'
    BY <1>3 DEF Sleep, CallRtSystem, Deenergize, MainTypeOK, Tasks
  <2>2. SwitchTypeOK'
    BY <1>3, ZenonT(20) DEF Sleep, CallRtSystem, Deenergize, SwitchTypeOK
  <2>3. SysTypeOK' /\ FlagTypeOK' /\ MotionTypeOK' /\ BoundTypeOK'
    BY <1>3 DEF Sleep, CallRtSystem, Deenergize, SysTypeOK, FlagTypeOK, MotionTypeOK,
       BoundTypeOK
  <2> QED BY <2>1, <2>2, <2>3 DEF RtTypeOK
<1>4. CASE DoorWait
  <2>1. SysTypeOK'
    BY <1>4, Names DEF DoorWait, CallRtSystem, SysTypeOK, States
  <2>2. FlagTypeOK'
    BY <1>4, Names DEF DoorWait, CallRtSystem, FlagTypeOK, NoCopy
  <2>3. MainTypeOK'
    BY <1>4 DEF DoorWait, CallRtSystem, MainTypeOK, Tasks
  <2>4. SwitchTypeOK'
    BY <1>4, ZenonT(20) DEF DoorWait, CallRtSystem, SwitchTypeOK
  <2>5. MotionTypeOK' /\ BoundTypeOK'
    BY <1>4 DEF DoorWait, CallRtSystem, MotionTypeOK, BoundTypeOK
  <2> QED BY <2>1, <2>2, <2>3, <2>4, <2>5 DEF RtTypeOK
<1>5. CASE Restoring
  <2>1. SysTypeOK'
    BY <1>5, Names DEF Restoring, CallRtSystem, SysTypeOK, States
  <2>2. FlagTypeOK'
    BY <1>5, Names DEF Restoring, CallRtSystem, FlagTypeOK, NoCopy
  <2>3. MainTypeOK'
    BY <1>5 DEF Restoring, CallRtSystem, MainTypeOK, Tasks
  <2>4. SwitchTypeOK' /\ MotionTypeOK' /\ BoundTypeOK'
    BY <1>5 DEF Restoring, CallRtSystem, SwitchTypeOK, MotionTypeOK, BoundTypeOK
  <2> QED BY <2>1, <2>2, <2>3, <2>4 DEF RtTypeOK
<1>6. CASE HoldManager
  <2>1. SysTypeOK'
    BY <1>6, Names DEF HoldManager, CallRtSystem, SysTypeOK, States
  <2>2. FlagTypeOK'
    BY <1>6, Names DEF HoldManager, CallRtSystem, FlagTypeOK, NoCopy
  <2>3. MainTypeOK'
    BY <1>6 DEF HoldManager, CallRtSystem, MainTypeOK, Tasks
  <2>4. SwitchTypeOK'
    BY <1>6, ZenonT(20) DEF HoldManager, CallRtSystem, SwitchTypeOK
  <2>5. MotionTypeOK' /\ BoundTypeOK'
    BY <1>6 DEF HoldManager, CallRtSystem, MotionTypeOK, BoundTypeOK
  <2> QED BY <2>1, <2>2, <2>3, <2>4, <2>5 DEF RtTypeOK
<1> QED BY <1>1, <1>2, <1>3, <1>4, <1>5, <1>6 DEF Suspend

\* The main program keeps the types.
LEMMA MainType ==
  ASSUME RtTypeOK, session' = session, Main
  PROVE  RtTypeOK'
<1> USE DEF RtTypeOK
<1>1. CASE MainLoop
  BY <1>1 DEF MainLoop, AtMain, AutoCycleStart, CallRtSystem, PollThen, RtTypeOK, SysTypeOK,
     FlagTypeOK, MainTypeOK, SwitchTypeOK, MotionTypeOK, BoundTypeOK, Flags, HoldFlags, Tasks,
     NoCopy, Blocks
<1>2. CASE SoftStop
  BY <1>2 DEF SoftStop, AtMain, CallRtSystem, PollThen, RtTypeOK, SysTypeOK, FlagTypeOK,
     MainTypeOK, SwitchTypeOK, MotionTypeOK, BoundTypeOK, Flags, HoldFlags, Tasks, NoCopy,
     Blocks
<1>3. CASE SoftReset
  <2>1. FlagTypeOK'
    BY <1>3, Names DEF SoftReset, AtMain, CallRtSystem, InMotion, PollThen, StopMachine,
       FlagTypeOK, NoCopy
  <2>2. MainTypeOK'
    BY <1>3 DEF SoftReset, AtMain, CallRtSystem, InMotion, PollThen, StopMachine, MainTypeOK,
       Tasks
  <2>3. SwitchTypeOK'
    BY <1>3, ZenonT(20) DEF SoftReset, AtMain, CallRtSystem, InMotion, PollThen, StopMachine,
       SwitchTypeOK
  <2>4. SysTypeOK' /\ MotionTypeOK' /\ BoundTypeOK'
    BY <1>3 DEF SoftReset, AtMain, CallRtSystem, InMotion, PollThen, StopMachine, SysTypeOK,
       MotionTypeOK, BoundTypeOK
  <2> QED BY <2>1, <2>2, <2>3, <2>4 DEF RtTypeOK
<1>4. CASE WaitForRoom
  BY <1>4 DEF WaitForRoom, AutoCycleStart, CallRtSystem, PollThen, RtTypeOK, SysTypeOK,
     FlagTypeOK, MainTypeOK, SwitchTypeOK, MotionTypeOK, BoundTypeOK, Flags, HoldFlags, Tasks,
     NoCopy, Blocks
<1>5. CASE QueueLine
  <2>1. MotionTypeOK'
    BY <1>5, AppendType DEF QueueLine, MotionTypeOK, Blocks
  <2> QED BY <1>5, <2>1 DEF QueueLine, AtMain, RtTypeOK, SysTypeOK, FlagTypeOK, MainTypeOK,
                            SwitchTypeOK, BoundTypeOK, Tasks
<1>6. CASE QueueJog
  <2> DEFINE q == Append(queue, "jog")
  <2>1. q \in Seq(Blocks) /\ Len(q) <= MaxQueue
    BY <1>6, AppendType DEF QueueJog, Blocks
  <2>2. \/ state' = "JOG" /\ PrepBuffer(step_control, q)
        \/ queue' = q /\ UNCHANGED <<state, step_control, segs>>
    BY <1>6 DEF QueueJog
  <2>3. UNCHANGED <<suspend, spindle_stop_ovr>>
    BY <1>6 DEF QueueJog
  <2> HIDE DEF q
  <2>4. SysTypeOK' /\ MotionTypeOK'
    <3>1. CASE state' = "JOG" /\ PrepBuffer(step_control, q)
      <4>1. step_control' \subseteq {"HOLD", "END"} /\ MotionTypeOK'
        BY <2>1, <3>1, PrepBufferType DEF SysTypeOK, MotionTypeOK
      <4> QED BY <2>3, <3>1, <4>1 DEF SysTypeOK, States
    <3>2. CASE queue' = q /\ UNCHANGED <<state, step_control, segs>>
      BY <2>1, <2>3, <3>2 DEF SysTypeOK, MotionTypeOK
    <3> QED BY <2>2, <3>1, <3>2
  <2>5. MainTypeOK'
    BY <1>6 DEF QueueJog, AtMain, MainTypeOK, Tasks
  <2>6. SwitchTypeOK'
    BY <1>6, ZenonT(20) DEF QueueJog, SwitchTypeOK
  <2>7. FlagTypeOK' /\ BoundTypeOK'
    BY <1>6 DEF QueueJog, FlagTypeOK, BoundTypeOK
  <2> QED BY <2>4, <2>5, <2>6, <2>7 DEF RtTypeOK
<1>7. CASE Synchronize
  BY <1>7 DEF Synchronize, CallRtSystem, PollThen, Synchronized, RtTypeOK, SysTypeOK,
     FlagTypeOK, MainTypeOK, SwitchTypeOK, MotionTypeOK, BoundTypeOK, Flags, HoldFlags, Tasks,
     NoCopy, Blocks
<1>8. CASE SpindleOn
  BY <1>8 DEF SpindleOn, AtMain, Synchronized, RtTypeOK, SysTypeOK, FlagTypeOK, MainTypeOK,
     SwitchTypeOK, MotionTypeOK, BoundTypeOK, Flags, HoldFlags, Tasks, NoCopy, Blocks
<1>9. CASE CheckProbe
  BY <1>9 DEF CheckProbe, AtMain, CallRtSystem, PollThen, Synchronized, RtTypeOK, SysTypeOK,
     FlagTypeOK, MainTypeOK, SwitchTypeOK, MotionTypeOK, BoundTypeOK, Flags, HoldFlags, Tasks,
     NoCopy, Blocks
<1>10. CASE StartProbe
  <2>1. MotionTypeOK'
    BY <1>10, AppendType DEF StartProbe, MotionTypeOK, Blocks
  <2>2. FlagTypeOK'
    BY <1>10, Names DEF StartProbe, FlagTypeOK
  <2> QED BY <1>10, <2>1, <2>2 DEF StartProbe, AtMain, CallRtSystem, PollThen, RtTypeOK, SysTypeOK,
                                   MainTypeOK, SwitchTypeOK, BoundTypeOK, Tasks
<1>11. CASE Probing
  BY <1>11 DEF Probing, AtMain, CallRtSystem, PollThen, RtTypeOK, SysTypeOK, FlagTypeOK,
     MainTypeOK, SwitchTypeOK, MotionTypeOK, BoundTypeOK, Flags, HoldFlags, Tasks, NoCopy,
     Blocks
<1>12. CASE ProbeEnd
  <2>1. MainTypeOK'
    BY <1>12 DEF ProbeEnd, AtMain, ResetMotion, MainTypeOK, Tasks
  <2>2. SwitchTypeOK'
    BY <1>12, ZenonT(20) DEF ProbeEnd, AtMain, ResetMotion, SwitchTypeOK
  <2>3. MotionTypeOK'
    BY <1>12, ResetMotionType DEF ProbeEnd, AtMain, MotionTypeOK, Blocks
  <2>4. SysTypeOK' /\ FlagTypeOK' /\ BoundTypeOK'
    BY <1>12 DEF ProbeEnd, AtMain, ResetMotion, SysTypeOK, FlagTypeOK, BoundTypeOK
  <2> QED BY <2>1, <2>2, <2>3, <2>4 DEF RtTypeOK
<1>13. CASE RefuseLine
  BY <1>13 DEF RefuseLine, Accepted, AtMain, RtTypeOK, SysTypeOK, FlagTypeOK, MainTypeOK,
     SwitchTypeOK, MotionTypeOK, BoundTypeOK, Flags, HoldFlags, Tasks, NoCopy, Blocks
<1>14. CASE StartSoftLimit
  BY <1>14 DEF StartSoftLimit, Accepted, AtMain, CallRtSystem, PollThen, ReadLine, RtTypeOK,
     SysTypeOK, FlagTypeOK, MainTypeOK, SwitchTypeOK, MotionTypeOK, BoundTypeOK, Flags,
     HoldFlags, Tasks, NoCopy, Blocks
<1>15. CASE StartSleep
  BY <1>15 DEF StartSleep, Accepted, AtMain, ReadLine, RtTypeOK, SysTypeOK, FlagTypeOK,
     MainTypeOK, SwitchTypeOK, MotionTypeOK, BoundTypeOK, Flags, HoldFlags, Tasks, NoCopy,
     Blocks
<1>16. CASE Unlock
  <2>1. SysTypeOK'
    BY <1>16, Names DEF Unlock, Accepted, AtMain, ReadLine, SysTypeOK, States
  <2>2. MainTypeOK'
    BY <1>16 DEF Unlock, Accepted, AtMain, ReadLine, MainTypeOK, Tasks
  <2>3. SwitchTypeOK'
    BY <1>16, ZenonT(20) DEF Unlock, Accepted, AtMain, ReadLine, SwitchTypeOK
  <2>4. FlagTypeOK' /\ MotionTypeOK' /\ BoundTypeOK'
    BY <1>16 DEF Unlock, Accepted, AtMain, ReadLine, FlagTypeOK, MotionTypeOK, BoundTypeOK
  <2> QED BY <2>1, <2>2, <2>3, <2>4 DEF RtTypeOK
<1>17. CASE \E t \in Lines : StartMotion(t)
  BY <1>17 DEF StartMotion, Accepted, AtMain, CallRtSystem, PollThen, ReadLine, RtTypeOK,
     SysTypeOK, FlagTypeOK, MainTypeOK, SwitchTypeOK, MotionTypeOK, BoundTypeOK, Flags,
     HoldFlags, Tasks, NoCopy, Blocks
<1>18. CASE \E t \in Lines : StartSync(t)
  BY <1>18 DEF StartSync, Accepted, AtMain, AutoCycleStart, CallRtSystem, PollThen, ReadLine,
     RtTypeOK, SysTypeOK, FlagTypeOK, MainTypeOK, SwitchTypeOK, MotionTypeOK, BoundTypeOK,
     Flags, HoldFlags, Tasks, NoCopy, Blocks
<1> QED BY <1>1, <1>2, <1>3, <1>4, <1>5, <1>6, <1>7, <1>8, <1>9, <1>10, <1>11, <1>12, <1>13,
        <1>14, <1>15, <1>16, <1>17, <1>18 DEF Main

\* The interrupts, the door and the polls of UITask() keep the types.
LEMMA OthersType ==
  ASSUME RtTypeOK, session' = session, EndOfLine \/ PollPins \/ Stepper \/ Serial
  PROVE  RtTypeOK'
<1> USE DEF RtTypeOK
<1>1. CASE EndOfLine
  <2>1. FlagTypeOK'
    BY <1>1, Names DEF EndOfLine, AtMain, AutoCycleStart, CallRtSystem, PollThen, FlagTypeOK,
       NoCopy
  <2>2. MainTypeOK'
    BY <1>1 DEF EndOfLine, AtMain, AutoCycleStart, CallRtSystem, PollThen, MainTypeOK, Tasks
  <2>3. BoundTypeOK'
    <3>1. MaxLines \in Nat /\ MaxCommands \in Nat /\ session.panel \in BOOLEAN
      BY SessionFacts DEF BoundTypeOK
    <3>2. panel' \in BOOLEAN /\ (panel' => session'.panel)
      BY <1>1, <3>1 DEF EndOfLine
    <3>3. lines' \in 0..MaxLines /\ commands' = commands
      BY <1>1, <3>1 DEF EndOfLine, BoundTypeOK
    <3> QED BY <3>1, <3>2, <3>3 DEF BoundTypeOK
  <2>4. SysTypeOK' /\ SwitchTypeOK' /\ MotionTypeOK'
    BY <1>1 DEF EndOfLine, AtMain, AutoCycleStart, CallRtSystem, PollThen, SysTypeOK,
       SwitchTypeOK, MotionTypeOK
  <2> QED BY <2>1, <2>2, <2>3, <2>4 DEF RtTypeOK
<1>2. CASE PollPins
  BY <1>2 DEF PollPins, RtTypeOK, SysTypeOK, FlagTypeOK, MainTypeOK, SwitchTypeOK, MotionTypeOK,
     BoundTypeOK, Flags, HoldFlags, Tasks, NoCopy, Blocks
<1>3. CASE StepEnd
  BY <1>3 DEF StepEnd, NoCopy, RtTypeOK, SysTypeOK, FlagTypeOK, MainTypeOK, SwitchTypeOK,
     MotionTypeOK, BoundTypeOK, Flags, HoldFlags, Tasks, NoCopy, Blocks
<1>4. CASE Shutdown
  <2>1. FlagTypeOK'
    BY <1>4, Names DEF Shutdown, NoCopy, FlagTypeOK, NoCopy
  <2>2. SwitchTypeOK'
    BY <1>4, ZenonT(20) DEF Shutdown, NoCopy, SwitchTypeOK
  <2>3. SysTypeOK' /\ MainTypeOK' /\ MotionTypeOK' /\ BoundTypeOK'
    BY <1>4 DEF Shutdown, NoCopy, SysTypeOK, MainTypeOK, MotionTypeOK, BoundTypeOK
  <2> QED BY <2>1, <2>2, <2>3 DEF RtTypeOK
<1>5. CASE ProbeContact
  BY <1>5 DEF ProbeContact, NoCopy, RtTypeOK, SysTypeOK, FlagTypeOK, MainTypeOK, SwitchTypeOK,
     MotionTypeOK, BoundTypeOK, Flags, HoldFlags, Tasks, NoCopy, Blocks
<1>6. CASE ProbeCancel
  BY <1>6 DEF ProbeCancel, NoCopy, RtTypeOK, SysTypeOK, FlagTypeOK, MainTypeOK, SwitchTypeOK,
     MotionTypeOK, BoundTypeOK, Flags, HoldFlags, Tasks, NoCopy, Blocks
<1>7. CASE \E c \in Commands : RxCommand(c)
  <2>1. PICK c \in Commands : RxCommand(c)
    BY <1>7
  <2>2. c \in Flags
    BY <2>1, SessionFacts, Names DEF RxCommand, BoundTypeOK
  <2>3. FlagTypeOK'
    BY <2>1, <2>2 DEF RxCommand, FlagTypeOK
  <2>4. BoundTypeOK'
    BY <2>1, SessionFacts DEF RxCommand, BoundTypeOK
  <2> QED BY <2>1, <2>3, <2>4 DEF RxCommand, SysTypeOK, MainTypeOK, SwitchTypeOK, MotionTypeOK
<1>8. CASE RxReset
  <2>1. FlagTypeOK'
    BY <1>8, Names DEF RxReset, InMotion, McReset, StopMachine, FlagTypeOK, NoCopy
  <2>2. SwitchTypeOK'
    BY <1>8, ZenonT(20) DEF RxReset, InMotion, McReset, StopMachine, SwitchTypeOK
  <2>3. BoundTypeOK'
    BY <1>8, SessionFacts DEF RxReset, InMotion, McReset, StopMachine, BoundTypeOK
  <2>4. SysTypeOK' /\ MainTypeOK' /\ MotionTypeOK'
    BY <1>8 DEF RxReset, InMotion, McReset, StopMachine, SysTypeOK, MainTypeOK, MotionTypeOK
  <2> QED BY <2>1, <2>2, <2>3, <2>4 DEF RtTypeOK
<1>9. CASE RxSpindleStop
  BY <1>9, SessionFacts DEF RxSpindleStop, RtTypeOK, SysTypeOK, FlagTypeOK, MainTypeOK,
     SwitchTypeOK, MotionTypeOK, BoundTypeOK, Flags, HoldFlags, Tasks, NoCopy, Blocks
<1>10. CASE MoveDoor
  BY <1>10, SessionFacts DEF MoveDoor, RtTypeOK, SysTypeOK, FlagTypeOK, MainTypeOK,
     SwitchTypeOK, MotionTypeOK, BoundTypeOK, Flags, HoldFlags, Tasks, NoCopy, Blocks
<1> QED BY <1>1, <1>2, <1>3, <1>4, <1>5, <1>6, <1>7, <1>8, <1>9, <1>10 DEF Stepper, Serial

-----------------------------------------------------------------------------
(* The invariant, one lemma for the steps that take a lemma per part, and  *)
(* one for each part of the program.                                       *)

\* Holds, cancels, doors and sleep keep the invariant.
LEMMA ServeHoldKeeps ==
  ASSUME RtInv, RtTypeOK', isr_copy = NoCopy, session' = session, ServeHold
  PROVE  RtInv'
<1>1. ProbingInv'
  BY SMTT(20) DEF ServeHold, HoldFlags, ProbingInv, RtInv, NoProbing,
     NoCopy, RtTypeOK, SysTypeOK, SwitchTypeOK
<1>2. SuspendInv'
  BY SMTT(20) DEF ServeHold, HoldFlags, RtInv, SuspendInv, RtTypeOK, SysTypeOK, SwitchTypeOK
<1>3. ResetInv'
  BY SMTT(20) DEF ServeHold, HoldFlags, RtInv, ResetInv, Resetting, NoProbing, NoCopy, RtTypeOK,
     SysTypeOK, SwitchTypeOK
<1>4. LockInv'
  BY SMTT(20) DEF ServeHold, HoldFlags, RtInv, LockInv, AboutToAbort, Resetting, NoProbing,
     RtTypeOK, SysTypeOK, SwitchTypeOK
<1>5. NoProbing => SleepInv'
  BY SMTT(20) DEF ServeHold, HoldFlags, RtInv, SleepInv, Served, NoProbing, RtTypeOK, SysTypeOK,
     SwitchTypeOK
<1>6. NoProbing => RestInv'
  BY SMTT(20) DEF ServeHold, HoldFlags, RtInv, RestInv, LockedAtRest, Served, CycleStopped,
     AboutToAbort, Resetting, NoProbing, RtTypeOK, SysTypeOK, SwitchTypeOK
<1>7. NoProbing => SoftLimitInv'
  BY SMTT(20) DEF ServeHold, HoldFlags, RtInv, SoftLimitInv, AboutToAbort, Resetting, NoProbing,
     RtTypeOK, SysTypeOK, SwitchTypeOK
<1>8. NoProbing => CancelInv'
  BY SMTT(20) DEF ServeHold, HoldFlags, RtInv, CancelInv, Served, NoProbing, RtTypeOK, SysTypeOK,
     SwitchTypeOK
<1>9. NoProbing /\ ~HoldBehindDoor => OverrideInv'
  BY SMTT(20) DEF ServeHold, HoldFlags, RtInv, SuspendInv, RestInv, SoftLimitInv, CancelInv,
     OverrideInv, LockedAtRest, Served, CycleStopped, AboutToAbort, Resetting, NoProbing,
     HoldBehindDoor, RtTypeOK, SysTypeOK, FlagTypeOK, MainTypeOK, SwitchTypeOK
<1>10. NoProbing => DoorInv'
  BY SMTT(20) DEF ServeHold, HoldFlags, RtInv, SuspendInv, SleepInv, RestInv, CancelInv, DoorInv,
     LockedAtRest, Served, CycleStopped, AboutToAbort, Resetting, NoProbing, RtTypeOK, SysTypeOK,
     FlagTypeOK, MainTypeOK, SwitchTypeOK
<1>11. NoProbing => DoorlessInv'
  BY SMTT(20) DEF ServeHold, HoldFlags, RtInv, DoorlessInv, NoProbing, RtTypeOK, SysTypeOK,
     SwitchTypeOK
<1>12. NoProbing => HoldlessInv'
  BY SMTT(20) DEF ServeHold, HoldFlags, RtInv, HoldlessInv, Served, NoProbing, RtTypeOK,
     SysTypeOK, SwitchTypeOK
<1>13. NoProbing /\ ~HoldBehindDoor => RestoreInv'
  BY SMTT(20) DEF ServeHold, HoldFlags, RtInv, SuspendInv, SleepInv, RestInv, CancelInv,
     OverrideInv, DoorInv, DoorlessInv, HoldlessInv, RestoreInv, LockedAtRest, RestorePending,
     Served, CycleStopped, AboutToAbort, Resetting, NoProbing, HoldBehindDoor, RtTypeOK,
     SysTypeOK, FlagTypeOK, MainTypeOK, SwitchTypeOK
<1>14. NoProbing /\ ~HoldBehindDoor => SpindleInv'
  <2> SUFFICES ASSUME NoProbing, ~HoldBehindDoor PROVE SpindleInv'
    OBVIOUS
  <2>1. UNCHANGED <<spindle, modal_spindle, spindle_stop_ovr>> /\ (Resetting' <=> Resetting)
    BY DEF ServeHold, HoldFlags, Resetting
  <2>2. state' \in {"IDLE", "CYCLE", "JOG"} => state' = state
    BY DEF ServeHold
  <2>3. state' = "HOLD" => state \in {"IDLE", "CYCLE", "HOLD"}
    BY DEF ServeHold, RtInv, RtTypeOK, SysTypeOK, States
  <2>4. state = "HOLD" /\ "HOLD_COMPLETE" \in suspend => "HOLD_COMPLETE" \in suspend'
    BY DEF ServeHold
  <2> QED BY <2>1, <2>2, <2>3, <2>4 DEF RtInv, SpindleInv
<1>15. SpindleRunsInCycle'
  BY <1>14 DEF SpindleRunsInCycle, SpindleInv, NoProbing, HoldBehindDoor
<1>16. RetractedMeansOff'
  BY SMTT(20) DEF ServeHold, HoldFlags, RtInv, SuspendInv, SleepInv, RestInv, DoorInv,
     RetractedMeansOff, LockedAtRest, Served, CycleStopped, AboutToAbort, Resetting, NoProbing,
     RtTypeOK, SysTypeOK, FlagTypeOK, MainTypeOK, SwitchTypeOK
<1>17. RestMeansStopped'
  BY <1>6 DEF RestMeansStopped, RestInv, NoProbing
<1>18. (spindle => modal_spindle)'
  BY DEF RtInv, ServeHold
<1> QED BY <1>1, <1>2, <1>3, <1>4, <1>5, <1>6, <1>7, <1>8, <1>9, <1>10, <1>11, <1>12, <1>13, <1>14, <1>15, <1>16, <1>17, <1>18 DEF RtInv, NoProbing, HoldBehindDoor

\* A cycle start keeps it.
LEMMA ServeStartKeeps ==
  ASSUME RtInv, RtTypeOK', isr_copy = NoCopy, session' = session, ServeStart
  PROVE  RtInv'
<1>1. ProbingInv'
  BY SMTT(20) DEF ServeStart, DoorClosed, PrepBuffer, Respin, ProbingInv, RtInv,
     NoProbing, NoCopy, RtTypeOK, SysTypeOK, SwitchTypeOK
<1>2. SuspendInv'
  BY SMTT(20) DEF ServeStart, DoorClosed, PrepBuffer, Respin, RtInv, SuspendInv, RtTypeOK,
     SysTypeOK, SwitchTypeOK
<1>3. ResetInv'
  BY SMTT(20) DEF ServeStart, DoorClosed, PrepBuffer, Respin, RtInv, ResetInv, Resetting,
     NoProbing, NoCopy, RtTypeOK, SysTypeOK, SwitchTypeOK
<1>4. LockInv'
  BY SMTT(20) DEF ServeStart, DoorClosed, PrepBuffer, Respin, RtInv, LockInv, AboutToAbort,
     Resetting, NoProbing, RtTypeOK, SysTypeOK, SwitchTypeOK
<1>5. NoProbing => SleepInv'
  BY SMTT(20) DEF ServeStart, DoorClosed, PrepBuffer, Respin, RtInv, SleepInv, Served, NoProbing,
     RtTypeOK, SysTypeOK, SwitchTypeOK
<1>6. NoProbing => RestInv'
  BY SMTT(20) DEF ServeStart, DoorClosed, PrepBuffer, Respin, ProbingInv, RtInv, SuspendInv,
     ResetInv, LockInv, SleepInv, RestInv, LockedAtRest, Served, CycleStopped, AboutToAbort,
     Resetting, NoProbing, NoCopy, RtTypeOK, SysTypeOK, FlagTypeOK,
     MainTypeOK, SwitchTypeOK
<1>7. NoProbing => SoftLimitInv'
  BY SMTT(20) DEF ServeStart, DoorClosed, PrepBuffer, Respin, RtInv, SoftLimitInv, AboutToAbort,
     Resetting, NoProbing, RtTypeOK, SysTypeOK, SwitchTypeOK
<1>8. NoProbing => CancelInv'
  BY SMTT(20) DEF ServeStart, DoorClosed, PrepBuffer, Respin, RtInv, CancelInv, Served, NoProbing,
     RtTypeOK, SysTypeOK, SwitchTypeOK
<1>9. NoProbing /\ ~HoldBehindDoor => OverrideInv'
  <2> SUFFICES ASSUME NoProbing, ~HoldBehindDoor PROVE OverrideInv'
    OBVIOUS
  <2>1. CASE UNCHANGED state
    BY <2>1 DEF RtInv, ServeStart, OverrideInv, CancelInv, DoorClosed, Respin, RestInv,
       CycleStopped, Served
  <2>2. CASE state' # state
    <3>1. /\ suspend' = {} /\ state' \in {"IDLE", "CYCLE"} /\ pc' = "stop"
          /\ UNCHANGED <<soft_limit, spindle_stop_ovr>>
      BY <2>2 DEF ServeStart
    <3>2. spindle_stop_ovr = {} \/ soft_limit
      BY <2>2 DEF RtInv, ServeStart, OverrideInv, RestoreInv, DoorInv, DoorClosed, Respin,
         AboutToAbort
    <3>3. "MOTION_CANCEL" \notin sys_rt_exec_state'
      BY <2>2 DEF RtInv, ServeStart, CancelInv, DoorClosed
    <3> QED BY <3>1, <3>2, <3>3 DEF OverrideInv, Served
  <2> QED BY <2>1, <2>2
<1>10. NoProbing => DoorInv'
  BY SMTT(20) DEF ServeStart, DoorClosed, PrepBuffer, Respin, RtInv, DoorInv, NoProbing, RtTypeOK,
     SysTypeOK, SwitchTypeOK
<1>11. NoProbing => DoorlessInv'
  BY SMTT(20) DEF ServeStart, DoorClosed, PrepBuffer, Respin, RtInv, DoorlessInv, NoProbing,
     RtTypeOK, SysTypeOK, SwitchTypeOK
<1>12. NoProbing => HoldlessInv'
  BY SMTT(20) DEF ServeStart, DoorClosed, PrepBuffer, Respin, RtInv, HoldlessInv, Served,
     NoProbing, RtTypeOK, SysTypeOK, SwitchTypeOK
<1>13. NoProbing /\ ~HoldBehindDoor => RestoreInv'
  BY SMTT(20) DEF ServeStart, DoorClosed, PrepBuffer, Respin, RtInv, SuspendInv, SleepInv,
     RestInv, CancelInv, OverrideInv, DoorInv, DoorlessInv, HoldlessInv, RestoreInv, LockedAtRest,
     RestorePending, Served, CycleStopped, AboutToAbort, Resetting, NoProbing, HoldBehindDoor,
     RtTypeOK, SysTypeOK, FlagTypeOK, MainTypeOK, SwitchTypeOK
<1>14. NoProbing /\ ~HoldBehindDoor => SpindleInv'
  BY SMTT(20) DEF ServeStart, DoorClosed, PrepBuffer, Respin, RtInv, SuspendInv, SleepInv,
     RestInv, SoftLimitInv, CancelInv, OverrideInv, DoorInv, RestoreInv, SpindleInv, LockedAtRest,
     RestorePending, Served, CycleStopped, AboutToAbort, Resetting, NoProbing, HoldBehindDoor,
     RtTypeOK, SysTypeOK, FlagTypeOK, MainTypeOK, SwitchTypeOK
<1>15. SpindleRunsInCycle'
  BY <1>14 DEF SpindleRunsInCycle, SpindleInv, NoProbing, HoldBehindDoor
<1>16. RetractedMeansOff'
  BY SMTT(20) DEF ServeStart, DoorClosed, PrepBuffer, Respin, RtInv, RetractedMeansOff, NoProbing,
     RtTypeOK, SysTypeOK, SwitchTypeOK
<1>17. RestMeansStopped'
  BY <1>6 DEF RestMeansStopped, RestInv, NoProbing
<1>18. (spindle => modal_spindle)'
  BY DEF RtInv, ServeStart
<1> QED BY <1>1, <1>2, <1>3, <1>4, <1>5, <1>6, <1>7, <1>8, <1>9, <1>10, <1>11, <1>12, <1>13, <1>14, <1>15, <1>16, <1>17, <1>18 DEF RtInv, NoProbing, HoldBehindDoor

\* A motion ends in a state that waits for its end.
LEMMA CycleStopFacts ==
  ASSUME RtInv, ServeStop, NoProbing, "CYCLE_STOP" \in rt_exec
  PROVE  state \in {"CYCLE", "HOLD", "JOG", "SAFETY_DOOR"} /\ "HOLD_COMPLETE" \notin suspend
<1>1. pc = "stop"
  BY DEF ServeStop
<1>2. state \notin {"ALARM", "IDLE", "SLEEP"} /\ "HOLD_COMPLETE" \notin suspend
  BY <1>1 DEF RtInv, RestInv, LockedAtRest, CycleStopped, Served, AboutToAbort, SleepInv
<1> QED BY <1>2 DEF RtInv, RtTypeOK, SysTypeOK, States

\* The end of a motion keeps it.
LEMMA ServeStopKeeps ==
  ASSUME RtInv, RtTypeOK', isr_copy = NoCopy, session' = session, ServeStop
  PROVE  RtInv'
<1>1. ProbingInv'
  BY SMTT(20) DEF ServeStop, ResetMotion, ProbingInv, RtInv, NoProbing,
     NoCopy, RtTypeOK, SysTypeOK, SwitchTypeOK
<1>2. SuspendInv'
  BY SMTT(20) DEF ServeStop, ResetMotion, RtInv, SuspendInv, RtTypeOK, SysTypeOK, SwitchTypeOK
<1>3. ResetInv'
  BY SMTT(20) DEF ServeStop, ResetMotion, RtInv, ResetInv, Resetting, NoProbing, NoCopy, RtTypeOK,
     SysTypeOK, SwitchTypeOK
<1>4. LockInv'
  BY SMTT(20) DEF ServeStop, ResetMotion, RtInv, LockInv, AboutToAbort, Resetting, NoProbing,
     RtTypeOK, SysTypeOK, SwitchTypeOK
<1>5. NoProbing => SleepInv'
  BY SMTT(20) DEF ServeStop, ResetMotion, RtInv, SleepInv, Served, NoProbing, RtTypeOK, SysTypeOK,
     SwitchTypeOK
<1>6. NoProbing => RestInv'
  BY SMTT(20) DEF ServeStop, ResetMotion, RtInv, RestInv, LockedAtRest, Served, CycleStopped,
     AboutToAbort, Resetting, NoProbing, RtTypeOK, SysTypeOK, SwitchTypeOK
<1>7. NoProbing => SoftLimitInv'
  BY SMTT(20) DEF ServeStop, ResetMotion, RtInv, SoftLimitInv, AboutToAbort, Resetting, NoProbing,
     RtTypeOK, SysTypeOK, SwitchTypeOK
<1>8. NoProbing => CancelInv'
  BY SMTT(20) DEF ServeStop, ResetMotion, RtInv, CancelInv, Served, NoProbing, RtTypeOK,
     SysTypeOK, SwitchTypeOK
<1>9. NoProbing /\ ~HoldBehindDoor => OverrideInv'
  <2> SUFFICES ASSUME NoProbing, ~HoldBehindDoor PROVE OverrideInv'
    OBVIOUS
  <2>1. /\ pc = "stop" /\ pc' = "finish" /\ UNCHANGED <<soft_limit, spindle_stop_ovr>>
        /\ sys_rt_exec_state' \subseteq sys_rt_exec_state
    BY DEF ServeStop
  <2>2. "MOTION_CANCEL" \in sys_rt_exec_state => state = "JOG"
    BY <2>1 DEF RtInv, CancelInv
  <2>3. CASE "CYCLE_STOP" \notin rt_exec
    BY <2>3 DEF RtInv, ServeStop, OverrideInv, CancelInv, Served
  <2>4. CASE "CYCLE_STOP" \in rt_exec /\ UNCHANGED state
    BY <2>1, <2>2, <2>4, CycleStopFacts DEF RtInv, ServeStop, OverrideInv, Served
  <2>5. CASE "CYCLE_STOP" \in rt_exec /\ state' # state
    <3>1. spindle_stop_ovr = {} \/ (soft_limit /\ state' = "IDLE" /\ suspend' = {})
      BY <2>1, <2>5, CycleStopFacts DEF RtInv, ServeStop, OverrideInv, SuspendInv
    <3>2. state' # "JOG" /\ (state = "JOG" => spindle_stop_ovr = {})
      BY <2>5 DEF ServeStop, RtInv, OverrideInv
    <3> QED BY <2>1, <2>2, <3>1, <3>2 DEF OverrideInv, Served
  <2> QED BY <2>3, <2>4, <2>5
<1>10. NoProbing => DoorInv'
  BY SMTT(20) DEF ServeStop, ResetMotion, RtInv, SuspendInv, SleepInv, RestInv, CancelInv,
     DoorInv, LockedAtRest, Served, CycleStopped, AboutToAbort, Resetting, NoProbing, RtTypeOK,
     SysTypeOK, FlagTypeOK, MainTypeOK, SwitchTypeOK
<1>11. NoProbing => DoorlessInv'
  BY SMTT(20) DEF ServeStop, ResetMotion, RtInv, DoorlessInv, NoProbing, RtTypeOK, SysTypeOK,
     SwitchTypeOK
<1>12. NoProbing => HoldlessInv'
  BY SMTT(20) DEF ServeStop, ResetMotion, RtInv, HoldlessInv, Served, NoProbing, RtTypeOK,
     SysTypeOK, SwitchTypeOK
<1>13. NoProbing /\ ~HoldBehindDoor => RestoreInv'
  BY SMTT(20) DEF ServeStop, ResetMotion, RtInv, SuspendInv, SleepInv, RestInv, CancelInv,
     OverrideInv, DoorInv, DoorlessInv, HoldlessInv, RestoreInv, LockedAtRest, RestorePending,
     Served, CycleStopped, AboutToAbort, Resetting, NoProbing, HoldBehindDoor, RtTypeOK,
     SysTypeOK, FlagTypeOK, MainTypeOK, SwitchTypeOK
<1>14. NoProbing /\ ~HoldBehindDoor => SpindleInv'
  <2> SUFFICES ASSUME NoProbing, ~HoldBehindDoor PROVE SpindleInv'
    OBVIOUS
  <2>1. UNCHANGED <<spindle, modal_spindle, spindle_stop_ovr>> /\ (Resetting' <=> Resetting)
    BY DEF ServeStop, Resetting
  <2>2. CASE "CYCLE_STOP" \notin rt_exec
    BY <2>1, <2>2 DEF RtInv, ServeStop, SpindleInv
  <2>3. CASE "CYCLE_STOP" \in rt_exec
    <3>1. state \in {"CYCLE", "HOLD", "JOG"} /\ ~Resetting => spindle = modal_spindle
      BY <2>3, CycleStopFacts DEF RtInv, SpindleInv
    <3>2. state = "SAFETY_DOOR" => state' = "SAFETY_DOOR"
      BY <2>3, CycleStopFacts DEF RtInv, ServeStop, SuspendInv
    <3> QED BY <2>1, <2>3, <3>1, <3>2, CycleStopFacts DEF SpindleInv
  <2> QED BY <2>2, <2>3
<1>15. SpindleRunsInCycle'
  BY <1>14 DEF SpindleRunsInCycle, SpindleInv, NoProbing, HoldBehindDoor
<1>16. RetractedMeansOff'
  BY SMTT(20) DEF ServeStop, ResetMotion, RtInv, SuspendInv, SleepInv, RestInv, DoorInv,
     RetractedMeansOff, LockedAtRest, Served, CycleStopped, AboutToAbort, Resetting, NoProbing,
     RtTypeOK, SysTypeOK, FlagTypeOK, MainTypeOK, SwitchTypeOK
<1>17. RestMeansStopped'
  BY <1>6 DEF RestMeansStopped, RestInv, NoProbing
<1>18. (spindle => modal_spindle)'
  BY DEF RtInv, ServeStop
<1> QED BY <1>1, <1>2, <1>3, <1>4, <1>5, <1>6, <1>7, <1>8, <1>9, <1>10, <1>11, <1>12, <1>13, <1>14, <1>15, <1>16, <1>17, <1>18 DEF RtInv, NoProbing, HoldBehindDoor

\* Every step of protocol_exec_rt_system() keeps the invariant.
LEMMA RtSystemKeeps ==
  ASSUME RtInv, RtTypeOK', isr_copy = NoCopy, session' = session, RtSystem
  PROVE  RtInv'
<1> USE DEF RtInv, RtTypeOK, SysTypeOK, FlagTypeOK, MainTypeOK, SwitchTypeOK, ProbingInv,
            SuspendInv, ResetInv, LockInv, SleepInv, RestInv, SoftLimitInv, CancelInv, OverrideInv,
            DoorInv, DoorlessInv, HoldlessInv, RestoreInv, SpindleInv, SpindleRunsInCycle,
            RetractedMeansOff, RestMeansStopped, LockedAtRest, RestorePending, Served, CycleStopped,
            AboutToAbort, Resetting, NoProbing, HoldBehindDoor, NoCopy
<1>1. CASE ServeAlarm
  BY <1>1, SMTT(20) DEF ServeAlarm
<1>2. CASE CriticalEvent
  BY <1>2, SMTT(20) DEF CriticalEvent
<1>3. CASE CopyFlags
  BY <1>3, SMTT(20) DEF CopyFlags
<1>4. CASE ServeHold
  BY <1>4, ServeHoldKeeps
<1>5. CASE ServeStart
  BY <1>5, ServeStartKeeps
<1>6. CASE ServeStop
  BY <1>6, ServeStopKeeps
<1>7. CASE Finish
  BY <1>7, SMTT(20) DEF Finish, PrepBuffer
<1>8. CASE Abort
  BY <1>8, SMTT(20) DEF Abort, AfterReset, CallRtSystem, ResetMotion
<1> QED BY <1>1, <1>2, <1>3, <1>4, <1>5, <1>6, <1>7, <1>8 DEF RtSystem

\* Every pass of the suspend loop keeps it.
LEMMA SuspendKeeps ==
  ASSUME RtInv, RtTypeOK', isr_copy = NoCopy, session' = session, Suspend
  PROVE  RtInv'
<1> USE DEF RtInv, RtTypeOK, SysTypeOK, FlagTypeOK, MainTypeOK, SwitchTypeOK, ProbingInv,
            SuspendInv, ResetInv, LockInv, SleepInv, RestInv, SoftLimitInv, CancelInv, OverrideInv,
            DoorInv, DoorlessInv, HoldlessInv, RestoreInv, SpindleInv, SpindleRunsInCycle,
            RetractedMeansOff, RestMeansStopped, LockedAtRest, RestorePending, Served, CycleStopped,
            AboutToAbort, Resetting, NoProbing, HoldBehindDoor, NoCopy
<1>1. CASE SuspendWait
  BY <1>1, SMTT(20) DEF SuspendWait, CallRtSystem
<1>2. CASE Retract
  BY <1>2, SMTT(20) DEF Retract, CallRtSystem, Deenergize
<1>3. CASE Sleep
  BY <1>3, SMTT(20) DEF Sleep, CallRtSystem, Deenergize
<1>4. CASE DoorWait
  BY <1>4, SMTT(20) DEF DoorWait, CallRtSystem
<1>5. CASE Restoring
  BY <1>5, SMTT(20) DEF Restoring, CallRtSystem
<1>6. CASE HoldManager
  BY <1>6, SMTT(20) DEF HoldManager, CallRtSystem
<1> QED BY <1>1, <1>2, <1>3, <1>4, <1>5, <1>6 DEF Suspend

\* Every step of the main program keeps it.
LEMMA MainKeeps ==
  ASSUME RtInv, RtTypeOK', isr_copy = NoCopy, session' = session, Main
  PROVE  RtInv'
<1> USE DEF RtInv, RtTypeOK, SysTypeOK, FlagTypeOK, MainTypeOK, SwitchTypeOK, ProbingInv,
            SuspendInv, ResetInv, LockInv, SleepInv, RestInv, SoftLimitInv, CancelInv, OverrideInv,
            DoorInv, DoorlessInv, HoldlessInv, RestoreInv, SpindleInv, SpindleRunsInCycle,
            RetractedMeansOff, RestMeansStopped, LockedAtRest, RestorePending, Served, CycleStopped,
            AboutToAbort, Resetting, NoProbing, HoldBehindDoor, NoCopy
<1>0. panel => session.panel
  BY DEF BoundTypeOK
<1>1. CASE MainLoop
  BY <1>1, SMTT(20) DEF MainLoop, AtMain, AutoCycleStart, CallRtSystem, PollThen
<1>2. CASE SoftStop
  BY <1>2, SMTT(20) DEF SoftStop, AtMain, CallRtSystem, PollThen
<1>3. CASE SoftReset
  BY <1>3, SMTT(20) DEF SoftReset, AtMain, CallRtSystem, InMotion, PollThen, StopMachine
<1>4. CASE WaitForRoom
  BY <1>4, SMTT(20) DEF WaitForRoom, AutoCycleStart, CallRtSystem, PollThen
<1>5. CASE QueueLine
  BY <1>5, SMTT(20) DEF QueueLine, AtMain
<1>6. CASE QueueJog
  BY <1>6, SMTT(20) DEF QueueJog, AtMain, PrepBuffer
<1>7. CASE Synchronize
  <2>1. /\ pc = "main" /\ task \in {"probe", "spindle"}
        /\ pc' = "alarm" /\ caller' = "poll" /\ task' = task
        /\ UNCHANGED <<sysVars, flagVars, rt_exec, machineVars, boundVars>>
    BY <1>7 DEF Synchronize, PollThen, CallRtSystem
  <2> QED BY <2>1, SMTT(20)
<1>8. CASE SpindleOn
  BY <1>0, <1>8, SMTT(20) DEF SpindleOn, AtMain, Synchronized
<1>9. CASE CheckProbe
  BY <1>9, SMTT(20) DEF CheckProbe, AtMain, CallRtSystem, PollThen, Synchronized
<1>10. CASE StartProbe
  BY <1>10, SMTT(20) DEF StartProbe, AtMain, CallRtSystem, PollThen
<1>11. CASE Probing
  BY <1>11, SMTT(20) DEF Probing, AtMain, CallRtSystem, PollThen
<1>12. CASE ProbeEnd
  BY <1>12, SMTT(20) DEF ProbeEnd, AtMain, ResetMotion
<1>13. CASE RefuseLine
  BY <1>13, SMTT(20) DEF RefuseLine, Accepted, AtMain
<1>14. CASE StartSoftLimit
  BY <1>14, SMTT(20) DEF StartSoftLimit, Accepted, AtMain, CallRtSystem, PollThen, ReadLine
<1>15. CASE StartSleep
  BY <1>15, SMTT(20) DEF StartSleep, Accepted, AtMain, ReadLine
<1>16. CASE Unlock
  BY <1>16, SMTT(20) DEF Unlock, Accepted, AtMain, ReadLine
<1>17. CASE \E t \in Lines : StartMotion(t)
  <2>1. state = "ALARM" => sd \/ panel
    BY <1>17 DEF StartMotion, ReadLine, Accepted
  <2>2. /\ pc = "main" /\ task = "read"
        /\ pc' = "alarm" /\ caller' = "poll" /\ task' \in {"line", "jog"}
        /\ UNCHANGED <<sysVars, flagVars, rt_exec, machineVars, boundVars>>
    BY <1>17 DEF StartMotion, ReadLine, AtMain, PollThen, CallRtSystem
  <2> QED BY <2>1, <2>2, SMTT(20)
<1>18. CASE \E t \in Lines : StartSync(t)
  <2>1. state = "ALARM" => sd \/ panel
    BY <1>18 DEF StartSync, ReadLine, Accepted
  <2>2. /\ pc = "main" /\ task = "read"
        /\ pc' = "alarm" /\ caller' = "poll" /\ task' \in {"probe", "spindle"}
        /\ task' = "probe" => "probe" \in Lines
        /\ UNCHANGED <<sysVars, sys_rt_exec_alarm, ovr_stop, rt_exec, machineVars, boundVars>>
    BY <1>18 DEF StartSync, ReadLine, AtMain, PollThen, CallRtSystem
  <2>3. AutoCycleStart
    BY <1>18 DEF StartSync
  <2> QED BY <2>1, <2>2, <2>3, SMTT(20) DEF AutoCycleStart
<1> QED BY <1>1, <1>2, <1>3, <1>4, <1>5, <1>6, <1>7, <1>8, <1>9, <1>10, <1>11, <1>12, <1>13,
       <1>14, <1>15, <1>16, <1>17, <1>18 DEF Main

\* The interrupts, the door and the polls of UITask() keep it.
LEMMA WorldKeeps ==
  ASSUME RtInv, RtTypeOK', session' = session, (isr_copy = NoCopy /\ (EndOfLine \/ PollPins)) \/ Stepper \/ Serial
  PROVE  RtInv'
<1> USE DEF RtInv, RtTypeOK, SysTypeOK, FlagTypeOK, MainTypeOK, SwitchTypeOK, ProbingInv,
            SuspendInv, ResetInv, LockInv, SleepInv, RestInv, SoftLimitInv, CancelInv, OverrideInv,
            DoorInv, DoorlessInv, HoldlessInv, RestoreInv, SpindleInv, SpindleRunsInCycle,
            RetractedMeansOff, RestMeansStopped, LockedAtRest, RestorePending, Served, CycleStopped,
            AboutToAbort, Resetting, NoProbing, HoldBehindDoor, NoCopy
<1>1. CASE isr_copy = NoCopy /\ EndOfLine
  <2>1. /\ pc = "main" /\ task = "loop" /\ task' = "read" /\ isr_copy = NoCopy
        /\ UNCHANGED <<sysVars, sys_rt_exec_alarm, ovr_stop, rt_exec, machineVars>>
    BY <1>1 DEF EndOfLine, AtMain, PollThen
  <2>2. CASE /\ pc' = "alarm" /\ caller' = "poll"
             /\ UNCHANGED sys_rt_exec_state \/ AutoCycleStart
    BY <2>1, <2>2, SMTT(20) DEF AutoCycleStart
  <2>3. CASE panel' /\ UNCHANGED <<sys_rt_exec_state, pc, caller>>
    BY <2>1, <2>3, SMTT(20)
  <2> QED BY <1>1, <2>2, <2>3 DEF EndOfLine, PollThen, CallRtSystem
<1>2. CASE isr_copy = NoCopy /\ PollPins
  BY <1>2, SMTT(20) DEF PollPins
<1>3. CASE StepEnd
  BY <1>3, SMTT(20) DEF StepEnd
<1>4. CASE Shutdown
  BY <1>4, SMTT(20) DEF Shutdown
<1>5. CASE ProbeContact
  BY <1>5, SMTT(20) DEF ProbeContact
<1>6. CASE ProbeCancel
  BY <1>6, SMTT(20) DEF ProbeCancel
<1>7. CASE RxReset
  BY <1>7, SMTT(20) DEF RxReset, InMotion, McReset, StopMachine
<1>8. CASE RxSpindleStop
  BY <1>8, SMTT(20) DEF RxSpindleStop
<1>9. CASE MoveDoor
  BY <1>9, SMTT(20) DEF MoveDoor
<1>10. CASE \E c \in Commands : RxCommand(c)
  <2>1. PICK c \in Commands : RxCommand(c)
    BY <1>10
  <2>2. c \in {"CYCLE_START", "FEED_HOLD", "SAFETY_DOOR", "MOTION_CANCEL"}
    BY <2>1, SessionFacts DEF RxCommand, BoundTypeOK
  <2>3. /\ sys_rt_exec_state' = sys_rt_exec_state \cup {c}
        /\ c = "MOTION_CANCEL" => state = "JOG"
        /\ UNCHANGED <<sysVars, sys_rt_exec_alarm, ovr_stop, mainVars, machineVars, panel, lines>>
    BY <2>1 DEF RxCommand
  <2> QED BY <2>2, <2>3, SMTT(20)
<1> QED BY <1>1, <1>2, <1>3, <1>4, <1>5, <1>6, <1>7, <1>8, <1>9, <1>10 DEF Stepper, Serial

-----------------------------------------------------------------------------
(* What holds of every session.                                            *)

LEMMA InitEstablishes == Init => RtInv
<1> SUFFICES ASSUME Init PROVE RtInv
  OBVIOUS
<1>1. SysTypeOK /\ FlagTypeOK /\ MainTypeOK /\ MotionTypeOK
  BY RealtimeAssumption DEF Init, SysTypeOK, FlagTypeOK, MainTypeOK, MotionTypeOK, States, Tasks,
     NoCopy
<1>2. BoundTypeOK
  <2>1. MaxCommands \in Nat /\ MaxLines \in Nat
    BY SessionFacts DEF Init
  <2>2. session \in Sessions /\ commands \in 0..MaxCommands /\ lines \in 0..MaxLines
    BY <2>1 DEF Init
  <2>3. panel \in BOOLEAN /\ (panel => session.panel)
    BY DEF Init
  <2> QED BY <2>2, <2>3 DEF BoundTypeOK
<1>3. SwitchTypeOK
  BY SessionFacts DEF Init, SwitchTypeOK
<1>4. ProbingInv /\ SuspendInv /\ ResetInv /\ LockInv /\ SleepInv /\ RestInv /\ SoftLimitInv
  BY DEF Init, ProbingInv, SuspendInv, ResetInv, LockInv, SleepInv, RestInv,
     SoftLimitInv, Served, CycleStopped, Resetting
<1>5. CancelInv /\ DoorInv /\ DoorlessInv /\ HoldlessInv /\ OverrideInv
  BY DEF Init, CancelInv, DoorInv, DoorlessInv, HoldlessInv, OverrideInv, Served
<1>6. RestoreInv /\ SpindleInv /\ SpindleRunsInCycle /\ RetractedMeansOff /\ RestMeansStopped
  BY DEF Init, RestoreInv, SpindleInv, SpindleRunsInCycle, RetractedMeansOff, RestMeansStopped
<1>7. ~spindle
  BY DEF Init
<1> QED BY <1>1, <1>2, <1>3, <1>4, <1>5, <1>6, <1>7 DEF RtInv, RtTypeOK

LEMMA NextKeeps ==
  ASSUME RtInv, [Next]_<<vars, session>>
  PROVE  RtInv'
<1>1. CASE UNCHANGED <<vars, session>>
  BY <1>1 DEF vars, RtInv, RtTypeOK, SysTypeOK, FlagTypeOK, MainTypeOK, SwitchTypeOK, MotionTypeOK,
     BoundTypeOK, ProbingInv, SuspendInv, ResetInv, LockInv, SleepInv, RestInv, SoftLimitInv,
     CancelInv, OverrideInv, DoorInv, DoorlessInv, HoldlessInv, RestoreInv, SpindleInv,
     SpindleRunsInCycle, RetractedMeansOff, RestMeansStopped, LockedAtRest, RestorePending, Served,
     CycleStopped, AboutToAbort, Resetting, NoProbing, HoldBehindDoor
<1>2. CASE Next
  <2>1. RtTypeOK /\ session' = session
    BY <1>2 DEF RtInv, Next
  <2>2. RtTypeOK'
    BY <1>2, <2>1, RtSystemType, SuspendType, MainType, OthersType DEF Next, MainProgram
  <2> QED BY <1>2, <2>1, <2>2, RtSystemKeeps, SuspendKeeps, MainKeeps, WorldKeeps
          DEF Next, MainProgram
<1> QED BY <1>1, <1>2

\* In every session the state, the spindle and the stepper interrupt agree
\* (protocol.c:250-490, 637-821).
THEOREM Invariance == Spec => []RtInv
  BY InitEstablishes, NextKeeps, PTL DEF Spec

-----------------------------------------------------------------------------
(* What no step may do.                                                    *)

\* The steps that change sys.state.
LEMMA StateChanges ==
  ASSUME Next, state' # state
  PROVE  ServeAlarm \/ ServeHold \/ ServeStart \/ ServeStop \/ Abort \/ QueueJog \/ Unlock
<1>1. CASE RtSystem
  BY <1>1 DEF RtSystem, CriticalEvent, CopyFlags, Finish
<1>2. CASE Suspend
  BY <1>2 DEF Suspend, SuspendWait, Retract, Sleep, DoorWait, Restoring, HoldManager
<1>3. CASE Main
  BY <1>3 DEF Main, MainLoop, SoftStop, SoftReset, WaitForRoom, QueueLine, Synchronize, SpindleOn,
     CheckProbe, StartProbe, Probing, ProbeEnd, RefuseLine, StartSoftLimit, StartSleep,
     StartMotion, StartSync
<1>4. CASE EndOfLine \/ PollPins \/ Stepper \/ Serial
  BY <1>4 DEF EndOfLine, PollPins, Stepper, StepEnd, Shutdown, ProbeContact, ProbeCancel, Serial,
     RxCommand, RxReset, RxSpindleStop, MoveDoor
<1> QED BY <1>1, <1>2, <1>3, <1>4 DEF Next, MainProgram

\* No cycle or jog starts while the safety door is flagged as ajar (protocol.c:422).
THEOREM DoorHoldsStart == Spec => NoStartWithDoorAjar
<1> DEFINE Starts == state \notin {"CYCLE", "JOG"} /\ state' \in {"CYCLE", "JOG"}
<1>1. ASSUME RtInv, Next, Starts
      PROVE  "SAFETY_DOOR_AJAR" \notin suspend
  <2>1. ServeStart \/ QueueJog
    BY <1>1, StateChanges DEF ServeAlarm, ServeHold, ServeStop, Abort, AfterReset, Unlock
  <2>2. CASE ServeStart
    BY <1>1, <2>2 DEF ServeStart, DoorClosed, RtInv, SuspendInv
  <2>3. CASE QueueJog
    <3>1. pc = "main"
      BY <2>3 DEF QueueJog, AtMain
    <3> QED BY <1>1, <3>1 DEF RtInv, SuspendInv
  <2> QED BY <1>1, <2>1, <2>2, <2>3
<1>2. RtInv /\ [Next]_<<vars, session>> => [Starts => "SAFETY_DOOR_AJAR" \notin suspend]_vars
  BY <1>1 DEF vars
<1> QED BY <1>2, Invariance, PTL DEF Spec, NoStartWithDoorAjar

\* Without probing only $X takes the alarm lock away (main.c:65-67, protocol.c:54-58).
THEOREM LockStays == Spec => AlarmStays
<1> DEFINE Unlocks == /\ NoProbing
                      /\ state \in {"ALARM", "SLEEP"} /\ state' \notin {"ALARM", "SLEEP"}
<1>1. ASSUME RtInv, Next, Unlocks
      PROVE  Unlock
  <2>1. ~(ServeAlarm \/ ServeHold \/ ServeStart \/ QueueJog)
    BY <1>1 DEF ServeAlarm, ServeHold, ServeStart, QueueJog
  <2>2. ~Abort
    BY <1>1 DEF Abort, AfterReset
  <2>3. ~ServeStop
    BY <1>1, CycleStopFacts DEF ServeStop
  <2> QED BY <1>1, <2>1, <2>2, <2>3, StateChanges
<1>2. RtInv /\ [Next]_<<vars, session>> => [Unlocks => Unlock]_vars
  BY <1>1 DEF vars, NoProbing
<1> QED BY <1>2, Invariance, PTL DEF Spec, AlarmStays

\* The steps that queue a block.
LEMMA QueueGrows ==
  ASSUME RtTypeOK, Next, ~(Len(queue') <= Len(queue))
  PROVE  QueueLine \/ QueueJog \/ StartProbe
<1>1. Len(queue) \in Nat /\ Len(<<>>) <= Len(queue)
  BY DEF RtTypeOK, MotionTypeOK
<1>2. queue # <<>> => Len(Tail(queue)) <= Len(queue)
  BY DEF RtTypeOK, MotionTypeOK
<1>3. queue' \notin {queue, <<>>} /\ (queue # <<>> => queue' # Tail(queue))
  BY <1>1, <1>2
<1>4. ASSUME NEW sc, PrepBuffer(sc, queue) PROVE FALSE
  BY <1>3, <1>4 DEF PrepBuffer
<1>5. CASE RtSystem
  BY <1>3, <1>4, <1>5 DEF RtSystem, ServeAlarm, CriticalEvent, CopyFlags, ServeHold, ServeStart,
     ServeStop, Finish, Abort, ResetMotion
<1>6. CASE Suspend
  BY <1>3, <1>6 DEF Suspend, SuspendWait, Retract, Sleep, DoorWait, Restoring, HoldManager
<1>7. CASE Main
  BY <1>3, <1>7 DEF Main, MainLoop, SoftStop, SoftReset, WaitForRoom, Synchronize, SpindleOn,
     CheckProbe, Probing, ProbeEnd, RefuseLine, StartSoftLimit, StartSleep, Unlock, StartMotion,
     StartSync, ResetMotion
<1>8. CASE EndOfLine \/ PollPins \/ Stepper \/ Serial
  BY <1>3, <1>8 DEF EndOfLine, PollPins, Stepper, StepEnd, Shutdown, ProbeContact, ProbeCancel,
     Serial, RxCommand, RxReset, RxSpindleStop, MoveDoor
<1> QED BY <1>5, <1>6, <1>7, <1>8 DEF Next, MainProgram

\* In ALARM no motion is queued but by a line of the panel, unless a probe cycle fails
\* in a file of the SD card (protocol.c:108).
THEOREM LockHoldsMotion == Spec => AlarmLocksSenders
<1> DEFINE Locked == state = "ALARM" /\ (NoProbing \/ ~session.sd) /\ ~panel
<1>1. ASSUME RtInv, Next, Locked
      PROVE  Len(queue') <= Len(queue)
  <2>1. pc = "main" => task \in {"loop", "read", "probing", "probe_end"}
    BY <1>1 DEF RtInv, LockInv, AboutToAbort
  <2>2. ~(QueueLine \/ QueueJog \/ StartProbe)
    BY <2>1 DEF QueueLine, QueueJog, StartProbe, AtMain
  <2> QED BY <1>1, <2>2, QueueGrows DEF RtInv
<1>2. RtInv /\ [Next]_<<vars, session>> => [Locked => Len(queue') <= Len(queue)]_vars
  BY <1>1 DEF vars, NoProbing
<1> QED BY <1>2, Invariance, PTL DEF Spec, AlarmLocksSenders

\* The steps that take a reset request away.
LEMMA ResetGoes ==
  ASSUME Next, Resetting, ~Resetting'
  PROVE  ServeAlarm \/ Abort \/ ProbeCancel
<1> USE DEF Resetting
<1>1. CASE RtSystem
  BY <1>1 DEF RtSystem, CriticalEvent, CopyFlags, ServeHold, HoldFlags, ServeStart, ServeStop,
     Finish
<1>2. CASE Suspend
  BY <1>2 DEF Suspend, SuspendWait, Retract, Sleep, DoorWait, Restoring, HoldManager
<1>3. CASE Main
  BY <1>3 DEF Main, MainLoop, SoftStop, SoftReset, WaitForRoom, QueueLine, QueueJog, Synchronize,
     SpindleOn, CheckProbe, StartProbe, Probing, ProbeEnd, RefuseLine, StartSoftLimit, StartSleep,
     Unlock, StartMotion, StartSync, AutoCycleStart
<1>4. CASE EndOfLine \/ PollPins \/ Stepper \/ Serial
  BY <1>4 DEF EndOfLine, PollPins, Stepper, StepEnd, Shutdown, ProbeContact, Serial, RxCommand,
     RxReset, McReset, RxSpindleStop, MoveDoor, AutoCycleStart
<1> QED BY <1>1, <1>2, <1>3, <1>4 DEF Next, MainProgram

\* A requested reset stays requested until it is served, unless the probe's contact
\* may write back the flags it has read before the request (serial.c:156).
THEOREM ResetStays == Spec => ResetNeverLost
<1> DEFINE Lost == Resetting /\ ~Resetting' /\ (NoProbing \/ "RESET" \notin Commands)
<1>1. ASSUME RtInv, Next, Lost
      PROVE  pc \in {"abort", "alarm"}
  <2>1. ~ProbeCancel
    BY <1>1 DEF ProbeCancel, RtInv, ProbingInv, ResetInv, Resetting
  <2> QED BY <1>1, <2>1, ResetGoes DEF ServeAlarm, Abort
<1>2. RtInv /\ [Next]_<<vars, session>> => [Lost => pc \in {"abort", "alarm"}]_vars
  BY <1>1 DEF vars, Resetting
<1> QED BY <1>2, Invariance, PTL DEF Spec, ResetNeverLost
=============================================================================
