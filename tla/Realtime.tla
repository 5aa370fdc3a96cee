------------------------------ MODULE Realtime ------------------------------
(***************************************************************************)
(* The realtime state machine: protocol_exec_rt_system(), the suspend loop *)
(* and the main program around them (protocol.c), the commands that start  *)
(* a jog, a probe cycle, sleep or unlock the machine (jog.c,               *)
(* motion_control.c, system.c), and the interrupts that set the realtime   *)
(* flags (serial.c, stepper.c, probe.c).                                   *)
(*                                                                         *)
(* pc is the main program's place in protocol_exec_rt_system(), caller who *)
(* called it, task what the main program is doing around it.  The flags    *)
(* are copied, served and cleared in separate steps, and an interrupt may  *)
(* come between any two.                                                   *)
(*                                                                         *)
(* Motion is abstracted to what the state machine sees: the kinds of the   *)
(* blocks queued in the planner, the kinds of motion in the segment ring,  *)
(* and whether the stepper interrupt is on; module StepPipeline has the    *)
(* rings.  Homing, check mode, overrides of speeds, coolant, parking       *)
(* (compiled out) and laser mode are left out.                             *)
(*                                                                         *)
(* A definition just before the one it resembles, used nowhere, is a       *)
(* mistake that one of the properties catches: README, "Mutants".          *)
(***************************************************************************)
EXTENDS Integers, Sequences

CONSTANTS MaxQueue,      \* blocks the planner ring holds
          Sessions       \* what the operator and the sender of the lines may do

\* A session bounds the operator's realtime commands and door moves and the lines
\* sent, and names the kinds of them that are used; sd says whether a file on the
\* SD card is the source of the lines, panel whether the operator's panel sends some.
SessionType ==
  [maxCommands : Nat, maxLines : Nat,
   commands : SUBSET {"CYCLE_START", "FEED_HOLD", "SAFETY_DOOR", "MOTION_CANCEL", "RESET",
                      "OVR_STOP", "DOOR"},
   lines : SUBSET {"line", "jog", "probe", "spindle", "soft_limit", "sleep", "unlock"},
   sd : BOOLEAN, panel : BOOLEAN]

ASSUME RealtimeAssumption == MaxQueue \in Nat \ {0} /\ Sessions \subseteq SessionType

VARIABLES
  state, suspend, step_control, soft_limit,   \* sys
  spindle_stop_ovr,                           \* sys.spindle_stop_ovr, a set of its bits
  sys_rt_exec_state, sys_rt_exec_alarm,       \* realtime flags
  ovr_stop,                                   \* EXEC_SPINDLE_OVR_STOP
  rt_exec,                                    \* protocol_exec_rt_system()'s copy
  pc, caller, task,
  queue, segs, timer,                         \* motion
  spindle, modal_spindle,                     \* spindle output; gc_state.modal.spindle
  door, previousPin,                          \* door switch, and its last polled state
  sys_probe_state,
  isr_copy,                                   \* the flags read inside probe_state_monitor()
  position_lost,                              \* has a reset cut a motion short?
  sd,                                         \* SD_state = SD_state_Open
  panel,                                      \* is the line in hand UILineBuffer's?
  commands, lines,
  session

sysVars    == <<state, suspend, step_control, soft_limit, spindle_stop_ovr>>
flagVars   == <<sys_rt_exec_state, sys_rt_exec_alarm, ovr_stop>>
mainVars   == <<rt_exec, pc, caller, task>>
motionVars == <<queue, segs, timer>>
spindleVars == <<spindle, modal_spindle>>
doorVars   == <<door, previousPin>>
probeVars  == <<sys_probe_state, isr_copy>>
boundVars  == <<panel, commands, lines>>
machineVars == <<motionVars, spindleVars, doorVars, probeVars, position_lost, sd>>
vars == <<sysVars, flagVars, mainVars, machineVars, boundVars>>

MaxCommands == session.maxCommands
MaxLines == session.maxLines
Commands == session.commands
Lines == session.lines

HoldFlagsAndReset == {"MOTION_CANCEL", "FEED_HOLD", "SAFETY_DOOR", "SLEEP", "RESET"}
HoldFlags == {"MOTION_CANCEL", "FEED_HOLD", "SAFETY_DOOR", "SLEEP"}
NoCopy == {"none"}   \* isr_copy outside probe_state_monitor()

Init ==
  /\ state = "IDLE" /\ suspend = {} /\ step_control = {} /\ soft_limit = FALSE
  /\ spindle_stop_ovr = {}
  /\ sys_rt_exec_state = {} /\ sys_rt_exec_alarm = "none" /\ ovr_stop = FALSE
  /\ rt_exec = {} /\ pc = "main" /\ caller = "poll" /\ task = "loop"
  /\ queue = <<>> /\ segs = {} /\ timer = FALSE
  /\ spindle = FALSE /\ modal_spindle = FALSE
  /\ door = FALSE /\ previousPin = FALSE
  /\ sys_probe_state = "OFF" /\ isr_copy = NoCopy
  /\ session \in Sessions
  /\ position_lost = FALSE /\ sd = session.sd /\ panel = FALSE
  /\ commands = 0 /\ lines = 0

-----------------------------------------------------------------------------
(* Helpers.                                                                *)

\* st_prep_buffer() under step control sc, with the planner holding q: the block
\* at the tail gets some or all of its segments; under a hold the deceleration
\* may end in it.
PrepBuffer(sc, q) ==
  IF "END" \in sc \/ q = <<>>
  THEN step_control' = sc /\ queue' = q /\ UNCHANGED segs
  ELSE \/ /\ segs' = segs \cup {Head(q)}
          /\ queue' \in {q, Tail(q)}
          /\ step_control' = sc
       \/ /\ "HOLD" \in sc
          /\ segs' \in {segs, segs \cup {Head(q)}}
          /\ queue' = q
          /\ step_control' = sc \cup {"END"}

ResetMotionKeepsPlan == UNCHANGED queue /\ segs' = {} /\ timer' = FALSE
\* plan_reset() and st_reset().
ResetMotion == queue' = <<>> /\ segs' = {} /\ timer' = FALSE

\* Is the machine in motion for mc_reset()?
InMotion == state \in {"CYCLE", "JOG"} \/ "HOLD" \in step_control

\* What mc_reset() stops at once: the spindle, the SD file and, if the machine
\* is in motion, the steppers, which loses the position.
StopMachine ==
  /\ spindle' = FALSE /\ sd' = FALSE
  /\ timer' = (timer /\ ~InMotion)
  /\ position_lost' = (position_lost \/ (InMotion /\ timer))

\* mc_reset().
McReset ==
  IF "RESET" \in sys_rt_exec_state
  THEN UNCHANGED <<sys_rt_exec_state, sys_rt_exec_alarm, spindle, timer, position_lost, sd>>
  ELSE /\ sys_rt_exec_state' = sys_rt_exec_state \cup {"RESET"}
       /\ sys_rt_exec_alarm' = IF InMotion THEN "ABORT_CYCLE" ELSE sys_rt_exec_alarm
       /\ StopMachine

CallRtSystem(who) == pc' = "alarm" /\ caller' = who

RespinNever == FALSE
\* Has a spindle stop override to be undone before the cycle starts?
Respin == state = "HOLD" /\ spindle_stop_ovr # {}

DoorClosedAssumed == TRUE
\* The door was closed when the suspend loop last looked.
DoorClosed == "SAFETY_DOOR_AJAR" \notin suspend

DeenergizeNot == UNCHANGED spindle
\* spindle_set_state(SPINDLE_DISABLE, 0.0).
Deenergize == spindle' = FALSE

AfterResetForgetsSleep == IF state = "ALARM" THEN "ALARM" ELSE "IDLE"
\* The state main() keeps over a reset, as protocol_main_loop() corrects it.
AfterReset == IF state \in {"ALARM", "SLEEP"} THEN "ALARM" ELSE "IDLE"

-----------------------------------------------------------------------------
(* protocol_exec_rt_system().                                              *)

\* An alarm locks the machine; a soft limit also waits for a reset.
ServeAlarm ==
  /\ pc = "alarm"
  /\ IF sys_rt_exec_alarm = "none"
     THEN pc' = "copy" /\ UNCHANGED <<state, sys_rt_exec_state, sys_rt_exec_alarm>>
     ELSE /\ state' = "ALARM"
          /\ IF sys_rt_exec_alarm = "SOFT_LIMIT"
             THEN /\ sys_rt_exec_state' = sys_rt_exec_state \ {"RESET"}
                  /\ pc' = "critical"
                  /\ UNCHANGED sys_rt_exec_alarm
             ELSE /\ sys_rt_exec_alarm' = "none"
                  /\ pc' = "copy"
                  /\ UNCHANGED sys_rt_exec_state
  /\ UNCHANGED <<suspend, step_control, soft_limit, spindle_stop_ovr, ovr_stop, rt_exec,
                 caller, task, machineVars, boundVars>>

CriticalEvent ==
  /\ pc = "critical" /\ "RESET" \in sys_rt_exec_state
  /\ sys_rt_exec_alarm' = "none"
  /\ pc' = "copy"
  /\ UNCHANGED <<sysVars, sys_rt_exec_state, ovr_stop, rt_exec, caller, task, machineVars, boundVars>>

\* The copy of the flags; a reset is served first of all.
CopyFlags ==
  /\ pc = "copy"
  /\ rt_exec' = sys_rt_exec_state
  /\ pc' = IF "RESET" \in sys_rt_exec_state THEN "abort"
           ELSE IF sys_rt_exec_state = {} THEN "finish" ELSE "hold"
  /\ UNCHANGED <<sysVars, flagVars, caller, task, machineVars, boundVars>>

\* Feed hold, motion cancel, safety door and sleep.
ServeHold ==
  LET moving  == state \in {"CYCLE", "JOG"}
      fresh   == suspend \cap {"MOTION_CANCEL", "JOG_CANCEL"} = {}
      begun   == IF state = "IDLE" THEN {"HOLD_COMPLETE"}
                 ELSE IF state = "JOG" /\ fresh /\ "SLEEP" \notin rt_exec
                 THEN suspend \cup {"JOG_CANCEL"} ELSE suspend
      cancel  == IF "MOTION_CANCEL" \in rt_exec /\ state # "JOG"
                 THEN begun \cup {"MOTION_CANCEL"} ELSE begun
      held    == IF "FEED_HOLD" \in rt_exec /\ state \notin {"SAFETY_DOOR", "JOG", "SLEEP"}
                 THEN "HOLD" ELSE state
      opened  == "SAFETY_DOOR" \in rt_exec
      restart == opened /\ held = "SAFETY_DOOR" /\ "JOG_CANCEL" \notin cancel
                   /\ "INITIATE_RESTORE" \in cancel
      ajar    == (IF restart
                  THEN (cancel \ {"RETRACT_COMPLETE", "INITIATE_RESTORE", "RESTORE_COMPLETE"})
                         \cup {"RESTART_RETRACT"}
                  ELSE cancel)
                 \cup (IF opened THEN {"SAFETY_DOOR_AJAR"} ELSE {})
      doored  == IF opened /\ held # "SLEEP" /\ "JOG_CANCEL" \notin cancel
                 THEN "SAFETY_DOOR" ELSE held
  IN /\ pc = "hold"
     /\ pc' = "start"
     /\ IF rt_exec \cap HoldFlags = {}
        THEN UNCHANGED <<state, suspend, step_control, sys_rt_exec_state>>
        ELSE /\ sys_rt_exec_state' = sys_rt_exec_state \ HoldFlags
             /\ IF state = "ALARM"
                THEN UNCHANGED step_control
                ELSE step_control' = IF moving /\ fresh THEN {"HOLD"} ELSE step_control
             /\ suspend' = IF state = "ALARM"
                           THEN suspend \cup (IF "SLEEP" \in rt_exec
                                              THEN {"RETRACT_COMPLETE", "HOLD_COMPLETE"} ELSE {})
                           ELSE ajar
             /\ state' = IF "SLEEP" \in rt_exec THEN "SLEEP"
                         ELSE IF state = "ALARM" THEN state ELSE doored
     /\ UNCHANGED <<soft_limit, spindle_stop_ovr, sys_rt_exec_alarm, ovr_stop, rt_exec,
                    caller, task, machineVars, boundVars>>

\* Cycle start: resume after a safety door, restore the spindle first after a
\* spindle stop, or start the cycle if there is a block and no cancelled motion.
ServeStart ==
  LET closed  == state = "SAFETY_DOOR" /\ DoorClosed
      resumed == IF closed /\ "RESTORE_COMPLETE" \in suspend THEN "IDLE" ELSE state
      restore == closed /\ "RESTORE_COMPLETE" \notin suspend /\ "RETRACT_COMPLETE" \in suspend
      served  == "CYCLE_START" \in rt_exec
                   /\ rt_exec \cap {"FEED_HOLD", "MOTION_CANCEL", "SAFETY_DOOR"} = {}
      ready   == resumed = "IDLE" \/ (resumed = "HOLD" /\ "HOLD_COMPLETE" \in suspend)
      go      == queue # <<>> /\ "MOTION_CANCEL" \notin suspend
  IN /\ pc = "start"
     /\ pc' = "stop"
     /\ sys_rt_exec_state' = IF "CYCLE_START" \in rt_exec
                             THEN sys_rt_exec_state \ {"CYCLE_START"} ELSE sys_rt_exec_state
     /\ IF ~served \/ ~ready \/ Respin
        THEN /\ suspend' = IF served /\ restore THEN suspend \cup {"INITIATE_RESTORE"}
                           ELSE suspend
             /\ spindle_stop_ovr' = IF served /\ ready THEN spindle_stop_ovr \cup {"RESTORE_CYCLE"}
                                    ELSE spindle_stop_ovr
             /\ UNCHANGED <<state, step_control, motionVars>>
        ELSE /\ suspend' = {}
             /\ UNCHANGED spindle_stop_ovr
             /\ IF go
                THEN state' = "CYCLE" /\ PrepBuffer({}, queue) /\ timer' = TRUE
                ELSE state' = "IDLE" /\ step_control' = {} /\ UNCHANGED motionVars
     /\ UNCHANGED <<soft_limit, sys_rt_exec_alarm, ovr_stop, rt_exec, caller, task,
                    spindleVars, doorVars, probeVars, position_lost, sd, boundVars>>

\* Cycle stop: a hold is complete, or motion is over; a cancelled jog is flushed.
ServeStop ==
  LET holding == state \in {"HOLD", "SAFETY_DOOR", "SLEEP"} /\ ~soft_limit
                   /\ "JOG_CANCEL" \notin suspend
  IN /\ pc = "stop"
     /\ pc' = "finish"
     /\ IF "CYCLE_STOP" \notin rt_exec
        THEN UNCHANGED <<state, suspend, step_control, sys_rt_exec_state, motionVars>>
        ELSE /\ sys_rt_exec_state' = sys_rt_exec_state \ {"CYCLE_STOP"}
             /\ IF holding
                THEN /\ suspend' = IF "HOLD" \in step_control
                                   THEN suspend \cup {"HOLD_COMPLETE"} ELSE suspend
                     /\ step_control' = step_control \ {"HOLD"}
                     /\ UNCHANGED <<state, motionVars>>
                ELSE /\ IF "JOG_CANCEL" \in suspend
                        THEN ResetMotion /\ step_control' = {}
                        ELSE UNCHANGED <<motionVars, step_control>>
                     /\ IF "SAFETY_DOOR_AJAR" \in suspend
                        THEN /\ suspend' = (suspend \ {"JOG_CANCEL"}) \cup {"HOLD_COMPLETE"}
                             /\ state' = "SAFETY_DOOR"
                        ELSE suspend' = {} /\ state' = "IDLE"
     /\ UNCHANGED <<soft_limit, spindle_stop_ovr, sys_rt_exec_alarm, ovr_stop, rt_exec,
                    caller, task, spindleVars, doorVars, probeVars, position_lost, sd, boundVars>>

\* The spindle stop override, the reload of the segment buffer, and the return.
Finish ==
  /\ pc = "finish"
  /\ ovr_stop' = FALSE
  /\ spindle_stop_ovr' =
       IF ~ovr_stop \/ state # "HOLD" THEN spindle_stop_ovr
       ELSE IF spindle_stop_ovr = {} THEN {"INITIATE"}
       ELSE IF "ENABLED" \in spindle_stop_ovr THEN spindle_stop_ovr \cup {"RESTORE"}
       ELSE spindle_stop_ovr
  /\ IF state \in {"CYCLE", "HOLD", "SAFETY_DOOR", "SLEEP", "JOG"}
     THEN PrepBuffer(step_control, queue)
     ELSE UNCHANGED <<step_control, queue, segs>>
  /\ rt_exec' = {}
  /\ pc' = IF caller = "restore" THEN "restoring"
           ELSE IF caller = "sleep" THEN "alarm"
           ELSE IF suspend # {} THEN "suspend" ELSE "main"
  /\ UNCHANGED <<state, suspend, soft_limit, sys_rt_exec_state, sys_rt_exec_alarm, caller,
                 task, timer, spindleVars, doorVars, probeVars, position_lost, sd, boundVars>>

\* sys.abort: every caller returns, main() clears sys and the flags and resets
\* planner and stepper; protocol_main_loop() locks the machine or checks the door.
Abort ==
  /\ pc = "abort"
  /\ state' = AfterReset
  /\ suspend' = {} /\ step_control' = {} /\ soft_limit' = FALSE /\ spindle_stop_ovr' = {}
  /\ sys_rt_exec_state' = IF door /\ state' = "IDLE" THEN {"SAFETY_DOOR"} ELSE {}
  /\ sys_rt_exec_alarm' = "none" /\ ovr_stop' = FALSE /\ rt_exec' = {}
  /\ task' = "loop"
  /\ IF door /\ state' = "IDLE" THEN CallRtSystem("poll") ELSE pc' = "main" /\ caller' = "poll"
  /\ ResetMotion
  /\ spindle' = FALSE /\ modal_spindle' = FALSE
  /\ sys_probe_state' = "OFF"
  /\ UNCHANGED <<doorVars, isr_copy, position_lost, sd, boundVars>>

RtSystem == ServeAlarm \/ CriticalEvent \/ CopyFlags \/ ServeHold \/ ServeStart
              \/ ServeStop \/ Finish \/ Abort

-----------------------------------------------------------------------------
(* protocol_exec_rt_suspend(), one pass of its loop at a time.             *)

\* Nothing to do until the hold is complete.
SuspendWait ==
  /\ pc = "suspend" /\ "HOLD_COMPLETE" \notin suspend
  /\ CallRtSystem("suspend")
  /\ UNCHANGED <<sysVars, flagVars, rt_exec, task, machineVars, boundVars>>

\* Safety door and sleep: de-energize.
Retract ==
  /\ pc = "suspend" /\ "HOLD_COMPLETE" \in suspend
  /\ state \in {"SAFETY_DOOR", "SLEEP"} /\ "RETRACT_COMPLETE" \notin suspend
  /\ spindle_stop_ovr' = {}
  /\ Deenergize
  /\ suspend' = (suspend \ {"RESTART_RETRACT"}) \cup {"RETRACT_COMPLETE"}
  /\ CallRtSystem("suspend")
  /\ UNCHANGED <<state, step_control, soft_limit, flagVars, rt_exec, task, motionVars,
                 modal_spindle, doorVars, probeVars, position_lost, sd, boundVars>>

\* Sleep: off until a reset.
Sleep ==
  /\ pc = "suspend" /\ "HOLD_COMPLETE" \in suspend
  /\ state = "SLEEP" /\ "RETRACT_COMPLETE" \in suspend
  /\ Deenergize /\ timer' = FALSE
  /\ CallRtSystem("sleep")
  /\ UNCHANGED <<sysVars, flagVars, rt_exec, task, queue, segs, modal_spindle, doorVars,
                 probeVars, position_lost, sd, boundVars>>

\* Safety door, de-energized: watch the switch, and restore the spindle when
\* asked to, with a delay that serves the realtime flags.
DoorWait ==
  /\ pc = "suspend" /\ "HOLD_COMPLETE" \in suspend
  /\ state = "SAFETY_DOOR" /\ "RETRACT_COMPLETE" \in suspend
  /\ LET closed == IF door THEN suspend ELSE suspend \ {"SAFETY_DOOR_AJAR"}
     IN IF "INITIATE_RESTORE" \in suspend
        THEN IF modal_spindle /\ "RESTART_RETRACT" \notin suspend
             THEN /\ suspend' = closed
                  /\ spindle' = TRUE
                  /\ CallRtSystem("restore")
                  /\ UNCHANGED sys_rt_exec_state
             ELSE /\ suspend' = closed \cup (IF "RESTART_RETRACT" \in suspend THEN {}
                                             ELSE {"RESTORE_COMPLETE"})
                  /\ sys_rt_exec_state' = sys_rt_exec_state \cup
                       (IF "RESTART_RETRACT" \in suspend THEN {} ELSE {"CYCLE_START"})
                  /\ UNCHANGED spindle
                  /\ CallRtSystem("suspend")
        ELSE /\ suspend' = closed
             /\ CallRtSystem("suspend")
             /\ UNCHANGED <<spindle, sys_rt_exec_state>>
  /\ UNCHANGED <<state, step_control, soft_limit, spindle_stop_ovr, sys_rt_exec_alarm,
                 ovr_stop, rt_exec, task, motionVars, modal_spindle, doorVars, probeVars,
                 position_lost, sd, boundVars>>

\* The delay goes on, or ends: it bails out if the door has opened again.
Restoring ==
  /\ pc = "restoring"
  /\ \/ /\ "RESTART_RETRACT" \notin suspend
        /\ CallRtSystem("restore")
        /\ UNCHANGED <<suspend, sys_rt_exec_state>>
     \/ /\ IF "RESTART_RETRACT" \in suspend
           THEN UNCHANGED <<suspend, sys_rt_exec_state>>
           ELSE /\ suspend' = suspend \cup {"RESTORE_COMPLETE"}
                /\ sys_rt_exec_state' = sys_rt_exec_state \cup {"CYCLE_START"}
        /\ CallRtSystem("suspend")
  /\ UNCHANGED <<state, step_control, soft_limit, spindle_stop_ovr, sys_rt_exec_alarm,
                 ovr_stop, rt_exec, task, machineVars, boundVars>>

\* Feed hold: stop the spindle, or restore it and maybe resume the program.
HoldManager ==
  /\ pc = "suspend" /\ "HOLD_COMPLETE" \in suspend
  /\ state \notin {"SAFETY_DOOR", "SLEEP"}
  /\ IF "INITIATE" \in spindle_stop_ovr
     THEN /\ spindle_stop_ovr' = IF modal_spindle THEN {"ENABLED"} ELSE {}
          /\ spindle' = (spindle /\ ~modal_spindle)
          /\ UNCHANGED sys_rt_exec_state
     ELSE IF spindle_stop_ovr \cap {"RESTORE", "RESTORE_CYCLE"} # {}
     THEN /\ spindle_stop_ovr' = {}
          /\ spindle' = (spindle \/ modal_spindle)
          /\ sys_rt_exec_state' = sys_rt_exec_state \cup
               (IF "RESTORE_CYCLE" \in spindle_stop_ovr THEN {"CYCLE_START"} ELSE {})
     ELSE UNCHANGED <<spindle_stop_ovr, spindle, sys_rt_exec_state>>
  /\ CallRtSystem("suspend")
  /\ UNCHANGED <<state, suspend, step_control, soft_limit, sys_rt_exec_alarm, ovr_stop,
                 rt_exec, task, motionVars, modal_spindle, doorVars, probeVars,
                 position_lost, sd, boundVars>>

Suspend == SuspendWait \/ Retract \/ Sleep \/ DoorWait \/ Restoring \/ HoldManager

-----------------------------------------------------------------------------
(* The main program, at a point between two polls.                         *)

AtMain(t) == pc = "main" /\ task = t

\* protocol_execute_realtime(), the task then going on as t.
PollThen(t) == CallRtSystem("poll") /\ task' = t

\* protocol_auto_cycle_start().
AutoCycleStart ==
  sys_rt_exec_state' = IF state = "IDLE" /\ queue # <<>>
                       THEN sys_rt_exec_state \cup {"CYCLE_START"} ELSE sys_rt_exec_state

\* The main loop with no line to execute.
MainLoop ==
  /\ AtMain("loop")
  /\ AutoCycleStart
  /\ PollThen("loop")
  /\ UNCHANGED <<sysVars, sys_rt_exec_alarm, ovr_stop, rt_exec, machineVars, boundVars>>

\* The end of a line: the realtime flags are polled before it is executed.  A
\* line of the panel or of the SD card comes after the main loop's own poll.
EndOfLine ==
  /\ AtMain("loop") /\ lines < MaxLines /\ Lines # {}
  /\ lines' = lines + 1
  /\ panel' \in {FALSE, session.panel}
  /\ \/ /\ IF sd \/ panel' THEN AutoCycleStart ELSE UNCHANGED sys_rt_exec_state
        /\ PollThen("read")
     \/ /\ panel' /\ task' = "read"
        /\ UNCHANGED <<sys_rt_exec_state, pc, caller>>
  /\ UNCHANGED <<sysVars, sys_rt_exec_alarm, ovr_stop, rt_exec, machineVars, commands>>

AcceptedInAlarm(t) ==
  CASE t \in {"line", "soft_limit", "probe", "spindle"} -> TRUE
    [] t = "jog"    -> state \in {"IDLE", "JOG"}
    [] t = "sleep"  -> state \in {"IDLE", "ALARM"}
    [] t = "unlock" -> state = "ALARM" /\ ~door

\* G-code from the serial port is refused in ALARM and JOG, G-code from the panel and
\* from the SD card is not; "$" commands check the state themselves.
Accepted(t) ==
  CASE t \in {"line", "soft_limit", "probe", "spindle"} -> sd \/ panel \/ state \notin {"ALARM", "JOG"}
    [] t = "jog"    -> state \in {"IDLE", "JOG"}
    [] t = "sleep"  -> state \in {"IDLE", "ALARM"}
    [] t = "unlock" -> state = "ALARM" /\ ~door

ReadLine(t) == AtMain("read") /\ t \in Lines /\ Accepted(t)

RefuseLine ==
  /\ AtMain("read") /\ \E t \in Lines : ~Accepted(t)
  /\ task' = "loop"
  /\ UNCHANGED <<sysVars, flagVars, rt_exec, pc, caller, machineVars, boundVars>>

\* mc_line() and jog_execute(): the first poll for room.
StartMotion(t) ==
  /\ t \in {"line", "jog"} /\ ReadLine(t)
  /\ PollThen(t)
  /\ UNCHANGED <<sysVars, flagVars, rt_exec, machineVars, boundVars>>

\* protocol_buffer_synchronize(), called by a probe cycle and by M3.
StartSync(t) ==
  /\ t \in {"probe", "spindle"} /\ ReadLine(t)
  /\ AutoCycleStart
  /\ PollThen(t)
  /\ UNCHANGED <<sysVars, sys_rt_exec_alarm, ovr_stop, rt_exec, machineVars, boundVars>>

\* limits_soft_check() of a line that leaves the workspace.
StartSoftLimit ==
  /\ ReadLine("soft_limit")
  /\ soft_limit' = TRUE
  /\ IF state = "CYCLE"
     THEN /\ sys_rt_exec_state' = sys_rt_exec_state \cup {"FEED_HOLD"}
          /\ PollThen("soft_stop")
     ELSE /\ task' = "soft_reset"
          /\ UNCHANGED <<sys_rt_exec_state, pc, caller>>
  /\ UNCHANGED <<state, suspend, step_control, spindle_stop_ovr, sys_rt_exec_alarm, ovr_stop,
                 rt_exec, machineVars, boundVars>>

SoftStop ==
  /\ AtMain("soft_stop")
  /\ IF state = "IDLE" THEN task' = "soft_reset" /\ UNCHANGED <<pc, caller>>
                       ELSE PollThen("soft_stop")
  /\ UNCHANGED <<sysVars, flagVars, rt_exec, machineVars, boundVars>>

\* mc_reset(), then the soft limit's alarm in place of the one mc_reset() set.
SoftReset ==
  /\ AtMain("soft_reset")
  /\ IF "RESET" \in sys_rt_exec_state
     THEN UNCHANGED <<sys_rt_exec_state, spindle, timer, position_lost, sd>>
     ELSE /\ sys_rt_exec_state' = sys_rt_exec_state \cup {"RESET"}
          /\ StopMachine
  /\ sys_rt_exec_alarm' = "SOFT_LIMIT"
  /\ PollThen("loop")
  /\ UNCHANGED <<sysVars, ovr_stop, rt_exec, queue, segs, modal_spindle, doorVars, probeVars,
                 boundVars>>

\* The planner has no room: start the cycle, and poll again.
WaitForRoom ==
  /\ pc = "main" /\ task \in {"line", "jog", "probe_line"} /\ Len(queue) = MaxQueue
  /\ AutoCycleStart
  /\ PollThen(task)
  /\ UNCHANGED <<sysVars, sys_rt_exec_alarm, ovr_stop, rt_exec, machineVars, boundVars>>

QueueLineAnyway ==
  /\ AtMain("line")
  /\ queue' = Append(queue, "line")
  /\ task' = "loop"
  /\ UNCHANGED <<sysVars, flagVars, rt_exec, pc, caller, segs, timer, spindleVars, doorVars,
                 probeVars, position_lost, sd, boundVars>>

QueueLine ==
  /\ AtMain("line") /\ Len(queue) < MaxQueue
  /\ queue' = Append(queue, "line")
  /\ task' = "loop"
  /\ UNCHANGED <<sysVars, flagVars, rt_exec, pc, caller, segs, timer, spindleVars, doorVars,
                 probeVars, position_lost, sd, boundVars>>

\* A jog starts the stepper itself.
QueueJog ==
  /\ AtMain("jog") /\ Len(queue) < MaxQueue
  /\ IF state = "IDLE"
     THEN state' = "JOG" /\ PrepBuffer(step_control, Append(queue, "jog")) /\ timer' = TRUE
     ELSE queue' = Append(queue, "jog") /\ UNCHANGED <<state, step_control, segs, timer>>
  /\ task' = "loop"
  /\ UNCHANGED <<suspend, soft_limit, spindle_stop_ovr, flagVars, rt_exec, pc, caller,
                 spindleVars, doorVars, probeVars, position_lost, sd, boundVars>>

Synchronized == queue = <<>> /\ state # "CYCLE"

Synchronize ==
  /\ pc = "main" /\ task \in {"probe", "spindle"} /\ ~Synchronized
  /\ PollThen(task)
  /\ UNCHANGED <<sysVars, flagVars, rt_exec, machineVars, boundVars>>

\* M3.
SpindleOn ==
  /\ AtMain("spindle") /\ Synchronized
  /\ spindle' = TRUE /\ modal_spindle' = TRUE
  /\ task' = "loop"
  /\ UNCHANGED <<sysVars, flagVars, rt_exec, pc, caller, motionVars, doorVars, probeVars,
                 position_lost, sd, boundVars>>

\* mc_probe_cycle(): the probe must not be triggered yet.
CheckProbe ==
  /\ AtMain("probe") /\ Synchronized
  /\ \/ sys_rt_exec_alarm' = "PROBE_FAIL_INITIAL" /\ PollThen("loop")
     \/ UNCHANGED sys_rt_exec_alarm /\ PollThen("probe_line")
  /\ UNCHANGED <<sysVars, sys_rt_exec_state, ovr_stop, rt_exec, machineVars, boundVars>>

StartProbe ==
  /\ AtMain("probe_line") /\ Len(queue) < MaxQueue
  /\ queue' = Append(queue, "probe")
  /\ sys_probe_state' = "ACTIVE"
  /\ sys_rt_exec_state' = sys_rt_exec_state \cup {"CYCLE_START"}
  /\ PollThen("probing")
  /\ UNCHANGED <<sysVars, sys_rt_exec_alarm, ovr_stop, rt_exec, segs, timer, spindleVars, doorVars,
                 isr_copy, position_lost, sd, boundVars>>

\* The probing cycle is over when the state is IDLE; no contact is an alarm,
\* unless the command was G38.3 or G38.5.
Probing ==
  /\ AtMain("probing")
  /\ IF state # "IDLE"
     THEN PollThen("probing") /\ UNCHANGED <<sys_rt_exec_alarm, sys_probe_state>>
     ELSE /\ sys_rt_exec_alarm' \in {sys_rt_exec_alarm} \cup
               (IF sys_probe_state = "ACTIVE" THEN {"PROBE_FAIL_CONTACT"} ELSE {})
          /\ sys_probe_state' = "OFF"
          /\ PollThen("probe_end")
  /\ UNCHANGED <<sysVars, sys_rt_exec_state, ovr_stop, rt_exec, motionVars, spindleVars, doorVars,
                 isr_copy, position_lost, sd, boundVars>>

ProbeEnd ==
  /\ AtMain("probe_end")
  /\ ResetMotion
  /\ task' = "loop"
  /\ UNCHANGED <<sysVars, flagVars, rt_exec, pc, caller, spindleVars, doorVars, probeVars,
                 position_lost, sd, boundVars>>

\* $SLP.
StartSleep ==
  /\ ReadLine("sleep")
  /\ sys_rt_exec_state' = sys_rt_exec_state \cup {"SLEEP"}
  /\ task' = "loop"
  /\ UNCHANGED <<sysVars, sys_rt_exec_alarm, ovr_stop, rt_exec, pc, caller, machineVars, boundVars>>

\* $X: the operator takes note of the alarm.
Unlock ==
  /\ ReadLine("unlock")
  /\ state' = "IDLE"
  /\ position_lost' = FALSE
  /\ task' = "loop"
  /\ UNCHANGED <<suspend, step_control, soft_limit, spindle_stop_ovr, flagVars, rt_exec, pc,
                 caller, motionVars, spindleVars, doorVars, probeVars, sd, boundVars>>

\* system_poll_control_pins(), called by UITask() after a poll.
PollPins ==
  /\ pc \in {"main", "suspend", "restoring", "critical"} \/ (pc = "alarm" /\ caller = "sleep")
  /\ previousPin # door
  /\ previousPin' = door
  /\ sys_rt_exec_state' = IF door THEN sys_rt_exec_state \cup {"SAFETY_DOOR"}
                          ELSE sys_rt_exec_state
  /\ UNCHANGED <<sysVars, sys_rt_exec_alarm, ovr_stop, mainVars, motionVars, spindleVars, door,
                 probeVars, position_lost, sd, boundVars>>

Main == \/ MainLoop \/ SoftStop \/ SoftReset \/ WaitForRoom \/ QueueLine \/ QueueJog
        \/ Synchronize \/ SpindleOn \/ CheckProbe \/ StartProbe \/ Probing \/ ProbeEnd
        \/ RefuseLine \/ StartSoftLimit \/ StartSleep \/ Unlock
        \/ \E t \in Lines : StartMotion(t) \/ StartSync(t)

-----------------------------------------------------------------------------
(* Interrupts and the world.                                               *)

\* A realtime command character; a jog is cancelled only while jogging.
RxCommand(c) ==
  /\ commands < MaxCommands /\ c \in Commands \ {"RESET", "OVR_STOP", "DOOR"}
  /\ c = "MOTION_CANCEL" => state = "JOG"
  /\ commands' = commands + 1
  /\ sys_rt_exec_state' = sys_rt_exec_state \cup {c}
  /\ UNCHANGED <<sysVars, sys_rt_exec_alarm, ovr_stop, mainVars, machineVars, panel, lines>>

RxReset ==
  /\ commands < MaxCommands /\ "RESET" \in Commands
  /\ commands' = commands + 1
  /\ McReset
  /\ UNCHANGED <<sysVars, ovr_stop, mainVars, queue, segs, modal_spindle, doorVars, probeVars,
                 panel, lines>>

RxSpindleStop ==
  /\ commands < MaxCommands /\ "OVR_STOP" \in Commands
  /\ commands' = commands + 1
  /\ ovr_stop' = TRUE
  /\ UNCHANGED <<sysVars, sys_rt_exec_state, sys_rt_exec_alarm, mainVars, machineVars, panel, lines>>

MoveDoor ==
  /\ commands < MaxCommands /\ "DOOR" \in Commands
  /\ commands' = commands + 1
  /\ door' = ~door
  /\ UNCHANGED <<sysVars, flagVars, mainVars, motionVars, spindleVars, previousPin, probeVars,
                 position_lost, sd, panel, lines>>

\* The stepper interrupt executes what is in the segment ring.
StepEnd ==
  /\ isr_copy = NoCopy /\ timer /\ segs # {}
  /\ segs' = {}
  /\ UNCHANGED <<sysVars, flagVars, mainVars, queue, timer, spindleVars, doorVars, probeVars,
                 position_lost, sd, boundVars>>

ShutdownStaysOn ==
  /\ isr_copy = NoCopy /\ timer /\ segs = {} /\ "CYCLE_STOP" \notin sys_rt_exec_state
  /\ sys_rt_exec_state' = sys_rt_exec_state \cup {"CYCLE_STOP"}
  /\ UNCHANGED <<sysVars, sys_rt_exec_alarm, ovr_stop, mainVars, machineVars, boundVars>>

ShutdownUnflagged ==
  /\ isr_copy = NoCopy /\ timer /\ segs = {}
  /\ timer' = FALSE
  /\ UNCHANGED <<sysVars, flagVars, mainVars, queue, segs, spindleVars, doorVars, probeVars,
                 position_lost, sd, boundVars>>

\* With the ring empty it goes idle and flags the end of the cycle.
Shutdown ==
  /\ isr_copy = NoCopy /\ timer /\ segs = {}
  /\ timer' = FALSE
  /\ sys_rt_exec_state' = sys_rt_exec_state \cup {"CYCLE_STOP"}
  /\ UNCHANGED <<sysVars, sys_rt_exec_alarm, ovr_stop, mainVars, queue, segs, spindleVars,
                 doorVars, probeVars, position_lost, sd, boundVars>>

\* probe_state_monitor(): bit_true() reads the flags ...
ProbeContact ==
  /\ isr_copy = NoCopy /\ timer /\ segs # {} /\ sys_probe_state = "ACTIVE"
  /\ sys_probe_state' = "OFF"
  /\ isr_copy' = sys_rt_exec_state
  /\ UNCHANGED <<sysVars, flagVars, mainVars, motionVars, spindleVars, doorVars, position_lost,
                 sd, boundVars>>

\* ... and writes them back; the serial interrupt may come in between.
ProbeCancel ==
  /\ isr_copy # NoCopy
  /\ isr_copy' = NoCopy
  /\ sys_rt_exec_state' = isr_copy \cup {"MOTION_CANCEL"}
  /\ UNCHANGED <<sysVars, sys_rt_exec_alarm, ovr_stop, mainVars, motionVars, spindleVars,
                 doorVars, sys_probe_state, position_lost, sd, boundVars>>

Stepper == StepEnd \/ Shutdown \/ ProbeContact \/ ProbeCancel

Serial == (\E c \in Commands : RxCommand(c)) \/ RxReset \/ RxSpindleStop \/ MoveDoor

MainProgram == isr_copy = NoCopy /\ (RtSystem \/ Suspend \/ Main)

Next == /\ UNCHANGED session
        /\ \/ MainProgram
           \/ isr_copy = NoCopy /\ (EndOfLine \/ PollPins)
           \/ Stepper \/ Serial

\* The main program and the timer run on; a deceleration and a block end; the
\* spin-up delay is over one day.
Fairness ==
  /\ WF_vars(MainProgram) /\ WF_vars(Stepper) /\ WF_vars(isr_copy = NoCopy /\ PollPins)
  /\ SF_vars(isr_copy = NoCopy /\ Finish /\ queue' # queue)
  /\ SF_vars(isr_copy = NoCopy /\ Finish /\ "END" \in step_control')
  /\ SF_vars(isr_copy = NoCopy /\ Restoring /\ caller' = "suspend")

Spec == Init /\ [][Next]_<<vars, session>> /\ Fairness

-----------------------------------------------------------------------------
(* Properties.                                                             *)

States == {"IDLE", "ALARM", "CYCLE", "HOLD", "JOG", "SAFETY_DOOR", "SLEEP"}
SuspendBits == {"HOLD_COMPLETE", "RESTART_RETRACT", "RETRACT_COMPLETE", "INITIATE_RESTORE",
                "RESTORE_COMPLETE", "SAFETY_DOOR_AJAR", "MOTION_CANCEL", "JOG_CANCEL"}
Flags == HoldFlags \cup {"RESET", "CYCLE_START", "CYCLE_STOP"}
Blocks == {"line", "jog", "probe"}
Tasks == {"loop", "read", "line", "jog", "probe", "probe_line", "probing", "probe_end", "spindle",
          "soft_stop", "soft_reset"}

SysTypeOK ==
  /\ state \in States /\ suspend \subseteq SuspendBits
  /\ step_control \subseteq {"HOLD", "END"}
  /\ spindle_stop_ovr \subseteq {"INITIATE", "ENABLED", "RESTORE", "RESTORE_CYCLE"}
FlagTypeOK ==
  /\ sys_rt_exec_state \subseteq Flags /\ rt_exec \subseteq Flags
  /\ isr_copy = NoCopy \/ isr_copy \subseteq Flags
  /\ sys_rt_exec_alarm \in {"none", "ABORT_CYCLE", "SOFT_LIMIT", "PROBE_FAIL_INITIAL",
                             "PROBE_FAIL_CONTACT"}
MainTypeOK ==
  /\ pc \in {"main", "suspend", "restoring", "alarm", "critical", "copy", "hold", "start", "stop",
             "finish", "abort"}
  /\ caller \in {"poll", "suspend", "restore", "sleep"} /\ task \in Tasks
SwitchTypeOK ==
  /\ sys_probe_state \in {"OFF", "ACTIVE"}
  /\ soft_limit \in BOOLEAN /\ timer \in BOOLEAN /\ spindle \in BOOLEAN /\ modal_spindle \in BOOLEAN
  /\ door \in BOOLEAN /\ previousPin \in BOOLEAN /\ ovr_stop \in BOOLEAN
  /\ position_lost \in BOOLEAN /\ sd \in BOOLEAN

MotionTypeOK == queue \in Seq(Blocks) /\ Len(queue) <= MaxQueue /\ segs \subseteq Blocks
BoundTypeOK ==
  /\ session \in Sessions /\ commands \in 0..MaxCommands /\ lines \in 0..MaxLines
  /\ panel \in BOOLEAN /\ (panel => session.panel)

\* Every variable keeps its type, and the planner ring its size.
RtTypeOK == SysTypeOK /\ FlagTypeOK /\ MainTypeOK /\ SwitchTypeOK /\ MotionTypeOK /\ BoundTypeOK

Resetting == "RESET" \in sys_rt_exec_state

\* A probe that fails in the deceleration of a hold, or whose contact meets a reset,
\* leaves an alarm on a machine that moves, or an alarm without its reset; what rests
\* on the alarm lock holds of sessions without probing (README, "Divergences").
NoProbing == "probe" \notin Lines

\* A feed hold served with the cycle start that ends a door's restore undoes that
\* start; a resume in the second restore leaves RESTORE_COMPLETE behind, and the next
\* door is resumed without the spindle (README, "Divergences").
HoldBehindDoor == "FEED_HOLD" \in Commands /\ Commands \cap {"DOOR", "SAFETY_DOOR"} # {}

\* A cycle runs with the spindle as the program has set it: a door or a spindle
\* stop override in between has restored it (protocol.c:743-789, 807-821).
SpindleRunsInCycle ==
  state = "CYCLE" /\ ~Resetting /\ NoProbing /\ ~HoldBehindDoor => spindle = modal_spindle

\* With the door flagged, or before the restore is asked for, a retracted machine
\* has its spindle off (protocol.c:637, 723); a spindle that the panel has started in
\* ALARM goes off when the machine sleeps.
RetractedMeansOff ==
  NoProbing /\ state \in {"SAFETY_DOOR", "SLEEP"} /\ "RETRACT_COMPLETE" \in suspend
    /\ "INITIATE_RESTORE" \notin suspend
  => ~spindle \/ (session.panel /\ state = "SLEEP" /\ caller # "sleep")

\* A machine at rest is at rest: when the state says IDLE, or that a hold is
\* complete, no stepper interrupt runs (protocol.c:358-359, 466, 484).
RestMeansStopped == NoProbing /\ (state = "IDLE" \/ "HOLD_COMPLETE" \in suspend) => ~timer

\* What these rest on.

\* The flag f of the handler's copy, at the places of the handler that still look at it.
Served(f, places) == pc \in places /\ f \in rt_exec
CycleStopped == "CYCLE_STOP" \in sys_rt_exec_state \/ Served("CYCLE_STOP", {"hold", "start", "stop"})

\* A reset is being served, and nothing comes before it.
AboutToAbort == pc \in {"critical", "abort"} \/ (pc = "copy" /\ Resetting)

\* The probe monitor, its interrupt and its alarms belong to a probing cycle.
ProbingInv ==
  /\ sys_probe_state = "ACTIVE" => task = "probing"
  /\ isr_copy # NoCopy => task = "probing"
  /\ task \in {"probe", "probe_line", "probing", "probe_end"} => ~NoProbing

\* The bits of sys.suspend that belong to a state, and a main program that never
\* runs on while one is set.
SuspendInv ==
  /\ pc = "main" => suspend = {}
  /\ "JOG_CANCEL" \in suspend => state \in {"JOG", "SLEEP", "ALARM"}
  /\ "SAFETY_DOOR_AJAR" \in suspend =>
       state \in {"SAFETY_DOOR", "SLEEP", "ALARM"} \/ (state = "JOG" /\ "JOG_CANCEL" \in suspend)
  /\ suspend \cap {"RETRACT_COMPLETE", "INITIATE_RESTORE"} # {} =>
       state \in {"SAFETY_DOOR", "SLEEP", "ALARM"}
  /\ state = "SAFETY_DOOR" => suspend \cap {"SAFETY_DOOR_AJAR", "HOLD_COMPLETE"} # {}
  /\ state \in {"CYCLE", "JOG"} => "HOLD_COMPLETE" \notin suspend

\* An alarm comes with a reset, or is a probe's; the flags a contact writes back
\* have the reset that was there.
ResetInv ==
  /\ sys_rt_exec_alarm # "none" =>
       \/ Resetting \/ pc = "critical" \/ task = "probing"
       \/ pc = "alarm" /\ task \in {"loop", "probe_end"} /\ ~NoProbing
  /\ isr_copy # NoCopy /\ Resetting /\ "RESET" \notin Commands => "RESET" \in isr_copy

\* No motion is on its way to the planner of a locked machine, and no SD file is
\* open that would bring one.
LockInv ==
  NoProbing \/ ~session.sd =>
    /\ state = "ALARM" =>
         AboutToAbort \/ (~sd /\ (panel \/ task \in {"loop", "read", "probing", "probe_end"}))
    /\ Resetting \/ pc \in {"critical", "abort"} \/ ~session.sd => ~sd

\* $SLP is served in the state it was accepted in.
SleepInv ==
  /\ "SLEEP" \in sys_rt_exec_state =>
       /\ pc \in {"main", "alarm", "copy", "hold", "critical", "abort"}
       /\ state \in {"IDLE", "ALARM"}
       /\ pc = "main" => task = "loop" \/ (panel /\ task \in {"read", "soft_reset"})
       /\ pc = "hold" => "SLEEP" \in rt_exec
  /\ Served("SLEEP", {"hold"}) => state \in {"IDLE", "ALARM"}
  /\ state = "SLEEP" => "HOLD_COMPLETE" \in suspend

\* A locked machine that is not about to reset does nothing at all, unless a line of
\* the panel has it start the spindle.
LockedAtRest ==
  /\ ~timer /\ ~CycleStopped /\ spindle_stop_ovr = {}
  /\ session.panel \/ ~modal_spindle
  /\ spindle = modal_spindle \/ Resetting
  /\ suspend = {} /\ caller = "poll" /\ pc \notin {"suspend", "restoring"}

\* The end of a motion is flagged when the timer is off, in a state that waits for it.
RestInv ==
  /\ CycleStopped => ~timer
  /\ timer \/ CycleStopped => state # "IDLE" /\ "HOLD_COMPLETE" \notin suspend
  /\ state = "ALARM" => AboutToAbort \/ LockedAtRest

\* A soft limit ends in a reset.
SoftLimitInv ==
  soft_limit =>
    \/ task \in {"soft_stop", "soft_reset"}
    \/ pc = "alarm" /\ sys_rt_exec_alarm = "SOFT_LIMIT"
    \/ AboutToAbort

\* A motion cancel is flagged while jogging, and is served before the jog's end is
\* followed by anything else.
CancelInv ==
  /\ "MOTION_CANCEL" \in sys_rt_exec_state \/ Served("MOTION_CANCEL", {"hold"}) =>
       /\ state \in {"JOG", "IDLE", "SAFETY_DOOR", "ALARM"}
       /\ "INITIATE_RESTORE" \notin suspend
  /\ "MOTION_CANCEL" \in sys_rt_exec_state =>
       /\ pc \in {"start", "stop"} => state = "JOG"
       /\ pc = "hold" => "MOTION_CANCEL" \in rt_exec \/ state = "JOG"

\* A spindle stop override is one of a hold; only a soft limit ends the hold before it.
OverrideInv ==
  /\ state = "JOG" => spindle_stop_ovr = {}
  /\ state \in {"IDLE", "CYCLE"} /\ spindle_stop_ovr # {} => soft_limit
  /\ state = "IDLE" /\ ("HOLD_COMPLETE" \in suspend \/ "MOTION_CANCEL" \in sys_rt_exec_state
                         \/ Served("MOTION_CANCEL", {"hold"})) => spindle_stop_ovr = {}
  /\ state = "SAFETY_DOOR" /\ "RETRACT_COMPLETE" \in suspend => spindle_stop_ovr = {}

\* The restore is asked for behind a closed door, and a door that opens takes the
\* request back.
DoorInv ==
  /\ "INITIATE_RESTORE" \in suspend /\ state = "SAFETY_DOOR" =>
       /\ suspend \cap {"SAFETY_DOOR_AJAR", "RESTART_RETRACT"} = {}
       /\ "RETRACT_COMPLETE" \in suspend
  /\ "RESTART_RETRACT" \in suspend =>
       suspend \cap {"RETRACT_COMPLETE", "RESTORE_COMPLETE", "INITIATE_RESTORE"} = {}

\* A session without a door has no door state, and in one without feed holds only a
\* soft limit asks for one.
DoorlessInv ==
  Commands \cap {"DOOR", "SAFETY_DOOR"} = {} =>
    /\ ~door /\ ~previousPin /\ "SAFETY_DOOR" \notin sys_rt_exec_state \cup rt_exec
    /\ state # "SAFETY_DOOR" /\ "SAFETY_DOOR_AJAR" \notin suspend
HoldlessInv ==
  "FEED_HOLD" \notin Commands =>
    /\ "FEED_HOLD" \in sys_rt_exec_state =>
         /\ suspend = {} /\ pc \in {"alarm", "copy", "hold", "critical", "abort"}
         /\ pc = "hold" => "FEED_HOLD" \in rt_exec
    /\ Served("FEED_HOLD", {"hold"}) => suspend = {}

\* The cycle start that the restore has flagged is still to be served, and will be.
RestorePending ==
  \/ pc \in {"alarm", "copy"} /\ "CYCLE_START" \in sys_rt_exec_state
  \/ pc = "hold" /\ "CYCLE_START" \in rt_exec
  \/ pc = "start" /\ "CYCLE_START" \in rt_exec
       /\ rt_exec \cap {"FEED_HOLD", "MOTION_CANCEL", "SAFETY_DOOR"} = {}

\* The restore has brought the spindle back, and the cycle start follows at once;
\* while it waits for the spindle nothing resumes, and a door makes it bail out.
RestoreInv ==
  /\ pc = "restoring" => caller = "restore"
  /\ "RESTORE_COMPLETE" \in suspend =>
       \/ AboutToAbort
       \/ /\ state = "SAFETY_DOOR" /\ "INITIATE_RESTORE" \in suspend
          /\ caller = "suspend" /\ RestorePending
          /\ spindle = modal_spindle \/ Resetting
  /\ caller = "restore" /\ pc \in {"alarm", "copy", "hold", "start", "stop", "finish", "restoring"} =>
       \/ AboutToAbort
       \/ /\ state = "SAFETY_DOOR" /\ "RESTORE_COMPLETE" \notin suspend
          /\ \/ "RESTART_RETRACT" \in suspend
             \/ "INITIATE_RESTORE" \in suspend /\ (spindle = modal_spindle \/ Resetting)

\* Outside of the door and of sleep only a spindle stop of a complete hold has the
\* spindle off.
SpindleInv ==
  ~Resetting =>
    /\ state \in {"IDLE", "CYCLE", "JOG"} => spindle = modal_spindle
    /\ state = "HOLD" =>
         spindle = modal_spindle \/ ("ENABLED" \in spindle_stop_ovr /\ "HOLD_COMPLETE" \in suspend)

\* The state, the spindle and the stepper interrupt agree: no cycle with the
\* programmed spindle off, no retracted machine with it on, and no steps at rest.
\* The parts together are inductive.
RtInv ==
  /\ RtTypeOK /\ ProbingInv /\ SuspendInv /\ ResetInv /\ LockInv
  /\ spindle => modal_spindle
  /\ NoProbing => /\ SleepInv /\ RestInv /\ SoftLimitInv /\ CancelInv /\ DoorInv
                  /\ DoorlessInv /\ HoldlessInv
  /\ NoProbing /\ ~HoldBehindDoor => OverrideInv /\ RestoreInv /\ SpindleInv
  /\ SpindleRunsInCycle /\ RetractedMeansOff /\ RestMeansStopped

\* No cycle or jog starts while the safety door is flagged as ajar
\* (protocol.c:422, "blocks resuming until switch is re-engaged").
NoStartWithDoorAjar ==
  [][state \notin {"CYCLE", "JOG"} /\ state' \in {"CYCLE", "JOG"}
       => "SAFETY_DOOR_AJAR" \notin suspend]_vars

\* A jog that is being cancelled ends, with nothing of it left in the rings,
\* also when the door opens meanwhile (protocol.c:348-357, 471-482).
JogCancelEnds ==
  "JOG_CANCEL" \in suspend ~> "JOG_CANCEL" \notin suspend /\ queue = <<>> /\ segs = {}

\* A probing cycle ends, unless the operator holds it (motion_control.c:288-291).
ProbeEnds == task = "probing" ~> task # "probing" \/ "HOLD_COMPLETE" \in suspend

\* A feed hold of a cycle comes to a complete stop (protocol.c:343-376, 466).
HoldStops ==
  "FEED_HOLD" \in sys_rt_exec_state /\ state = "CYCLE"
    ~> Resetting \/ state = "IDLE" \/ "HOLD_COMPLETE" \in suspend

\* A cycle ends: its motion is over, or a hold, a door or a reset ends it
\* (protocol.c:456-487).
CycleEnds == state = "CYCLE" ~> state # "CYCLE"

\* Nothing moves for ever: a cycle ends, and a hold is served in one.
MotionEnds == CycleEnds /\ HoldStops

\* Only $X takes the alarm lock away: neither a reset, nor sleep and a reset,
\* nor the end of a motion does (main.c:65-67, protocol.c:54-58).
AlarmStays ==
  [][NoProbing /\ state \in {"ALARM", "SLEEP"} /\ state' \notin {"ALARM", "SLEEP"} => Unlock]_vars

\* In ALARM no motion is queued, as main.c:65 says ("Alarm locks out all g-code
\* commands") ...
AlarmLocksMotion ==
  [][state = "ALARM" /\ (NoProbing \/ ~session.sd) => Len(queue') <= Len(queue)]_vars

\* ... but by a line of the operator's panel, which no lock is asked about
\* (protocol.c:108, 164-171).  What it queues does not move before $X (RestInv).
AlarmLocksSenders ==
  [][state = "ALARM" /\ (NoProbing \/ ~session.sd) /\ ~panel => Len(queue') <= Len(queue)]_vars

\* A reset that cuts a motion short ends in the alarm state, or is about to
\* (motion_control.c:362-364).
PositionLostLocks ==
  position_lost => state \in {"ALARM", "SLEEP"} \/ Resetting \/ sys_rt_exec_alarm # "none"

\* A requested reset stays requested until it is served (serial.c:156).
ResetNeverLost ==
  [][Resetting /\ ~Resetting' /\ (NoProbing \/ "RESET" \notin Commands) => pc \in {"abort", "alarm"}]_vars

\* A probe that has made contact does not move on: its cycle is not started
\* again (protocol.c:361-362).
ProbeStops ==
  [][state # "CYCLE" /\ state' = "CYCLE" => ~(task = "probing" /\ sys_probe_state = "OFF")]_vars
=============================================================================
