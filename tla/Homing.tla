--------------------------------- MODULE Homing ---------------------------------
(***************************************************************************)
(* The homing cycle, $H: limits_go_home() (limitswitches.c) for X, then    *)
(* for Z, four passes each (towards the switch, off it, slowly towards it, *)
(* off it), below mc_homing_cycle() and system_execute_line().  The main   *)
(* program polls the limit inputs, the stepper interrupt steps the axis    *)
(* that is not locked and the serial interrupt sets realtime flags.        *)
(*                                                                         *)
(* hm_place is where the axis really is, 0 where its switch closes on the  *)
(* way up.  Both switches of an axis share a bit of limits_get_state().    *)
(* The main program polls often: at most one step falls between two polls. *)
(***************************************************************************)
EXTENDS Integers, Sequences, FiniteSets

CONSTANTS
  HmSearch,        \* 1.5 * max_travel, in steps
  HmPulloff,       \* settings.homing_pulloff, in steps
  HmLocateScalar,  \* HOMING_AXIS_LOCATE_SCALAR
  HmLength,        \* the switch at the other end closes at -HmLength
  HmPlaces,        \* where an axis may stand when homing starts
  HmCommands,      \* realtime commands that may come
  HmMaxCommands,   \* bound: how many come
  HmMaxCycles      \* bound: how often $H is sent

ASSUME HmAssumption ==
  /\ HmPulloff \in Nat \ {0, 1} /\ HmSearch \in Nat /\ HmLocateScalar \in Nat \ {0, 1}
  /\ HmLength \in Nat /\ HmLength > HmPulloff /\ HmPlaces \subseteq Int
  /\ HmCommands \subseteq {"RESET", "SAFETY_DOOR", "FEED_HOLD", "CYCLE_START"}
  /\ HmMaxCommands \in Nat /\ HmMaxCycles \in Nat

VARIABLES
  hm_state,        \* sys.state
  hm_exec,         \* sys_rt_exec_state
  hm_alarm,        \* sys_rt_exec_alarm
  hm_abort,        \* sys.abort
  hm_suspend,      \* sys.suspend
  hm_at,           \* where the main program is
  hm_axis,         \* the axis of this call of limits_go_home()
  hm_pass,         \* n_cycle, counting up; even passes approach
  hm_lock,         \* sys.homing_axis_lock: the axes that may step
  hm_motor,        \* the stepper interrupt: on, steps left, their direction
  hm_stepped,      \* a step was made since the last poll
  hm_place,        \* where the axes are
  hm_position,     \* sys_position
  hm_homed,        \* axes homed by this cycle
  hm_bounds        \* what is left of the bounds

hmSys == <<hm_state, hm_exec, hm_alarm, hm_abort, hm_suspend>>
hmMain == <<hm_at, hm_axis, hm_pass, hm_lock, hm_homed>>
hmMachine == <<hm_motor, hm_stepped, hm_place, hm_position>>
hmVars == <<hmSys, hmMain, hmMachine, hm_bounds>>

HmAxes == {"X", "Z"}
NoMotion == [on |-> FALSE, left |-> 0, way |-> 1]
HmExec == {"RESET", "SAFETY_DOOR", "FEED_HOLD", "CYCLE_START", "CYCLE_STOP"}
HmAlarms == {"HOMING_FAIL_RESET", "HOMING_FAIL_DOOR", "HOMING_FAIL_PULLOFF",
             "HOMING_FAIL_APPROACH"}

HmTypeOK ==
  /\ hm_state \in {"IDLE", "HOMING", "ALARM", "SAFETY_DOOR", "HOLD"}
  /\ hm_exec \subseteq HmExec /\ hm_alarm \in HmAlarms \cup {"none"}
  /\ hm_abort \in BOOLEAN /\ hm_suspend \subseteq {"DOOR_AJAR", "HOLD_COMPLETE"}
  /\ hm_at \in {"main", "plan", "limits", "exits", "delay", "last", "leave", "suspend", "restart"}
  /\ hm_axis \in HmAxes /\ hm_pass \in 0..3 /\ hm_lock \subseteq HmAxes /\ hm_homed \subseteq HmAxes
  /\ hm_motor \in [on : BOOLEAN, left : Nat, way : {1, -1}] /\ hm_stepped \in BOOLEAN
  /\ hm_place \in [HmAxes -> Int] /\ hm_position \in [HmAxes -> Int]

Approach == hm_pass % 2 = 0

(* limits_get_state(): one bit per axis for the switches at both of its ends. *)
LimitState == {a \in HmAxes : hm_place[a] >= 0 \/ hm_place[a] <= -HmLength}

-----------------------------------------------------------------------------
(* Interrupts.                                                             *)

Step ==
  /\ hm_motor.on /\ hm_motor.left > 0 /\ ~hm_stepped
  /\ hm_motor' = [hm_motor EXCEPT !.left = @ - 1]
  /\ hm_stepped' = TRUE
  /\ hm_position' = [hm_position EXCEPT ![hm_axis] = @ + hm_motor.way]
  /\ hm_place' = IF hm_axis \in hm_lock \/ hm_state # "HOMING"
                 THEN [hm_place EXCEPT ![hm_axis] = @ + hm_motor.way]
                 ELSE hm_place
  /\ UNCHANGED <<hmSys, hmMain, hm_bounds>>

BufferEmpty ==   \* st_go_idle(), EXEC_CYCLE_STOP
  /\ hm_motor.on /\ hm_motor.left = 0
  /\ hm_motor' = NoMotion /\ hm_exec' = hm_exec \cup {"CYCLE_STOP"}
  /\ UNCHANGED <<hm_state, hm_alarm, hm_abort, hm_suspend, hmMain, hm_stepped, hm_place,
                 hm_position, hm_bounds>>

Killed(exec, alarm) ==   \* mc_reset()
  IF "RESET" \in exec
  THEN hm_exec' = exec /\ hm_alarm' = alarm /\ UNCHANGED hm_motor
  ELSE /\ hm_exec' = exec \cup {"RESET"}
       /\ IF hm_state = "HOMING"
          THEN /\ hm_alarm' = IF alarm = "none" THEN "HOMING_FAIL_RESET" ELSE alarm
               /\ hm_motor' = [hm_motor EXCEPT !.on = FALSE]
          ELSE hm_alarm' = alarm /\ UNCHANGED hm_motor

HmCommand == \E c \in HmCommands :
  /\ hm_bounds.commands > 0
  /\ hm_bounds' = [hm_bounds EXCEPT !.commands = @ - 1]
  /\ IF c = "RESET" THEN Killed(hm_exec, hm_alarm)
     ELSE hm_exec' = hm_exec \cup {c} /\ UNCHANGED <<hm_alarm, hm_motor>>
  /\ UNCHANGED <<hm_state, hm_abort, hm_suspend, hmMain, hm_stepped, hm_place, hm_position>>

-----------------------------------------------------------------------------
(* protocol_exec_rt_system(), as far as no cycle and no jog is under way.  *)

Hold(exec) == exec \cap {"FEED_HOLD", "SAFETY_DOOR"} # {}

ExecRtSystem(state, exec, alarm) ==
  LET now == IF alarm # "none" THEN "ALARM" ELSE state
      held == ~(now = "ALARM") /\ Hold(exec)
      after == IF ~held THEN now
               ELSE IF "SAFETY_DOOR" \in exec THEN "SAFETY_DOOR"
               ELSE IF now = "SAFETY_DOOR" THEN now ELSE "HOLD"
      suspend == IF ~held THEN hm_suspend
                 ELSE (IF now = "IDLE" THEN {"HOLD_COMPLETE"} ELSE hm_suspend)
                      \cup (IF "SAFETY_DOOR" \in exec THEN {"DOOR_AJAR"} ELSE {})
      starts == "CYCLE_START" \in exec /\ ~Hold(exec)
                /\ (after = "IDLE" \/ (after = "HOLD" /\ "HOLD_COMPLETE" \in suspend))
  IN /\ hm_alarm' = "none"
     /\ IF "RESET" \in exec
        THEN hm_abort' = TRUE /\ hm_state' = now /\ hm_exec' = exec /\ UNCHANGED hm_suspend
        ELSE /\ hm_state' = IF starts THEN "IDLE" ELSE after
             /\ hm_suspend' = IF starts THEN {} ELSE suspend
             /\ hm_exec' = {} /\ UNCHANGED hm_abort

-----------------------------------------------------------------------------
(* limits_go_home().                                                       *)

PassDistance == CASE hm_pass = 0 -> HmSearch
              [] hm_pass = 2 -> HmPulloff * HmLocateScalar
              [] OTHER -> HmPulloff

Plan ==   \* the top of a pass: planner, lock, st_prep_buffer(), st_wake_up()
  /\ hm_at = "plan"
  /\ hm_position' = [hm_position EXCEPT ![hm_axis] = 0]
  /\ hm_lock' = {hm_axis}
  /\ hm_motor' = [on |-> TRUE, left |-> PassDistance, way |-> IF Approach THEN 1 ELSE -1]
  /\ hm_at' = "limits" /\ hm_stepped' = FALSE
  /\ UNCHANGED <<hmSys, hm_axis, hm_pass, hm_homed, hm_place, hm_bounds>>

PollLimits ==
  /\ hm_at = "limits" /\ hm_at' = "exits"
  /\ hm_lock' = IF Approach THEN hm_lock \ LimitState ELSE hm_lock
  /\ UNCHANGED <<hmSys, hm_axis, hm_pass, hm_homed, hmMachine, hm_bounds>>

FailureButPulloff ==
  CASE Approach /\ "CYCLE_STOP" \in hm_exec -> "HOMING_FAIL_APPROACH"
    [] "SAFETY_DOOR" \in hm_exec -> "HOMING_FAIL_DOOR"
    [] "RESET" \in hm_exec -> "HOMING_FAIL_RESET"
    [] OTHER -> hm_alarm

(* The alarms in the order in which they are set: the last one stays. *)
Failure ==
  CASE Approach /\ "CYCLE_STOP" \in hm_exec -> "HOMING_FAIL_APPROACH"
    [] ~Approach /\ hm_axis \in LimitState -> "HOMING_FAIL_PULLOFF"
    [] "SAFETY_DOOR" \in hm_exec -> "HOMING_FAIL_DOOR"
    [] "RESET" \in hm_exec -> "HOMING_FAIL_RESET"
    [] OTHER -> hm_alarm

ExitOnCommands == hm_exec \cap {"SAFETY_DOOR", "RESET"} # {}
Exit == hm_exec \cap {"SAFETY_DOOR", "RESET", "CYCLE_STOP"} # {}

Stopped ==   \* st_reset() at the end of a pass
  hm_motor' = NoMotion /\ hm_at' = "delay"

FailsAndIdles ==   \* sys.state is set although sys.abort is
  /\ hm_state' = "IDLE" /\ hm_alarm' = "none" /\ hm_abort' = TRUE
  /\ hm_exec' = hm_exec \cup {"RESET"}
  /\ hm_motor' = IF "RESET" \in hm_exec THEN hm_motor ELSE [hm_motor EXCEPT !.on = FALSE]
  /\ hm_at' = "restart" /\ UNCHANGED hm_suspend

Fails ==   \* mc_reset(), protocol_execute_realtime(): ALARM and abort
  /\ hm_state' = "ALARM" /\ hm_alarm' = "none" /\ hm_abort' = TRUE
  /\ hm_exec' = hm_exec \cup {"RESET"}
  /\ hm_motor' = IF "RESET" \in hm_exec THEN hm_motor ELSE [hm_motor EXCEPT !.on = FALSE]
  /\ hm_at' = "restart" /\ UNCHANGED hm_suspend

PollExits ==
  /\ hm_at = "exits"
  /\ IF Exit
     THEN IF Failure # "none"
          THEN Fails
          ELSE /\ hm_exec' = hm_exec \ {"CYCLE_STOP"} /\ Stopped
               /\ UNCHANGED <<hm_state, hm_alarm, hm_abort, hm_suspend>>
     ELSE /\ IF hm_lock = {} THEN Stopped ELSE hm_at' = "limits" /\ UNCHANGED hm_motor
          /\ UNCHANGED hmSys
  /\ hm_stepped' = FALSE
  /\ UNCHANGED <<hm_axis, hm_pass, hm_lock, hm_homed, hm_place, hm_position, hm_bounds>>

HomedPosition == -HmPulloff

PassesLeftOneMore == hm_pass <= 3
PassesLeft == hm_pass < 3

Delay ==   \* the debounce delay, then the next pass, the next axis or the end
  /\ hm_at = "delay"
  /\ IF PassesLeft
     THEN /\ hm_pass' = hm_pass + 1 /\ hm_at' = "plan"
          /\ UNCHANGED <<hm_axis, hm_homed, hm_position>>
     ELSE /\ hm_position' = [hm_position EXCEPT ![hm_axis] = HomedPosition]
          /\ hm_homed' = hm_homed \cup {hm_axis}
          /\ hm_pass' = 0 /\ hm_axis' = "Z"
          /\ hm_at' = IF hm_axis = "X" THEN "plan" ELSE "last"
  /\ UNCHANGED <<hmSys, hm_lock, hm_motor, hm_stepped, hm_place, hm_bounds>>

-----------------------------------------------------------------------------
(* $H and the main program around it.                                      *)

(* The checks that refuse $H without an effect: the state, and homing that *)
(* is not enabled or a door that is ajar, in which case nothing happens.   *)
HomingAccepted ==
  /\ hm_at = "main" /\ hm_state \in {"IDLE", "ALARM"} /\ hm_exec = {}
  /\ hm_bounds.cycles > 0 /\ hm_bounds' = [hm_bounds EXCEPT !.cycles = @ - 1]
  /\ hm_state' = "HOMING"

HomingCommand ==
  /\ HomingAccepted /\ hm_at' = "plan"
  /\ hm_axis' = "X" /\ hm_pass' = 0 /\ hm_homed' = {}
  /\ UNCHANGED <<hm_exec, hm_alarm, hm_abort, hm_suspend, hm_lock, hmMachine>>

(* Anything behind $H, $HX for one: the line is refused, as single axes are *)
(* not enabled, after the state was set.                                    *)
HomingOfOneAxis ==
  /\ HomingAccepted
  /\ UNCHANGED <<hm_exec, hm_alarm, hm_abort, hm_suspend, hmMain, hmMachine>>

LastPoll ==   \* the end of mc_homing_cycle(); IDLE without an abort
  /\ hm_at = "last"
  /\ ExecRtSystem(hm_state, hm_exec, hm_alarm)
  /\ hm_at' = IF hm_suspend' # {} THEN "suspend"
              ELSE IF hm_abort' THEN "restart" ELSE "leave"
  /\ UNCHANGED <<hm_axis, hm_pass, hm_lock, hm_homed, hmMachine, hm_bounds>>

LeaveHoming ==
  /\ hm_at = "leave" /\ hm_state' = "IDLE" /\ hm_at' = "main"
  /\ UNCHANGED <<hm_exec, hm_alarm, hm_abort, hm_suspend, hm_axis, hm_pass, hm_lock, hm_homed,
                 hmMachine, hm_bounds>>

MainPoll ==   \* protocol_execute_realtime() of the main loop
  /\ hm_at = "main" /\ (hm_exec # {} \/ hm_alarm # "none")
  /\ ExecRtSystem(hm_state, hm_exec, hm_alarm)
  /\ hm_at' = IF hm_suspend' # {} THEN "suspend" ELSE IF hm_abort' THEN "restart" ELSE "main"
  /\ UNCHANGED <<hm_axis, hm_pass, hm_lock, hm_homed, hmMachine, hm_bounds>>

(* protocol_exec_rt_suspend(): what follows a complete hold is left to      *)
(* Realtime; without it, only a reset ends the loop.                       *)
Suspend ==
  /\ hm_at = "suspend"
  /\ IF "RESET" \in hm_exec
     THEN hm_abort' = TRUE /\ hm_at' = "restart" /\ UNCHANGED <<hm_state, hm_exec, hm_suspend>>
     ELSE /\ "HOLD_COMPLETE" \in hm_suspend
          /\ hm_suspend' = {} /\ hm_state' = "IDLE" /\ hm_exec' = {}
          /\ hm_at' = "main" /\ UNCHANGED hm_abort
  /\ UNCHANGED <<hm_alarm, hm_axis, hm_pass, hm_lock, hm_homed, hmMachine, hm_bounds>>

HmRestart ==   \* the loop of main() and the start of protocol_main_loop()
  /\ hm_at = "restart" /\ hm_at' = "main"
  /\ hm_state' = IF hm_state = "ALARM" THEN "ALARM" ELSE "IDLE"
  /\ hm_exec' = {} /\ hm_alarm' = "none" /\ hm_abort' = FALSE /\ hm_suspend' = {}
  /\ hm_motor' = NoMotion /\ hm_lock' = {} /\ hm_stepped' = FALSE
  /\ UNCHANGED <<hm_axis, hm_pass, hm_homed, hm_place, hm_position, hm_bounds>>

HmInit ==
  /\ hm_state = "IDLE" /\ hm_exec = {} /\ hm_alarm = "none" /\ hm_abort = FALSE
  /\ hm_suspend = {} /\ hm_at = "main" /\ hm_axis = "X" /\ hm_pass = 0 /\ hm_lock = {}
  /\ hm_motor = NoMotion /\ hm_stepped = FALSE /\ hm_homed = {}
  /\ hm_place \in [HmAxes -> HmPlaces] /\ hm_position = [a \in HmAxes |-> 0]
  /\ hm_bounds = [commands |-> HmMaxCommands, cycles |-> HmMaxCycles]

HmMain == \/ Plan \/ PollLimits \/ PollExits \/ Delay \/ LastPoll \/ LeaveHoming
          \/ MainPoll \/ Suspend \/ HmRestart
HmNext == HomingCommand \/ HomingOfOneAxis \/ HmMain \/ Step \/ BufferEmpty \/ HmCommand

(* The interrupts are served and the main program is not stopped.          *)
HmFairness == WF_hmVars(HmMain) /\ WF_hmVars(Step \/ BufferEmpty)
HmSpec == HmInit /\ [][HmNext]_hmVars /\ HmFairness

-----------------------------------------------------------------------------
(* An axis that was homed is where its position says, within the step that *)
(* may fall between two polls, whatever came in between and wherever the   *)
(* axis stood when homing started.                                         *)
HomedMeansLocated == \A a \in hm_homed : hm_place[a] - hm_position[a] \in 0..1

(* Why: a cycle homes X, then Z, and only the axis being homed moves.      *)
HmCycle == {"plan", "limits", "exits", "delay"}
InTheCycle ==
  /\ hm_at \in HmCycle =>
       hm_state = "HOMING" /\ hm_homed = (IF hm_axis = "X" THEN {} ELSE {"X"})
  /\ hm_at \in {"last", "leave"} => hm_homed = HmAxes
  /\ hm_motor.on => hm_at \in {"limits", "exits", "restart"} /\ hm_axis \notin hm_homed

(* Where the passes leave the axis: the first two off its switch, within   *)
(* reach, the third on it, the fourth homed.  A pass starts where the one  *)
(* before it has ended.                                                    *)
Place == hm_place[hm_axis]
PlaceAfter(passes) ==
  /\ passes = 2 => Place < 0 /\ Place > -HmLength
  /\ passes = 3 => Place \in 0..1
  /\ passes = 4 => Place + HmPulloff \in 0..1
BetweenPasses ==
  /\ hm_at = "plan" => PlaceAfter(hm_pass)
  /\ hm_at = "delay" => PlaceAfter(hm_pass + 1)
  /\ hm_at \in {"plan", "delay"} => "CYCLE_STOP" \notin hm_exec

(* During a pass: the motor stops when its steps are made; the slow        *)
(* approach goes no further than two steps beyond the last poll that has   *)
(* found the switch open; and the steps left to pull off lead off it.      *)
InPass ==
  hm_at \in {"limits", "exits"} =>
    /\ "CYCLE_STOP" \in hm_exec => ~hm_motor.on /\ hm_motor.left = 0
    /\ hm_motor.on => hm_motor.way = IF Approach THEN 1 ELSE -1
    /\ hm_lock = {hm_axis} \/ (hm_at = "exits" /\ Approach /\ hm_lock = {})
    /\ hm_pass = 2 =>
         /\ Place > -HmLength
         /\ IF hm_lock = {} THEN Place \in 0..1
            ELSE Place + (IF hm_at = "exits" THEN 1 ELSE 0) <= (IF hm_stepped THEN 1 ELSE 0)
    /\ hm_pass = 3 => Place + HmPulloff - hm_motor.left \in 0..1

HmInv == HmTypeOK /\ HomedMeansLocated /\ InTheCycle /\ BetweenPasses /\ InPass

(* Homing that does not locate both axes never ends in IDLE.               *)
FailedHomingLocks ==
  [][hm_state' = "IDLE" /\ hm_at \notin {"main", "restart", "suspend"} => hm_homed = HmAxes]_hmVars

(* Every homing cycle ends, with the axes located or with an alarm: no     *)
(* switch, no command and no abort leaves the axes moving or the program   *)
(* in the loop.                                                            *)
HomingEnds == hm_state = "HOMING" /\ hm_at # "main" ~> hm_state # "HOMING"

(* main.c:66: "Only a homing cycle '$H' or kill alarm locks '$X' will      *)
(* disable the alarm."  $HX does too: it leaves HOMING behind, in which    *)
(* the main loop takes lines of G-code and refuses $H and $X.              *)
OnlyHomingUnlocks == [][hm_state = "ALARM" /\ hm_state' # "ALARM" => hm_at' = "plan"]_hmVars

(* limitswitches.c:247: "Only the abort realtime command can interrupt     *)
(* this process", and the door is one of its failures, with an alarm.      *)
(* A door that opens after the last pass leaves the program in the suspend *)
(* loop instead, which only a reset ends.                                  *)
HomingIsNotSuspended ==
  []~(hm_at = "suspend" /\ hm_homed = HmAxes /\ "HOLD_COMPLETE" \notin hm_suspend)

\* An axis that counts as homed is where it says, and homing ends in IDLE only
\* with every axis homed.
HmSafe == []HmInv /\ FailedHomingLocks
=============================================================================
