------------------------------- MODULE Overrides -------------------------------
(***************************************************************************)
(* The overrides of feed, rapids and spindle speed, and the outputs of     *)
(* spindle and coolant (protocol.c, spindle_control.c, coolant_control.c,  *)
(* UISupport.cpp, main.c), which are set by                                *)
(*   - the lines of the program, through a wait for the motions before,    *)
(*   - realtime commands, served whenever the main program polls,          *)
(*   - the potentiometers of the user interface, which it polls as well,   *)
(*   - the stepper interrupt, which loads a spindle level with a segment,  *)
(*   - a reset, which comes from an interrupt between any two steps.       *)
(* A feed hold only keeps the motion from going on here; parking, the door *)
(* and the spindle stop are in Realtime, laser mode is left out.           *)
(***************************************************************************)
EXTENDS Integers

CONSTANTS
  OvDefault, OvMin, OvMax, OvCoarse, OvFine,   \* of feed and spindle speed
  OvModulus,                  \* of uint8_t
  OvMedium, OvLow,            \* of rapids
  OvFeedPots, OvRapidPots,    \* readings of the potentiometers
  OvRefresh,                  \* reports between two of the overrides
  OvMaxCommands,              \* bound on the realtime commands
  OvUses                      \* the sets of commands and potentiometers that an
                              \* operator may use in one behaviour

VARIABLES
  ov_f, ov_r, ov_s,    \* sys.f_override, r_override, spindle_speed_ovr
  ov_use,              \* what the operator uses in this behaviour
  ov_flags,            \* sys_rt_exec_motion_override, accessory_override
  ov_commands,         \* bound
  ov_pots,             \* previousFeedOverridePotValue, previousRapid...
  ov_planned,          \* the overrides the planner's velocities stand for
  ov_state,            \* sys.state: "IDLE", "CYCLE", "HOLD"
  ov_update,           \* STEP_CONTROL_UPDATE_SPINDLE_PWM
  ov_segments,         \* motion is left to prepare; the level prepared last
  ov_modal,            \* gc_state: spindle, speed, coolant
  ov_line,             \* the line that is executed: the block's modal values,
                       \* and how far it has come
  ov_spindle,          \* the spindle's pins
  ov_coolant,          \* the coolant's pins that are on
  ov_counter,          \* sys.report_ovr_counter
  ov_told,             \* the last report with overrides still holds
  ov_reset             \* EXEC_RESET

ov_sys == <<ov_f, ov_r, ov_s>>
ov_motion == <<ov_state, ov_update, ov_segments>>
ov_outputs == <<ov_spindle, ov_coolant>>
ovVars == <<ov_use, ov_sys, ov_flags, ov_commands, ov_pots, ov_planned, ov_motion, ov_modal,
            ov_line, ov_outputs, ov_counter, ov_told, ov_reset>>

FeedCommands == {"feed_reset", "feed_coarse_plus", "feed_coarse_minus", "feed_fine_minus"}
RapidCommands == {"rapid_reset", "rapid_medium", "rapid_low"}
SpindleCommands == {"spindle_reset", "spindle_coarse_plus", "spindle_coarse_minus", "spindle_fine_minus"}
CoolantCommands == {"flood", "mist"}
Commands == FeedCommands \cup RapidCommands \cup SpindleCommands \cup CoolantCommands

ASSUME OvAssumption ==
  /\ {OvDefault, OvMin, OvMax, OvCoarse, OvFine, OvModulus, OvMedium, OvLow} \subseteq Nat
  /\ OvFeedPots \cup OvRapidPots \subseteq Nat
  /\ 0 < OvMin /\ OvMin < OvDefault /\ OvDefault < OvMax
  /\ OvCoarse <= OvMin /\ OvMax + OvCoarse + OvFine < OvModulus
  /\ \A pot \in OvFeedPots : OvDefault + pot \in OvMin..OvMax
  /\ OvRefresh \in Nat \ {0} /\ OvMaxCommands \in Nat
  /\ \A use \in OvUses : use \subseteq Commands \cup {"feed_pot", "rapid_pot"}

NoLine == [at |-> "none"]
Off == [on |-> FALSE, direction |-> "CW", level |-> 0]
Toggled(set, e) == IF e \in set THEN set \ {e} ELSE set \cup {e}
Bounded(v) == IF v > OvMax THEN OvMax ELSE IF v < OvMin THEN OvMin ELSE v

\* Added up in eight bits, and bounded at the end.
AdjustedBoundedAbove(value, reset, coarse_plus, coarse_minus, fine_minus) ==
  LET sum == ((IF reset \in ov_flags THEN OvDefault ELSE value)
              - (IF coarse_minus \in ov_flags THEN OvCoarse ELSE 0)
              - (IF fine_minus \in ov_flags THEN OvFine ELSE 0)) % OvModulus
  IN IF sum > OvMax THEN OvMax ELSE sum

Adjusted(value, reset, coarse_plus, coarse_minus, fine_minus) ==
  Bounded(((IF reset \in ov_flags THEN OvDefault ELSE value)
           + (IF coarse_plus \in ov_flags THEN OvCoarse ELSE 0)
           - (IF coarse_minus \in ov_flags THEN OvCoarse ELSE 0)
           - (IF fine_minus \in ov_flags THEN OvFine ELSE 0)) % OvModulus)

\* spindle_compute_pwm_value(): the speed scaled by the override.
Level(speed) == IF speed = 0 THEN 0 ELSE ov_s'
\* What a segment that is prepared now asks for.
LevelDue == IF ov_modal.spindle = "M5" \/ ov_modal.speed = 0 THEN 0 ELSE ov_s
\* spindle_get_state(): without a level the PWM is not connected.
SpindleState(pins) == IF pins.on /\ pins.level # 0 THEN pins.direction ELSE "M5"
Reported == <<ov_f, ov_r, ov_s, SpindleState(ov_spindle), ov_coolant>>

\* spindle_set_state()
SpindleSetState(spindle, speed) ==
  ov_spindle' = IF spindle = "M5" THEN [ov_spindle EXCEPT !.on = FALSE, !.level = 0]
                ELSE [on |-> TRUE, direction |-> spindle, level |-> Level(speed)]

-----------------------------------------------------------------------------
(* Polls: protocol_exec_rt_system() and UITask().                          *)

Polling == ~ov_reset /\ ov_line.at \in {"none", "spindle", "coolant"}

\* plan_update_velocity_profile_parameters() and plan_cycle_reinitialize()
Replan == ov_planned' = <<ov_f', ov_r'>>

RapidOverride ==
  IF "rapid_low" \in ov_flags THEN OvLow
  ELSE IF "rapid_medium" \in ov_flags THEN OvMedium
  ELSE IF "rapid_reset" \in ov_flags THEN OvDefault ELSE ov_r

\* Rapids are planned anew only when the feed has changed too.
MotionOverridesFeedOnly ==
  /\ Polling /\ ov_flags \cap (FeedCommands \cup RapidCommands) # {}
  /\ ov_f' = Adjusted(ov_f, "feed_reset", "feed_coarse_plus", "feed_coarse_minus", "feed_fine_minus")
  /\ ov_r' = RapidOverride
  /\ IF ov_f' # ov_f THEN Replan /\ ov_counter' = 0 ELSE UNCHANGED <<ov_planned, ov_counter>>
  /\ ov_flags' = ov_flags \ (FeedCommands \cup RapidCommands)
  /\ UNCHANGED <<ov_s, ov_commands, ov_pots, ov_motion, ov_modal, ov_line, ov_outputs, ov_reset>>

MotionOverrides ==
  /\ Polling /\ ov_flags \cap (FeedCommands \cup RapidCommands) # {}
  /\ ov_f' = Adjusted(ov_f, "feed_reset", "feed_coarse_plus", "feed_coarse_minus", "feed_fine_minus")
  /\ ov_r' = RapidOverride
  /\ IF <<ov_f, ov_r>>' # <<ov_f, ov_r>> THEN Replan /\ ov_counter' = 0
     ELSE UNCHANGED <<ov_planned, ov_counter>>
  /\ ov_flags' = ov_flags \ (FeedCommands \cup RapidCommands)
  /\ UNCHANGED <<ov_s, ov_commands, ov_pots, ov_motion, ov_modal, ov_line, ov_outputs, ov_reset>>

\* The coolant that is toggled is the parser's.  The spindle follows at once
\* when it is idle, otherwise with the next segment.
AccessoryOverrides ==
  /\ Polling /\ ov_flags \cap (SpindleCommands \cup CoolantCommands) # {}
  /\ ov_s' = Adjusted(ov_s, "spindle_reset", "spindle_coarse_plus", "spindle_coarse_minus", "spindle_fine_minus")
  /\ IF ov_s' # ov_s /\ ov_state = "IDLE"
     THEN SpindleSetState(ov_modal.spindle, ov_modal.speed) /\ UNCHANGED ov_update
     ELSE ov_update' = (ov_update \/ ov_s' # ov_s) /\ UNCHANGED ov_spindle
  /\ LET toggles == ov_flags \cap CoolantCommands
         mist == IF "mist" \in toggles THEN Toggled(ov_modal.coolant, "mist") ELSE ov_modal.coolant
         coolant == IF "flood" \in toggles THEN Toggled(mist, "flood") ELSE mist
     IN /\ ov_modal' = [ov_modal EXCEPT !.coolant = coolant]
        /\ ov_coolant' = IF toggles # {} THEN coolant ELSE ov_coolant
        /\ ov_counter' = IF ov_s' # ov_s \/ toggles # {} THEN 0 ELSE ov_counter
  /\ ov_flags' = ov_flags \ (SpindleCommands \cup CoolantCommands)
  /\ UNCHANGED <<ov_f, ov_r, ov_commands, ov_pots, ov_planned, ov_state, ov_segments, ov_line, ov_reset>>

Distance(a, b) == IF a > b THEN a - b ELSE b - a
\* Readings near zero count as zero, and small changes as none.
FeedPot ==
  /\ Polling /\ "feed_pot" \in ov_use
  /\ \E reading \in OvFeedPots :
       /\ Distance(reading, ov_pots.feed) > 2
       /\ ov_pots' = [ov_pots EXCEPT !.feed = reading]
       /\ ov_f' = OvDefault + reading
  /\ IF ov_f' # ov_f THEN ov_planned' = <<ov_f', ov_r>> /\ ov_counter' = 0
     ELSE UNCHANGED <<ov_planned, ov_counter>>
  /\ UNCHANGED <<ov_r, ov_s, ov_flags, ov_commands, ov_motion, ov_modal, ov_line, ov_outputs, ov_reset>>

RapidPot ==
  /\ Polling /\ "rapid_pot" \in ov_use
  /\ \E reading \in OvRapidPots :
       /\ Distance(reading, ov_pots.rapid) > 2
       /\ ov_pots' = [ov_pots EXCEPT !.rapid = reading]
       /\ ov_r' = OvDefault - reading
  /\ IF ov_r' # ov_r THEN ov_planned' = <<ov_f, ov_r'>> /\ ov_counter' = 0
     ELSE UNCHANGED <<ov_planned, ov_counter>>
  /\ UNCHANGED <<ov_f, ov_s, ov_flags, ov_commands, ov_motion, ov_modal, ov_line, ov_outputs, ov_reset>>

\* In a hold the spindle is set by the suspend routine.
HoldSpindle ==
  /\ ~ov_reset /\ ov_state = "HOLD" /\ ov_update
  /\ ov_update' = FALSE
  /\ ov_s' = ov_s /\ SpindleSetState(ov_modal.spindle, ov_modal.speed)
  /\ ov_counter' = 0
  /\ UNCHANGED <<ov_f, ov_r, ov_flags, ov_commands, ov_pots, ov_planned, ov_state, ov_segments, ov_modal, ov_line, ov_coolant, ov_reset>>

\* A status report.  One with the work offsets puts the overrides off to the next:
\* it sets the counter to one, and counts it down at once.
Report ==
  /\ Polling
  /\ \/ ov_counter > 0 /\ ov_counter' = ov_counter - 1
     \/ ov_counter = 0 /\ ov_counter' \in {OvRefresh, 0}
  /\ UNCHANGED <<ov_sys, ov_flags, ov_commands, ov_pots, ov_planned, ov_motion, ov_modal, ov_line, ov_outputs, ov_reset>>

-----------------------------------------------------------------------------
(* Lines: the block starts as a copy of the parser's modal state.          *)

LineUnchanged == UNCHANGED <<ov_sys, ov_flags, ov_commands, ov_pots, ov_planned, ov_reset>>

BeginLine ==
  /\ ov_line = NoLine /\ ~ov_reset
  /\ \E block \in {[ov_modal EXCEPT !.spindle = m, !.speed = v] : m \in {"M5", "CW"}, v \in {0, 1}}
                  \cup {[ov_modal EXCEPT !.coolant = c] : c \in {{}, ov_modal.coolant \cup {"flood"}}} :
       ov_line' = [at |-> "spindle", block |-> block]
  /\ LineUnchanged /\ UNCHANGED <<ov_motion, ov_modal, ov_outputs, ov_counter>>

SpindleDiffers ==
  \/ ov_line.block.spindle # ov_modal.spindle
  \/ ov_line.block.speed # ov_modal.speed /\ ov_modal.spindle # "M5"

\* spindle_sync() comes back from its wait, or there is nothing to set.
SpindleWaited ==
  /\ ov_line.at = "spindle" /\ ~ov_reset
  /\ SpindleDiffers => ov_state = "IDLE" /\ ~ov_segments.left
  /\ ov_line' = [ov_line EXCEPT !.at = IF SpindleDiffers THEN "spindle_set" ELSE "coolant"]
  /\ ov_modal' = IF SpindleDiffers THEN ov_modal ELSE [ov_modal EXCEPT !.speed = ov_line.block.speed]
  /\ LineUnchanged /\ UNCHANGED <<ov_motion, ov_outputs, ov_counter>>

\* A reset may have come since the wait; it has not been served yet.
SpindleSet ==
  /\ ov_line.at = "spindle_set"
  /\ ov_line' = [ov_line EXCEPT !.at = "coolant"]
  /\ LineUnchanged /\ SpindleSetState(ov_line.block.spindle, ov_line.block.speed)
  /\ ov_modal' = [ov_modal EXCEPT !.spindle = ov_line.block.spindle, !.speed = ov_line.block.speed]
  /\ ov_counter' = 0
  /\ UNCHANGED <<ov_motion, ov_coolant>>

\* coolant_sync() likewise.
CoolantWaited ==
  /\ ov_line.at = "coolant" /\ ~ov_reset
  /\ ov_line.block.coolant # ov_modal.coolant => ov_state = "IDLE" /\ ~ov_segments.left
  /\ ov_line' = [ov_line EXCEPT !.at = IF ov_line.block.coolant # ov_modal.coolant
                                       THEN "coolant_set" ELSE "motion"]
  /\ LineUnchanged /\ UNCHANGED <<ov_motion, ov_modal, ov_outputs, ov_counter>>

\* The parser's state is not kept in step.
CoolantSetPinsOnly ==
  /\ ov_line.at = "coolant_set"
  /\ ov_line' = [ov_line EXCEPT !.at = "motion"]
  /\ ov_coolant' = ov_line.block.coolant
  /\ ov_counter' = 0
  /\ LineUnchanged /\ UNCHANGED <<ov_motion, ov_modal, ov_spindle>>

CoolantSetUnreported ==
  /\ ov_line.at = "coolant_set"
  /\ ov_line' = [ov_line EXCEPT !.at = "motion"]
  /\ ov_coolant' = ov_line.block.coolant
  /\ ov_modal' = [ov_modal EXCEPT !.coolant = ov_line.block.coolant]
  /\ LineUnchanged /\ UNCHANGED <<ov_motion, ov_spindle, ov_counter>>

CoolantSet ==
  /\ ov_line.at = "coolant_set"
  /\ ov_line' = [ov_line EXCEPT !.at = "motion"]
  /\ ov_coolant' = ov_line.block.coolant
  /\ ov_modal' = [ov_modal EXCEPT !.coolant = ov_line.block.coolant]
  /\ ov_counter' = 0
  /\ LineUnchanged /\ UNCHANGED <<ov_motion, ov_spindle>>

\* The motion of the line, if it has one, is started or queued.
LineMoves ==
  /\ ov_line.at = "motion" /\ ~ov_reset
  /\ ov_line' = NoLine
  /\ \/ UNCHANGED ov_motion
     \/ ov_state = "IDLE" /\ ov_state' = "CYCLE" /\ ov_update' = TRUE
          /\ ov_segments' = [ov_segments EXCEPT !.left = TRUE]
  /\ LineUnchanged /\ UNCHANGED <<ov_modal, ov_outputs, ov_counter>>

-----------------------------------------------------------------------------
(* The motion.                                                             *)

MotionUnchanged == LineUnchanged /\ UNCHANGED <<ov_modal, ov_line, ov_coolant>>

\* st_prep_buffer(), from the main program, or from the start of a cycle.
PrepareSegment ==
  /\ ~ov_reset /\ ov_state = "CYCLE" /\ ov_segments.left
  /\ ov_segments' \in [left : BOOLEAN, level :
                      {IF ov_update THEN LevelDue ELSE ov_segments.level}]
  /\ ov_update' = FALSE
  /\ MotionUnchanged /\ UNCHANGED <<ov_state, ov_spindle, ov_counter>>

\* The stepper interrupt loads the segment that was prepared last.
LoadSegment ==
  /\ ov_state = "CYCLE" /\ ~ov_reset /\ ~ov_update
  /\ ov_spindle' = [ov_spindle EXCEPT !.level = ov_segments.level]
  /\ MotionUnchanged /\ UNCHANGED <<ov_motion, ov_counter>>

\* An override that comes when all is prepared stays pending.
MotionEnds ==
  /\ ov_state = "CYCLE" /\ ~ov_segments.left /\ ~ov_reset
  /\ ov_spindle.level = ov_segments.level
  /\ ov_state' = "IDLE"
  /\ MotionUnchanged /\ UNCHANGED <<ov_update, ov_segments, ov_spindle, ov_counter>>

\* The rest of the block goes on with the level it had.
HoldOrResumeKeepsLevel ==
  /\ ~ov_reset
  /\ \/ /\ ov_state = "CYCLE" /\ ov_spindle.level = ov_segments.level
        /\ ov_state' = "HOLD" /\ UNCHANGED <<ov_update, ov_segments>>
     \/ /\ ov_state = "HOLD" /\ ~ov_update
        /\ ov_state' = IF ov_segments.left THEN "CYCLE" ELSE "IDLE"
        /\ UNCHANGED <<ov_update, ov_segments>>
  /\ MotionUnchanged /\ UNCHANGED <<ov_spindle, ov_counter>>

\* A hold that is complete, and the cycle start after it: the rest of the block
\* is prepared anew, which takes the override into account.
HoldOrResume ==
  /\ ~ov_reset
  /\ \/ /\ ov_state = "CYCLE" /\ ov_spindle.level = ov_segments.level
        /\ ov_state' = "HOLD" /\ UNCHANGED <<ov_update, ov_segments>>
     \/ /\ ov_state = "HOLD" /\ ~ov_update
        /\ IF ov_segments.left THEN ov_state' = "CYCLE" /\ ov_update' = TRUE
           ELSE ov_state' = "IDLE" /\ UNCHANGED ov_update
        /\ UNCHANGED ov_segments
  /\ MotionUnchanged /\ UNCHANGED <<ov_spindle, ov_counter>>

-----------------------------------------------------------------------------
(* Realtime commands and the reset: interrupts.                            *)

Command ==
  /\ ov_commands < OvMaxCommands /\ ov_commands' = ov_commands + 1
  /\ \E command \in Commands \cap ov_use : ov_flags' = ov_flags \cup {command}
  /\ UNCHANGED <<ov_sys, ov_pots, ov_planned, ov_motion, ov_modal, ov_line, ov_outputs, ov_counter, ov_reset>>

\* mc_reset()
Reset ==
  /\ ~ov_reset /\ ov_reset' = TRUE
  /\ ov_spindle' = [ov_spindle EXCEPT !.on = FALSE, !.level = 0] /\ ov_coolant' = {}
  /\ UNCHANGED <<ov_sys, ov_flags, ov_commands, ov_pots, ov_planned, ov_motion, ov_modal, ov_line, ov_counter>>

\* The main program has come to a poll, goes back to main() and starts anew.
\* The potentiometers' last readings are kept.
Restart ==
  /\ ov_reset /\ ov_line.at \notin {"spindle_set", "coolant_set"}
  /\ ov_f' = OvDefault /\ ov_r' = OvDefault /\ ov_s' = OvDefault
  /\ ov_flags' = {} /\ ov_planned' = <<OvDefault, OvDefault>>
  /\ ov_state' = "IDLE" /\ ov_update' = FALSE
  /\ ov_segments' = [left |-> FALSE, level |-> 0]
  /\ ov_modal' = [spindle |-> "M5", speed |-> 0, coolant |-> {}]
  /\ ov_line' = NoLine
  /\ ov_spindle' = [ov_spindle EXCEPT !.on = FALSE, !.level = 0] /\ ov_coolant' = {}
  /\ ov_counter' = 0 /\ ov_reset' = FALSE
  /\ UNCHANGED <<ov_commands, ov_pots>>

OvInit ==
  /\ ov_use \in OvUses
  /\ ov_f = OvDefault /\ ov_r = OvDefault /\ ov_s = OvDefault
  /\ ov_flags = {} /\ ov_commands = 0 /\ ov_pots = [feed |-> 0, rapid |-> 0]
  /\ ov_planned = <<OvDefault, OvDefault>>
  /\ ov_state = "IDLE" /\ ov_update = FALSE
  /\ ov_segments = [left |-> FALSE, level |-> 0]
  /\ ov_modal = [spindle |-> "M5", speed |-> 0, coolant |-> {}]
  /\ ov_line = NoLine /\ ov_spindle = Off /\ ov_coolant = {}
  /\ ov_counter = 0 /\ ov_told = TRUE /\ ov_reset = FALSE

OvStep ==
  \/ MotionOverrides \/ AccessoryOverrides \/ FeedPot \/ RapidPot \/ HoldSpindle \/ Report
  \/ BeginLine \/ SpindleWaited \/ SpindleSet \/ CoolantWaited \/ CoolantSet \/ LineMoves
  \/ PrepareSegment \/ LoadSegment \/ MotionEnds \/ HoldOrResume
  \/ Command \/ Reset \/ Restart
OvNext ==
  /\ OvStep /\ UNCHANGED ov_use
  /\ ov_told' = ((ov_told \/ ov_counter' = OvRefresh) /\ Reported' = Reported)
OvSpec == OvInit /\ [][OvNext]_ovVars

-----------------------------------------------------------------------------
(* The properties.                                                         *)

Modals == [spindle : {"M5", "CW"}, speed : {0, 1}, coolant : SUBSET CoolantCommands]

OvTypeOK ==
  /\ {ov_f, ov_s} \subseteq OvMin..OvMax
  /\ ov_flags \subseteq Commands /\ ov_counter \in 0..OvRefresh
  /\ ov_state \in {"IDLE", "CYCLE", "HOLD"} /\ ov_update \in BOOLEAN /\ ov_reset \in BOOLEAN
  /\ ov_segments \in [left : BOOLEAN, level : {0} \cup OvMin..OvMax]
  /\ ov_spindle \in [on : BOOLEAN, direction : {"CW"}, level : {0} \cup OvMin..OvMax]
  /\ ov_coolant \subseteq CoolantCommands /\ ov_modal \in Modals
  /\ \/ ov_line = NoLine
     \/ ov_line \in [at : {"spindle", "spindle_set", "coolant", "coolant_set", "motion"},
                     block : Modals]

\* The planner's velocities stand for the overrides that are in force, whoever
\* changed them last.
PlannedWithOverrides == ov_planned = <<ov_f, ov_r>>

\* protocol.c:552: "the current run state can be determined by checking the
\* parser state": the coolant's pins are what the parser has, whether a line or
\* the operator has set it last, until a reset turns them off.
CoolantAsParsed == ov_reset \/ ov_coolant = ov_modal.coolant

\* The pins of the spindle, between lines and while the machine is idle.
SpindleAsParsed ==
  (~ov_reset /\ ov_state = "IDLE" /\ ov_line.at # "spindle_set") =>
     /\ ov_spindle.on = (ov_modal.spindle # "M5")
     /\ ov_spindle.on => ov_spindle.direction = ov_modal.spindle
     /\ ov_spindle.on /\ ov_modal.speed # 0 /\ ~ov_update => ov_spindle.level = ov_s

\* A change of the overrides or of an output is reported by the next status report
\* that has no room taken by the work offsets: reports skip the overrides only when
\* the last ones told still hold.
ReportedSoon == ov_counter > 0 /\ ~ov_reset => ov_told

\* Unless the update is pending, the last segment brings the level that is due, and in
\* a hold the pins have it; the spindle turns, and whichever way, only as parsed.
SpindleFollows ==
  ~ov_reset =>
     /\ ov_spindle.on = (ov_modal.spindle # "M5")
     /\ ov_spindle.on => /\ ov_spindle.direction = ov_modal.spindle
                         /\ (ov_spindle.level # 0) = (ov_modal.speed # 0)
     /\ ov_state = "CYCLE" /\ ~ov_update => ov_segments.level = LevelDue
     /\ ov_state = "HOLD" /\ ~ov_update /\ ov_spindle.on => ov_spindle.level = LevelDue
     /\ ov_line.at = "spindle_set" => ov_state = "IDLE"

\* motion_control.c:372, the reset: "Kill spindle and coolant."
KilledStaysOff == ov_reset => ~ov_spindle.on /\ ov_coolant = {}

\* In every order of commands, potentiometers, lines and resets: the overrides
\* stay in their bounds, the plan uses the ones in force, coolant and spindle are
\* as the lines left them, and every change is reported soon.
OvInv ==
  /\ OvTypeOK /\ PlannedWithOverrides /\ CoolantAsParsed /\ SpindleAsParsed
  /\ SpindleFollows /\ ReportedSoon
=============================================================================
