------------------------------ MODULE MachineProofs ------------------------------
(***************************************************************************)
(* Theorems about Overrides and Homing: what the main program and the      *)
(* interrupts make of the machine's outputs and of its axes, for every     *)
(* bound and increment of the overrides, any potentiometers, commands,     *)
(* lines, motions and resets, and for every distance, every place where    *)
(* the axes may stand, any number of commands and homing cycles.           *)
(*                                                                         *)
(* OvInv is inductive: SpindleFollows is what its other parts need of the  *)
(* spindle between the accesses of the lines, the segments and the hold.   *)
(* HmInv is inductive: that an axis is homed where its position says needs *)
(* where each pass leaves it, and that no other axis moves meanwhile.      *)
(***************************************************************************)
EXTENDS Overrides, Homing, TLAPS

-----------------------------------------------------------------------------
(* Overrides.                                                              *)

LEMMA Numbers ==
  /\ OvDefault \in OvMin..OvMax /\ OvDefault \in Nat /\ OvMin \in Nat /\ OvMax \in Nat
  /\ OvMin > 0 /\ OvMin < OvMax
  /\ OvCoarse \in Nat /\ OvFine \in Nat /\ OvModulus \in Nat \ {0} /\ OvRefresh \in Nat /\ OvRefresh > 0
  /\ \A pot \in OvFeedPots : OvDefault + pot \in OvMin..OvMax
  BY OvAssumption

\* However many commands are added up in eight bits, an override keeps its bounds.
LEMMA AdjustedKeepsBounds ==
  ASSUME NEW v \in OvMin..OvMax, NEW r, NEW cp, NEW cm, NEW fm
  PROVE  Adjusted(v, r, cp, cm, fm) \in OvMin..OvMax
  <1> DEFINE a == (IF r \in ov_flags THEN OvDefault ELSE v)
                  + (IF cp \in ov_flags THEN OvCoarse ELSE 0)
                  - (IF cm \in ov_flags THEN OvCoarse ELSE 0)
                  - (IF fm \in ov_flags THEN OvFine ELSE 0)
  <1>1. a \in Int
    BY Numbers
  <1> HIDE DEF a
  <1>2. a % OvModulus \in Int
    BY <1>1, Numbers
  <1>3. Bounded(a % OvModulus) \in OvMin..OvMax
    BY <1>2, Numbers DEF Bounded
  <1> QED
    BY <1>3 DEF Adjusted, a

\* What setting the spindle comes to.
LEMMA SpindleIsSet ==
  ASSUME OvTypeOK, NEW m \in {"M5", "CW"}, NEW v \in {0, 1}, SpindleSetState(m, v), ov_s' \in OvMin..OvMax
  PROVE  /\ ov_spindle' \in [on : BOOLEAN, direction : {"CW"}, level : {0} \cup OvMin..OvMax]
         /\ ov_spindle'.on = (m # "M5")
         /\ ov_spindle'.on => /\ ov_spindle'.direction = m
                              /\ ov_spindle'.level = IF v = 0 THEN 0 ELSE ov_s'
                              /\ (ov_spindle'.level # 0) = (v # 0)
  <1>1. ov_spindle \in [on : BOOLEAN, direction : {"CW"}, level : {0} \cup OvMin..OvMax]
    BY DEF OvTypeOK
  <1>2. CASE m = "M5"
    <2>1. ov_spindle' = [ov_spindle EXCEPT !.on = FALSE, !.level = 0]
      BY <1>2 DEF SpindleSetState
    <2> QED
      BY <1>1, <1>2, <2>1
  <1>3. CASE m = "CW"
    <2>1. ov_spindle' = [on |-> TRUE, direction |-> "CW", level |-> IF v = 0 THEN 0 ELSE ov_s']
      BY <1>3 DEF SpindleSetState, Level
    <2>2. ov_s' # 0
      BY Numbers
    <2> QED
      BY <1>3, <2>1, <2>2
  <1> QED
    BY <1>2, <1>3

\* OvInv, without what the last reports said.
Kept == OvTypeOK /\ PlannedWithOverrides /\ CoolantAsParsed /\ SpindleAsParsed /\ SpindleFollows

LEMMA InitKept == OvInit => Kept /\ ReportedSoon
  <1> SUFFICES ASSUME OvInit PROVE Kept /\ ReportedSoon
    OBVIOUS
  <1>1. OvTypeOK
    <2>1. ov_segments \in [left : BOOLEAN, level : {0} \cup OvMin..OvMax]
      BY DEF OvInit
    <2>2. ov_spindle \in [on : BOOLEAN, direction : {"CW"}, level : {0} \cup OvMin..OvMax]
      BY DEF OvInit, Off
    <2>3. ov_modal \in Modals
      BY DEF OvInit, Modals
    <2>4. /\ ov_f \in OvMin..OvMax /\ ov_s \in OvMin..OvMax /\ ov_counter \in 0..OvRefresh
          /\ ov_flags \subseteq Commands /\ ov_coolant \subseteq CoolantCommands
      BY Numbers DEF OvInit
    <2> QED
      BY <2>1, <2>2, <2>3, <2>4 DEF OvInit, OvTypeOK
  <1>2. PlannedWithOverrides /\ CoolantAsParsed
    BY DEF OvInit, PlannedWithOverrides, CoolantAsParsed
  <1>3. SpindleAsParsed /\ SpindleFollows
    BY DEF OvInit, SpindleAsParsed, SpindleFollows, Off, NoLine
  <1>4. ReportedSoon
    BY DEF OvInit, ReportedSoon
  <1> QED
    BY <1>1, <1>2, <1>3, <1>4 DEF Kept

-----------------------------------------------------------------------------
(* The steps that change the overrides.                                    *)

LEMMA MotionOverridesKeep ==
  ASSUME Kept, MotionOverrides
  PROVE  Kept'
  <1>1. UNCHANGED <<ov_s, ov_state, ov_update, ov_segments, ov_modal, ov_line, ov_spindle, ov_coolant, ov_reset>>
    BY DEF MotionOverrides, ov_motion, ov_outputs
  <1>2. ov_f' \in OvMin..OvMax
    BY AdjustedKeepsBounds DEF MotionOverrides, Kept, OvTypeOK
  <1>3. ov_flags' \subseteq Commands /\ ov_counter' \in 0..OvRefresh
    BY Numbers DEF MotionOverrides, Kept, OvTypeOK
  <1>4. OvTypeOK'
    BY <1>1, <1>2, <1>3 DEF Kept, OvTypeOK
  <1>5. PlannedWithOverrides'
    BY DEF MotionOverrides, Replan, Kept, PlannedWithOverrides
  <1>6. CoolantAsParsed' /\ SpindleAsParsed' /\ SpindleFollows'
    BY <1>1 DEF Kept, CoolantAsParsed, SpindleAsParsed, SpindleFollows, LevelDue
  <1> QED
    BY <1>4, <1>5, <1>6 DEF Kept

LEMMA FeedPotKeeps ==
  ASSUME Kept, FeedPot
  PROVE  Kept'
  <1>1. UNCHANGED <<ov_r, ov_s, ov_flags, ov_state, ov_update, ov_segments, ov_modal, ov_line, ov_spindle,
                    ov_coolant, ov_reset>>
    BY DEF FeedPot, ov_motion, ov_outputs
  <1>2. ov_f' \in OvMin..OvMax
    BY Numbers DEF FeedPot
  <1>3. ov_counter' \in 0..OvRefresh
    BY Numbers DEF FeedPot, Kept, OvTypeOK
  <1>4. OvTypeOK'
    BY <1>1, <1>2, <1>3 DEF Kept, OvTypeOK
  <1>5. PlannedWithOverrides'
    BY <1>1 DEF FeedPot, Kept, PlannedWithOverrides
  <1>6. CoolantAsParsed' /\ SpindleAsParsed' /\ SpindleFollows'
    BY <1>1 DEF Kept, CoolantAsParsed, SpindleAsParsed, SpindleFollows, LevelDue
  <1> QED
    BY <1>4, <1>5, <1>6 DEF Kept

LEMMA RapidPotKeeps ==
  ASSUME Kept, RapidPot
  PROVE  Kept'
  <1>1. UNCHANGED <<ov_f, ov_s, ov_flags, ov_state, ov_update, ov_segments, ov_modal, ov_line, ov_spindle,
                    ov_coolant, ov_reset>>
    BY DEF RapidPot, ov_motion, ov_outputs
  <1>2. ov_counter' \in 0..OvRefresh
    BY Numbers DEF RapidPot, Kept, OvTypeOK
  <1>3. OvTypeOK'
    BY <1>1, <1>2 DEF Kept, OvTypeOK
  <1>4. PlannedWithOverrides'
    BY <1>1 DEF RapidPot, Kept, PlannedWithOverrides
  <1>5. CoolantAsParsed' /\ SpindleAsParsed' /\ SpindleFollows'
    BY <1>1 DEF Kept, CoolantAsParsed, SpindleAsParsed, SpindleFollows, LevelDue
  <1> QED
    BY <1>3, <1>4, <1>5 DEF Kept

LEMMA AccessoryOverridesKeep ==
  ASSUME Kept, AccessoryOverrides
  PROVE  Kept'
  <1> DEFINE toggles == ov_flags \cap CoolantCommands
             mist == IF "mist" \in toggles THEN Toggled(ov_modal.coolant, "mist") ELSE ov_modal.coolant
             coolant == IF "flood" \in toggles THEN Toggled(mist, "flood") ELSE mist
  <1>1. /\ ~ov_reset /\ ov_line.at \in {"none", "spindle", "coolant"}
        /\ UNCHANGED <<ov_f, ov_r, ov_planned, ov_state, ov_segments, ov_line, ov_reset>>
        /\ ov_modal' = [ov_modal EXCEPT !.coolant = coolant]
        /\ ov_coolant' = IF toggles # {} THEN coolant ELSE ov_coolant
        /\ ov_counter' = IF ov_s' # ov_s \/ toggles # {} THEN 0 ELSE ov_counter
        /\ ov_flags' = ov_flags \ (SpindleCommands \cup CoolantCommands)
    BY DEF AccessoryOverrides, Polling
  <1>2. ov_s' \in OvMin..OvMax
    BY AdjustedKeepsBounds DEF AccessoryOverrides, Kept, OvTypeOK
  <1>3. coolant \subseteq CoolantCommands /\ (toggles = {} => coolant = ov_modal.coolant)
    BY DEF Kept, OvTypeOK, Modals, Toggled, CoolantCommands
  <1>4. ov_modal \in Modals
    BY DEF Kept, OvTypeOK
  <1> HIDE DEF toggles, mist, coolant
  <1>5. /\ ov_modal' \in Modals /\ ov_modal'.coolant = coolant
        /\ ov_modal'.spindle = ov_modal.spindle /\ ov_modal'.speed = ov_modal.speed
    BY <1>1, <1>3, <1>4 DEF Modals
  <1>6. CASE ov_s' # ov_s /\ ov_state = "IDLE"
    <2>1. SpindleSetState(ov_modal.spindle, ov_modal.speed) /\ UNCHANGED ov_update
      BY <1>6 DEF AccessoryOverrides
    <2>2. /\ ov_spindle' \in [on : BOOLEAN, direction : {"CW"}, level : {0} \cup OvMin..OvMax]
          /\ ov_spindle'.on = (ov_modal.spindle # "M5")
          /\ ov_spindle'.on => /\ ov_spindle'.direction = ov_modal.spindle
                               /\ ov_spindle'.level = IF ov_modal.speed = 0 THEN 0 ELSE ov_s'
                               /\ (ov_spindle'.level # 0) = (ov_modal.speed # 0)
      BY <1>2, <1>4, <2>1, SpindleIsSet DEF Kept, Modals
    <2>3. OvTypeOK'
      <3>1. ov_counter' \in 0..OvRefresh /\ ov_flags' \subseteq Commands
        BY <1>1, Numbers DEF Kept, OvTypeOK
      <3>2. ov_coolant' \subseteq CoolantCommands
        BY <1>1, <1>3 DEF Kept, OvTypeOK
      <3>3. ov_f' \in OvMin..OvMax /\ ov_update' \in BOOLEAN
        BY <1>1, <2>1 DEF Kept, OvTypeOK
      <3> QED
        BY <1>1, <1>2, <1>5, <2>2, <3>1, <3>2, <3>3 DEF Kept, OvTypeOK
    <2>4. SpindleAsParsed' /\ SpindleFollows'
      BY <1>1, <1>5, <1>6, <2>1, <2>2 DEF Kept, SpindleAsParsed, SpindleFollows
    <2> QED
      BY <1>1, <1>3, <1>5, <2>3, <2>4 DEF Kept, PlannedWithOverrides, CoolantAsParsed
  <1>7. CASE ~(ov_s' # ov_s /\ ov_state = "IDLE")
    <2>1. ov_update' = (ov_update \/ ov_s' # ov_s) /\ UNCHANGED ov_spindle
      BY <1>7 DEF AccessoryOverrides
    <2>2. OvTypeOK'
      BY <1>1, <1>2, <1>3, <1>5, <2>1, Numbers DEF Kept, OvTypeOK
    <2>3. SpindleAsParsed' /\ SpindleFollows'
      BY <1>1, <1>5, <1>7, <2>1 DEF Kept, SpindleAsParsed, SpindleFollows, LevelDue
    <2> QED
      BY <1>1, <1>3, <1>5, <2>2, <2>3 DEF Kept, PlannedWithOverrides, CoolantAsParsed
  <1> QED
    BY <1>6, <1>7

LEMMA HoldSpindleKeeps ==
  ASSUME Kept, HoldSpindle
  PROVE  Kept'
  <1>1. /\ ov_state = "HOLD" /\ ov_update' = FALSE /\ ov_counter' = 0 /\ ov_s' = ov_s
        /\ UNCHANGED <<ov_f, ov_r, ov_flags, ov_planned, ov_state, ov_segments, ov_modal, ov_line,
                       ov_coolant, ov_reset>>
        /\ SpindleSetState(ov_modal.spindle, ov_modal.speed)
    BY DEF HoldSpindle
  <1>2. /\ ov_spindle' \in [on : BOOLEAN, direction : {"CW"}, level : {0} \cup OvMin..OvMax]
        /\ ov_spindle'.on = (ov_modal.spindle # "M5")
        /\ ov_spindle'.on => /\ ov_spindle'.direction = ov_modal.spindle
                             /\ ov_spindle'.level = IF ov_modal.speed = 0 THEN 0 ELSE ov_s'
                             /\ (ov_spindle'.level # 0) = (ov_modal.speed # 0)
    BY <1>1, SpindleIsSet DEF Kept, OvTypeOK, Modals
  <1>3. OvTypeOK'
    <2>1. ov_counter' \in 0..OvRefresh
      <3>1. ov_counter' = 0
        BY <1>1
      <3> QED
        BY <3>1, Numbers
    <2>2. ov_update' \in BOOLEAN
      BY <1>1
    <2> QED
      BY <1>1, <1>2, <2>1, <2>2 DEF Kept, OvTypeOK
  <1>4. SpindleAsParsed' /\ SpindleFollows'
    BY <1>1, <1>2 DEF Kept, SpindleAsParsed, SpindleFollows, LevelDue
  <1> QED
    BY <1>1, <1>3, <1>4 DEF Kept, PlannedWithOverrides, CoolantAsParsed

-----------------------------------------------------------------------------
(* The lines.                                                              *)

LEMMA BeginLineKeeps ==
  ASSUME Kept, BeginLine
  PROVE  Kept'
  <1>1. /\ UNCHANGED <<ov_f, ov_r, ov_s, ov_flags, ov_planned, ov_state, ov_update, ov_segments, ov_modal,
                       ov_spindle, ov_coolant, ov_counter, ov_reset>>
        /\ \E block \in Modals : ov_line' = [at |-> "spindle", block |-> block]
    <2>1. ov_modal \in Modals
      BY DEF Kept, OvTypeOK
    <2>2. \A m \in {"M5", "CW"}, v \in {0, 1} :
            [ov_modal EXCEPT !.spindle = m, !.speed = v] \in Modals
      BY <2>1 DEF Modals
    <2>3. \A c \in {{}, ov_modal.coolant \cup {"flood"}} : [ov_modal EXCEPT !.coolant = c] \in Modals
      BY <2>1 DEF Modals, CoolantCommands
    <2>4. UNCHANGED <<ov_f, ov_r, ov_s, ov_flags, ov_planned, ov_state, ov_update, ov_segments, ov_modal,
                      ov_spindle, ov_coolant, ov_counter, ov_reset>>
      BY DEF BeginLine, LineUnchanged, ov_sys, ov_motion, ov_outputs
    <2>5. PICK block \in {[ov_modal EXCEPT !.spindle = m, !.speed = v] : m \in {"M5", "CW"}, v \in {0, 1}}
                         \cup {[ov_modal EXCEPT !.coolant = c] : c \in {{}, ov_modal.coolant \cup {"flood"}}} :
            ov_line' = [at |-> "spindle", block |-> block]
      BY DEF BeginLine
    <2>6. block \in Modals
      BY <2>2, <2>3, <2>5
    <2> QED
      BY <2>4, <2>5, <2>6
  <1>2. PICK block \in Modals : ov_line' = [at |-> "spindle", block |-> block]
    BY <1>1
  <1>3. OvTypeOK'
    BY <1>1, <1>2 DEF Kept, OvTypeOK
  <1>4. ov_line.at = "none"
    BY DEF BeginLine, NoLine
  <1> QED
    BY <1>1, <1>2, <1>3, <1>4 DEF Kept, PlannedWithOverrides, CoolantAsParsed, SpindleAsParsed, SpindleFollows, LevelDue

LEMMA SpindleWaitedKeeps ==
  ASSUME Kept, SpindleWaited
  PROVE  Kept'
  <1>1. /\ ov_line.at = "spindle" /\ (SpindleDiffers => ov_state = "IDLE")
        /\ ov_line' = [ov_line EXCEPT !.at = IF SpindleDiffers THEN "spindle_set" ELSE "coolant"]
        /\ ov_modal' = IF SpindleDiffers THEN ov_modal ELSE [ov_modal EXCEPT !.speed = ov_line.block.speed]
        /\ UNCHANGED <<ov_f, ov_r, ov_s, ov_flags, ov_planned, ov_state, ov_update, ov_segments,
                       ov_spindle, ov_coolant, ov_counter, ov_reset>>
    BY DEF SpindleWaited, LineUnchanged, ov_sys, ov_motion, ov_outputs
  <1>2. /\ ov_line \in [at : {"spindle", "spindle_set", "coolant", "coolant_set", "motion"}, block : Modals]
        /\ ov_modal \in Modals
    BY <1>1 DEF Kept, OvTypeOK, NoLine
  <1>3. /\ ov_line' \in [at : {"spindle", "spindle_set", "coolant", "coolant_set", "motion"}, block : Modals]
        /\ ov_line'.at = IF SpindleDiffers THEN "spindle_set" ELSE "coolant"
    BY <1>1, <1>2
  <1>4. ov_line.block \in Modals
    BY <1>2
  <1>5. /\ ov_modal' \in Modals /\ ov_modal'.coolant = ov_modal.coolant
        /\ ov_modal'.spindle = ov_modal.spindle
        /\ ov_modal.spindle # "M5" => ov_modal'.speed = ov_modal.speed
    BY <1>1, <1>2, <1>4 DEF Modals, SpindleDiffers
  <1>6. OvTypeOK'
    BY <1>1, <1>3, <1>5 DEF Kept, OvTypeOK
  <1>7. LevelDue' = LevelDue
    BY <1>1, <1>5 DEF LevelDue
  <1>8. SpindleFollows'
    BY <1>1, <1>3, <1>5, <1>7 DEF Kept, SpindleFollows
  <1>9. SpindleAsParsed'
    BY <1>1, <1>3, <1>5 DEF Kept, SpindleAsParsed, SpindleFollows
  <1> QED
    BY <1>1, <1>5, <1>6, <1>8, <1>9 DEF Kept, PlannedWithOverrides, CoolantAsParsed

LEMMA SpindleSetKeeps ==
  ASSUME Kept, SpindleSet
  PROVE  Kept'
  <1>1. /\ ov_line.at = "spindle_set" /\ ov_line' = [ov_line EXCEPT !.at = "coolant"]
        /\ SpindleSetState(ov_line.block.spindle, ov_line.block.speed)
        /\ ov_modal' = [ov_modal EXCEPT !.spindle = ov_line.block.spindle, !.speed = ov_line.block.speed]
        /\ ov_counter' = 0
        /\ UNCHANGED <<ov_f, ov_r, ov_s, ov_flags, ov_planned, ov_state, ov_update, ov_segments,
                       ov_coolant, ov_reset>>
    BY DEF SpindleSet, LineUnchanged, ov_sys, ov_motion
  <1>2. /\ ov_line \in [at : {"spindle", "spindle_set", "coolant", "coolant_set", "motion"}, block : Modals]
        /\ ov_modal \in Modals
    BY <1>1 DEF Kept, OvTypeOK, NoLine
  <1>3. /\ ov_line' \in [at : {"spindle", "spindle_set", "coolant", "coolant_set", "motion"}, block : Modals]
        /\ ov_line'.at = "coolant"
    BY <1>1, <1>2
  <1>4. ov_line.block \in Modals
    BY <1>2
  <1>5. /\ ov_modal' \in Modals /\ ov_modal'.coolant = ov_modal.coolant
        /\ ov_modal'.spindle = ov_line.block.spindle /\ ov_modal'.speed = ov_line.block.speed
    BY <1>1, <1>2, <1>4 DEF Modals
  <1>6. /\ ov_spindle' \in [on : BOOLEAN, direction : {"CW"}, level : {0} \cup OvMin..OvMax]
        /\ ov_spindle'.on = (ov_line.block.spindle # "M5")
        /\ ov_spindle'.on => /\ ov_spindle'.direction = ov_line.block.spindle
                             /\ ov_spindle'.level = IF ov_line.block.speed = 0 THEN 0 ELSE ov_s'
                             /\ (ov_spindle'.level # 0) = (ov_line.block.speed # 0)
    BY <1>1, <1>4, SpindleIsSet DEF Kept, OvTypeOK, Modals
  <1>7. OvTypeOK'
    BY <1>1, <1>3, <1>5, <1>6, Numbers DEF Kept, OvTypeOK
  <1>8. SpindleFollows'
    BY <1>1, <1>3, <1>5, <1>6 DEF Kept, SpindleFollows
  <1>9. SpindleAsParsed'
    BY <1>1, <1>3, <1>5, <1>6 DEF SpindleAsParsed
  <1> QED
    BY <1>1, <1>5, <1>7, <1>8, <1>9 DEF Kept, PlannedWithOverrides, CoolantAsParsed

LEMMA CoolantWaitedKeeps ==
  ASSUME Kept, CoolantWaited
  PROVE  Kept'
  <1>1. /\ ov_line.at = "coolant"
        /\ ov_line' = [ov_line EXCEPT !.at = IF ov_line.block.coolant # ov_modal.coolant
                                             THEN "coolant_set" ELSE "motion"]
        /\ UNCHANGED <<ov_f, ov_r, ov_s, ov_flags, ov_planned, ov_state, ov_update, ov_segments, ov_modal,
                       ov_spindle, ov_coolant, ov_counter, ov_reset>>
    BY DEF CoolantWaited, LineUnchanged, ov_sys, ov_motion, ov_outputs
  <1>2. ov_line \in [at : {"spindle", "spindle_set", "coolant", "coolant_set", "motion"}, block : Modals]
    BY <1>1 DEF Kept, OvTypeOK, NoLine
  <1>3. /\ ov_line' \in [at : {"spindle", "spindle_set", "coolant", "coolant_set", "motion"}, block : Modals]
        /\ ov_line'.at \in {"coolant_set", "motion"}
    BY <1>1, <1>2
  <1>4. OvTypeOK'
    BY <1>1, <1>3 DEF Kept, OvTypeOK
  <1>5. SpindleAsParsed' /\ SpindleFollows'
    BY <1>1, <1>3 DEF Kept, SpindleAsParsed, SpindleFollows, LevelDue
  <1> QED
    BY <1>1, <1>4, <1>5 DEF Kept, PlannedWithOverrides, CoolantAsParsed

LEMMA CoolantSetKeeps ==
  ASSUME Kept, CoolantSet
  PROVE  Kept'
  <1>1. /\ ov_line.at = "coolant_set" /\ ov_line' = [ov_line EXCEPT !.at = "motion"]
        /\ ov_coolant' = ov_line.block.coolant
        /\ ov_modal' = [ov_modal EXCEPT !.coolant = ov_line.block.coolant] /\ ov_counter' = 0
        /\ UNCHANGED <<ov_f, ov_r, ov_s, ov_flags, ov_planned, ov_state, ov_update, ov_segments,
                       ov_spindle, ov_reset>>
    BY DEF CoolantSet, LineUnchanged, ov_sys, ov_motion
  <1>2. /\ ov_line \in [at : {"spindle", "spindle_set", "coolant", "coolant_set", "motion"}, block : Modals]
        /\ ov_modal \in Modals
    BY <1>1 DEF Kept, OvTypeOK, NoLine
  <1>3. /\ ov_line' \in [at : {"spindle", "spindle_set", "coolant", "coolant_set", "motion"}, block : Modals]
        /\ ov_line'.at = "motion" /\ ov_line.block \in Modals
    BY <1>1, <1>2
  <1>4. /\ ov_modal' \in Modals /\ ov_modal'.coolant = ov_line.block.coolant
        /\ ov_modal'.spindle = ov_modal.spindle /\ ov_modal'.speed = ov_modal.speed
        /\ ov_coolant' \subseteq CoolantCommands
    BY <1>1, <1>2, <1>3 DEF Modals
  <1>5. OvTypeOK'
    BY <1>1, <1>3, <1>4, Numbers DEF Kept, OvTypeOK
  <1>6. SpindleAsParsed' /\ SpindleFollows'
    BY <1>1, <1>3, <1>4 DEF Kept, SpindleAsParsed, SpindleFollows, LevelDue
  <1> QED
    BY <1>1, <1>4, <1>5, <1>6 DEF Kept, PlannedWithOverrides, CoolantAsParsed

LEMMA LineMovesKeeps ==
  ASSUME Kept, LineMoves
  PROVE  Kept'
  <1>1. /\ ov_line' = NoLine
        /\ \/ UNCHANGED <<ov_state, ov_update, ov_segments>>
           \/ /\ ov_state = "IDLE" /\ ov_state' = "CYCLE" /\ ov_update' = TRUE
              /\ ov_segments' = [ov_segments EXCEPT !.left = TRUE]
        /\ UNCHANGED <<ov_f, ov_r, ov_s, ov_flags, ov_planned, ov_modal, ov_spindle, ov_coolant,
                       ov_counter, ov_reset>>
        /\ ov_line.at = "motion"
    BY DEF LineMoves, LineUnchanged, ov_sys, ov_motion, ov_outputs
  <1>2. /\ ov_segments' \in [left : BOOLEAN, level : {0} \cup OvMin..OvMax]
        /\ ov_state' \in {"IDLE", "CYCLE", "HOLD"} /\ ov_update' \in BOOLEAN
    BY <1>1 DEF Kept, OvTypeOK
  <1>3. OvTypeOK'
    BY <1>1, <1>2 DEF Kept, OvTypeOK
  <1>4. SpindleAsParsed' /\ SpindleFollows'
    BY <1>1 DEF Kept, SpindleAsParsed, SpindleFollows, LevelDue, NoLine
  <1> QED
    BY <1>1, <1>3, <1>4 DEF Kept, PlannedWithOverrides, CoolantAsParsed

-----------------------------------------------------------------------------
(* The motion.                                                             *)

LEMMA LevelDueIsLevel == OvTypeOK => LevelDue \in {0} \cup OvMin..OvMax
  BY DEF OvTypeOK, LevelDue

LEMMA PrepareSegmentKeeps ==
  ASSUME Kept, PrepareSegment
  PROVE  Kept'
  <1>1. /\ ov_state = "CYCLE" /\ ov_update' = FALSE
        /\ ov_segments' \in [left : BOOLEAN, level : {IF ov_update THEN LevelDue ELSE ov_segments.level}]
        /\ UNCHANGED <<ov_f, ov_r, ov_s, ov_flags, ov_planned, ov_state, ov_modal, ov_line, ov_spindle,
                       ov_coolant, ov_counter, ov_reset>>
    BY DEF PrepareSegment, MotionUnchanged, LineUnchanged, ov_sys
  <1>2. /\ ov_segments' \in [left : BOOLEAN, level : {0} \cup OvMin..OvMax]
        /\ ov_segments'.level = IF ov_update THEN LevelDue ELSE ov_segments.level
    BY <1>1, LevelDueIsLevel DEF Kept, OvTypeOK
  <1>3. OvTypeOK'
    BY <1>1, <1>2 DEF Kept, OvTypeOK
  <1>4. LevelDue' = LevelDue
    BY <1>1 DEF LevelDue
  <1>5. SpindleAsParsed' /\ SpindleFollows'
    BY <1>1, <1>2, <1>4 DEF Kept, SpindleAsParsed, SpindleFollows
  <1> QED
    BY <1>1, <1>3, <1>5 DEF Kept, PlannedWithOverrides, CoolantAsParsed

LEMMA LoadSegmentKeeps ==
  ASSUME Kept, LoadSegment
  PROVE  Kept' /\ Reported' = Reported
  <1>1. /\ ov_state = "CYCLE" /\ ~ov_update /\ ~ov_reset
        /\ ov_spindle' = [ov_spindle EXCEPT !.level = ov_segments.level]
        /\ UNCHANGED <<ov_f, ov_r, ov_s, ov_flags, ov_planned, ov_state, ov_update, ov_segments, ov_modal,
                       ov_line, ov_coolant, ov_counter, ov_reset>>
    BY DEF LoadSegment, MotionUnchanged, LineUnchanged, ov_sys, ov_motion
  <1>2. /\ ov_spindle' \in [on : BOOLEAN, direction : {"CW"}, level : {0} \cup OvMin..OvMax]
        /\ ov_spindle'.on = ov_spindle.on /\ ov_spindle'.direction = ov_spindle.direction
        /\ ov_spindle'.level = ov_segments.level
    BY <1>1 DEF Kept, OvTypeOK
  <1>3. ov_spindle.on => (ov_segments.level # 0) = (ov_modal.speed # 0)
    <2>1. ov_s # 0
      BY Numbers DEF Kept, OvTypeOK
    <2> QED
      BY <1>1, <2>1 DEF Kept, SpindleFollows, LevelDue
  <1>4. OvTypeOK'
    BY <1>1, <1>2 DEF Kept, OvTypeOK
  <1>5. SpindleAsParsed' /\ SpindleFollows'
    BY <1>1, <1>2, <1>3 DEF Kept, SpindleAsParsed, SpindleFollows, LevelDue
  <1>6. SpindleState(ov_spindle)' = SpindleState(ov_spindle)
    BY <1>1, <1>2, <1>3 DEF Kept, SpindleFollows, SpindleState
  <1> QED
    BY <1>1, <1>4, <1>5, <1>6 DEF Kept, PlannedWithOverrides, CoolantAsParsed, Reported

LEMMA MotionEndsKeeps ==
  ASSUME Kept, MotionEnds
  PROVE  Kept'
  <1>1. /\ ov_state = "CYCLE" /\ ov_state' = "IDLE" /\ ~ov_reset /\ ov_spindle.level = ov_segments.level
        /\ UNCHANGED <<ov_f, ov_r, ov_s, ov_flags, ov_planned, ov_update, ov_segments, ov_modal,
                       ov_line, ov_spindle, ov_coolant, ov_counter, ov_reset>>
    BY DEF MotionEnds, MotionUnchanged, LineUnchanged, ov_sys
  <1>2. OvTypeOK'
    BY <1>1 DEF Kept, OvTypeOK
  <1>3. SpindleAsParsed' /\ SpindleFollows'
    BY <1>1 DEF Kept, SpindleAsParsed, SpindleFollows, LevelDue
  <1> QED
    BY <1>1, <1>2, <1>3 DEF Kept, PlannedWithOverrides, CoolantAsParsed

LEMMA HoldOrResumeKeeps ==
  ASSUME Kept, HoldOrResume
  PROVE  Kept'
  <1>1. /\ ~ov_reset
        /\ UNCHANGED <<ov_f, ov_r, ov_s, ov_flags, ov_planned, ov_segments, ov_modal, ov_line, ov_spindle,
                       ov_coolant, ov_counter, ov_reset>>
        /\ \/ /\ ov_state = "CYCLE" /\ ov_spindle.level = ov_segments.level
              /\ ov_state' = "HOLD" /\ ov_update' = ov_update
           \/ /\ ov_state = "HOLD" /\ ~ov_update
              /\ ov_state' = "CYCLE" /\ ov_update' = TRUE
           \/ /\ ov_state = "HOLD" /\ ~ov_update
              /\ ov_state' = "IDLE" /\ ov_update' = ov_update
    BY DEF HoldOrResume, MotionUnchanged, LineUnchanged, ov_sys
  <1>2. OvTypeOK'
    BY <1>1 DEF Kept, OvTypeOK
  <1>3. SpindleAsParsed' /\ SpindleFollows'
    BY <1>1 DEF Kept, SpindleAsParsed, SpindleFollows, LevelDue
  <1> QED
    BY <1>1, <1>2, <1>3 DEF Kept, PlannedWithOverrides, CoolantAsParsed

-----------------------------------------------------------------------------
(* Commands, reports and the reset.                                        *)

LEMMA QuietKeeps ==
  ASSUME Kept, ov_flags' \subseteq Commands, ov_counter' \in 0..OvRefresh,
         UNCHANGED <<ov_f, ov_r, ov_s, ov_planned, ov_state, ov_update, ov_segments, ov_modal, ov_line,
                     ov_spindle, ov_coolant, ov_reset>>
  PROVE  Kept'
  <1>1. OvTypeOK'
    BY DEF Kept, OvTypeOK
  <1> QED
    BY <1>1 DEF Kept, PlannedWithOverrides, CoolantAsParsed, SpindleAsParsed, SpindleFollows, LevelDue

LEMMA ReportKeeps ==
  ASSUME Kept, Report
  PROVE  Kept'
  <1>1. ov_counter' \in 0..OvRefresh
    BY Numbers DEF Report, Kept, OvTypeOK
  <1> QED
    BY <1>1, QuietKeeps DEF Report, ov_sys, ov_motion, ov_outputs, Kept, OvTypeOK

LEMMA CommandKeeps ==
  ASSUME Kept, Command
  PROVE  Kept'
  <1>1. ov_flags' \subseteq Commands
    BY DEF Command, Kept, OvTypeOK
  <1> QED
    BY <1>1, QuietKeeps DEF Command, ov_sys, ov_motion, ov_outputs, Kept, OvTypeOK

LEMMA ResetKeeps ==
  ASSUME Kept, Reset
  PROVE  Kept'
  <1>1. /\ ov_reset' = TRUE /\ ov_spindle' = [ov_spindle EXCEPT !.on = FALSE, !.level = 0] /\ ov_coolant' = {}
        /\ UNCHANGED <<ov_f, ov_r, ov_s, ov_flags, ov_planned, ov_state, ov_update, ov_segments, ov_modal,
                       ov_line, ov_counter>>
    BY DEF Reset, ov_sys, ov_motion
  <1>2. OvTypeOK'
    BY <1>1 DEF Kept, OvTypeOK
  <1> QED
    BY <1>1, <1>2 DEF Kept, PlannedWithOverrides, CoolantAsParsed, SpindleAsParsed, SpindleFollows

LEMMA RestartKeeps ==
  ASSUME Kept, Restart
  PROVE  Kept'
  <1>1. OvTypeOK'
    <2>1. ov_spindle' \in [on : BOOLEAN, direction : {"CW"}, level : {0} \cup OvMin..OvMax]
      BY DEF Restart, Kept, OvTypeOK
    <2>2. ov_modal' \in Modals /\ ov_coolant' \subseteq CoolantCommands
      BY DEF Restart, Modals
    <2>3. ov_segments' \in [left : BOOLEAN, level : {0} \cup OvMin..OvMax]
      BY DEF Restart
    <2>4. /\ ov_f' \in OvMin..OvMax /\ ov_s' \in OvMin..OvMax /\ ov_counter' \in 0..OvRefresh
          /\ ov_flags' \subseteq Commands
      BY Numbers DEF Restart
    <2> QED
      BY <2>1, <2>2, <2>3, <2>4 DEF Restart, OvTypeOK
  <1>2. PlannedWithOverrides' /\ CoolantAsParsed'
    BY DEF Restart, PlannedWithOverrides, CoolantAsParsed
  <1>3. ov_spindle'.on = FALSE
    BY DEF Restart, Kept, OvTypeOK
  <1>4. SpindleAsParsed' /\ SpindleFollows'
    BY <1>3 DEF Restart, SpindleAsParsed, SpindleFollows, NoLine
  <1> QED
    BY <1>1, <1>2, <1>4 DEF Kept

LEMMA StepKeeps ==
  ASSUME Kept, [OvNext]_ovVars
  PROVE  Kept'
  <1>1. CASE UNCHANGED ovVars
    BY <1>1, QuietKeeps DEF ovVars, ov_sys, ov_motion, ov_outputs, Kept, OvTypeOK
  <1>2. CASE OvStep
    BY <1>2, MotionOverridesKeep, AccessoryOverridesKeep, FeedPotKeeps, RapidPotKeeps, HoldSpindleKeeps,
       ReportKeeps, BeginLineKeeps, SpindleWaitedKeeps, SpindleSetKeeps, CoolantWaitedKeeps,
       CoolantSetKeeps, LineMovesKeeps, PrepareSegmentKeeps, LoadSegmentKeeps, MotionEndsKeeps,
       HoldOrResumeKeeps, CommandKeeps, ResetKeeps, RestartKeeps DEF OvStep
  <1> QED
    BY <1>1, <1>2 DEF OvNext

-----------------------------------------------------------------------------
(* The reports.                                                            *)

\* A step that changes what is reported asks for a report of it, and only a report
\* with the overrides makes the counter grow.
LEMMA ReportsOrAsks ==
  ASSUME Kept, OvStep
  PROVE  \/ ov_reset' \/ ov_counter' = 0
         \/ Reported' = Reported /\ (ov_counter' > 0 => ov_counter > 0 \/ ov_counter' = OvRefresh) /\ ~ov_reset
  <1> DEFINE Goal == \/ ov_reset' \/ ov_counter' = 0
                     \/ /\ Reported' = Reported /\ ~ov_reset
                        /\ ov_counter' > 0 => ov_counter > 0 \/ ov_counter' = OvRefresh
             Same == UNCHANGED <<ov_f, ov_r, ov_s, ov_spindle, ov_coolant, ov_counter, ov_reset>>
  <1>1. Same => Goal
    BY DEF Reported
  <1> HIDE DEF Goal
  <1>2. CASE MotionOverrides
    BY <1>2 DEF MotionOverrides, ov_outputs, Reported, Goal
  <1>3. CASE AccessoryOverrides
    BY <1>3 DEF AccessoryOverrides, Reported, Goal
  <1>4. CASE FeedPot \/ RapidPot
    BY <1>4 DEF FeedPot, RapidPot, ov_outputs, Reported, Goal
  <1>5. CASE HoldSpindle \/ SpindleSet \/ CoolantSet \/ Restart
    BY <1>5 DEF HoldSpindle, SpindleSet, CoolantSet, Restart, Goal
  <1>6. CASE Report
    <2>1. ov_counter \in Nat
      BY DEF Kept, OvTypeOK
    <2> QED
      BY <1>6, <2>1, Numbers DEF Report, ov_sys, ov_outputs, Reported, Goal
  <1>7. CASE BeginLine \/ SpindleWaited \/ CoolantWaited \/ LineMoves
    <2>1. Same
      BY <1>7 DEF BeginLine, SpindleWaited, CoolantWaited, LineMoves, LineUnchanged, ov_sys, ov_outputs
    <2> QED
      BY <1>1, <2>1 DEF Goal
  <1>8. CASE PrepareSegment \/ MotionEnds \/ HoldOrResume
    <2>1. Same
      BY <1>8 DEF PrepareSegment, MotionEnds, HoldOrResume, MotionUnchanged, LineUnchanged, ov_sys
    <2> QED
      BY <1>1, <2>1 DEF Goal
  <1>9. CASE LoadSegment
    BY <1>9, LoadSegmentKeeps DEF LoadSegment, MotionUnchanged, LineUnchanged, Goal
  <1>10. CASE Command
    <2>1. Same
      BY <1>10 DEF Command, ov_sys, ov_outputs
    <2> QED
      BY <1>1, <2>1 DEF Goal
  <1>11. CASE Reset
    BY <1>11 DEF Reset, Goal
  <1> QED
    BY <1>2, <1>3, <1>4, <1>5, <1>6, <1>7, <1>8, <1>9, <1>10, <1>11 DEF OvStep, Goal

LEMMA StepReports ==
  ASSUME Kept, ReportedSoon, [OvNext]_ovVars
  PROVE  ReportedSoon'
  <1>1. CASE UNCHANGED ovVars
    BY <1>1 DEF ovVars, ReportedSoon
  <1>2. CASE OvNext
    <2>1. \/ ov_reset' \/ ov_counter' = 0
          \/ Reported' = Reported /\ (ov_counter' > 0 => ov_counter > 0 \/ ov_counter' = OvRefresh) /\ ~ov_reset
      BY <1>2, ReportsOrAsks DEF OvNext
    <2>2. ov_told' = ((ov_told \/ ov_counter' = OvRefresh) /\ Reported' = Reported)
      BY <1>2 DEF OvNext
    <2> SUFFICES ASSUME ov_counter' > 0, ~ov_reset'
                 PROVE  ov_told'
      BY DEF ReportedSoon
    <2>3. Reported' = Reported /\ (ov_counter > 0 \/ ov_counter' = OvRefresh) /\ ~ov_reset
      BY <2>1
    <2>4. ov_told \/ ov_counter' = OvRefresh
      BY <2>3 DEF ReportedSoon
    <2> QED
      BY <2>2, <2>3, <2>4
  <1> QED
    BY <1>1, <1>2

\* In every order of commands, potentiometers, lines, motions, holds and resets: the
\* overrides keep their bounds, the plan uses the ones in force, coolant and spindle
\* are as the parser says, and a change is reported by the next report without work
\* offsets.
THEOREM OutputsAsParsed == OvSpec => []OvInv
  <1> DEFINE Inv == Kept /\ ReportedSoon
  <1>1. OvInit => Inv
    BY InitKept
  <1>2. Inv /\ [OvNext]_ovVars => Inv'
    BY StepKeeps, StepReports
  <1>3. Inv => OvInv
    BY DEF Kept, OvInv
  <1> QED
    BY <1>1, <1>2, <1>3, PTL DEF OvSpec

-----------------------------------------------------------------------------
(* Homing.                                                                 *)

USE DEF hmSys, hmMain, hmMachine

LEMMA Distances ==
  /\ HmPulloff \in Nat /\ HmPulloff > 1 /\ HmSearch \in Nat /\ HmLength \in Nat /\ HmLength > HmPulloff
  /\ HmPulloff * HmLocateScalar \in Nat
  /\ HmPlaces \subseteq Int /\ HmCommands \subseteq HmExec \ {"CYCLE_STOP"}
  <1>1. \A a, b \in Nat : a * b \in Nat
    OBVIOUS
  <1> QED
    BY <1>1, HmAssumption DEF HmExec

LEMMA StartsAsPromised == HmInit => HmInv
  <1> SUFFICES ASSUME HmInit PROVE HmInv
    OBVIOUS
  <1>0. hm_motor \in [on : BOOLEAN, left : Nat, way : {1, -1}]
    BY DEF HmInit, NoMotion
  <1>1. hm_place \in [HmAxes -> Int] /\ hm_position \in [HmAxes -> Int]
    <2>1. \A f \in [HmAxes -> HmPlaces] : f \in [HmAxes -> Int]
      BY Distances
    <2>2. [a \in HmAxes |-> 0] \in [HmAxes -> Int]
      OBVIOUS
    <2> QED
      BY <2>1, <2>2 DEF HmInit
  <1>2. HmTypeOK
    <2>1. hm_axis \in HmAxes /\ hm_pass \in 0..3
      BY DEF HmInit, HmAxes
    <2> QED
      BY <1>0, <1>1, <2>1 DEF HmInit, HmTypeOK
  <1> QED
    BY <1>2 DEF HmInit, HmInv, HomedMeansLocated, InTheCycle, HmCycle, BetweenPasses, InPass, NoMotion

\* A reset on top of the flags: the motor stops, or goes on.
LEMMA KilledKeeps ==
  ASSUME HmTypeOK, Killed(hm_exec, hm_alarm)
  PROVE  /\ hm_exec' \subseteq HmExec /\ hm_alarm' \in HmAlarms \cup {"none"}
         /\ hm_exec' = hm_exec \cup {"RESET"}
         /\ hm_motor' = hm_motor \/ hm_motor' = [hm_motor EXCEPT !.on = FALSE]
  BY DEF HmTypeOK, Killed, HmExec, HmAlarms

LEMMA MotorStepKeeps == HmInv /\ Step => HmInv'
  <1> SUFFICES ASSUME HmInv, Step PROVE HmInv'
    OBVIOUS
  <1> USE DEF HmInv, Step
  <1>0. hm_motor \in [on : BOOLEAN, left : Nat, way : {1, -1}] /\ hm_motor.left - 1 \in Nat
    BY DEF HmTypeOK
  <1>1. /\ hm_motor'.on = hm_motor.on /\ hm_motor'.left = hm_motor.left - 1 /\ hm_motor'.way = hm_motor.way
        /\ hm_motor' \in [on : BOOLEAN, left : Nat, way : {1, -1}]
    BY <1>0
  <1>2. /\ \A a \in HmAxes : a # hm_axis => hm_place'[a] = hm_place[a] /\ hm_position'[a] = hm_position[a]
        /\ hm_place'[hm_axis] \in {hm_place[hm_axis], hm_place[hm_axis] + hm_motor.way}
        /\ hm_place' \in [HmAxes -> Int] /\ hm_position' \in [HmAxes -> Int]
    BY DEF HmTypeOK
  <1>3. HmTypeOK'
    BY <1>1, <1>2 DEF HmTypeOK
  <1>4. hm_axis \notin hm_homed /\ hm_at \in {"limits", "exits", "restart"}
    BY DEF InTheCycle
  <1>5. HomedMeansLocated'
    BY <1>2, <1>4 DEF HomedMeansLocated, HmTypeOK
  <1>6. InTheCycle'
    BY <1>1 DEF InTheCycle
  <1>7. BetweenPasses'
    BY <1>4 DEF BetweenPasses
  <1>8. InPass'
    <2> SUFFICES ASSUME hm_at \in {"limits", "exits"} PROVE InPass'
      BY DEF InPass
    <2>1. hm_state = "HOMING" /\ hm_place[hm_axis] \in Int
      BY DEF InTheCycle, HmCycle, HmTypeOK
    <2>2. hm_place'[hm_axis] = hm_place[hm_axis] + (IF hm_axis \in hm_lock THEN hm_motor.way ELSE 0)
      BY <2>1 DEF HmTypeOK
    <2>3. hm_motor.way = IF Approach THEN 1 ELSE -1
      BY DEF InPass
    <2>0. /\ ~("CYCLE_STOP" \in hm_exec')
          /\ hm_motor'.way = IF Approach THEN 1 ELSE -1
          /\ hm_lock = {hm_axis} \/ (hm_at = "exits" /\ Approach /\ hm_lock = {})
      BY <1>1, <2>3 DEF InPass
    <2>4. CASE hm_pass = 2
      <3>1. hm_motor.way = 1
        BY <2>3, <2>4 DEF Approach
      <3>2. CASE hm_lock = {}
        BY <2>0, <2>1, <2>2, <2>4, <3>2 DEF InPass, Approach, Place
      <3>3. CASE hm_lock = {hm_axis}
        <4>1. hm_place'[hm_axis] = hm_place[hm_axis] + 1 /\ hm_stepped' = TRUE /\ hm_lock # {}
          BY <2>2, <3>1, <3>3
        <4>2. /\ hm_place[hm_axis] > -HmLength
              /\ hm_place[hm_axis] + (IF hm_at = "exits" THEN 1 ELSE 0) <= 0
          BY <2>4, <4>1 DEF InPass, Place
        <4>3. /\ hm_place'[hm_axis] > -HmLength
              /\ hm_place'[hm_axis] + (IF hm_at = "exits" THEN 1 ELSE 0) <= 1
          BY <2>1, <4>1, <4>2, Distances
        <4> QED
          BY <2>0, <2>4, <4>1, <4>3 DEF InPass, Approach, Place
      <3> QED
        BY <2>0, <3>2, <3>3
    <2>5. CASE hm_pass = 3
      <3>1. hm_place'[hm_axis] = hm_place[hm_axis] - 1
        BY <2>1, <2>2, <2>3, <2>5 DEF InPass, Approach
      <3>2. hm_place'[hm_axis] + HmPulloff - hm_motor'.left = hm_place[hm_axis] + HmPulloff - hm_motor.left
        BY <1>0, <1>1, <2>1, <3>1, Distances
      <3> QED
        BY <2>0, <2>5, <3>2 DEF InPass, Approach, Place
    <2>6. CASE hm_pass \notin {2, 3}
      BY <2>0, <2>6 DEF InPass, Approach
    <2> QED
      BY <2>4, <2>5, <2>6
  <1> QED
    BY <1>3, <1>5, <1>6, <1>7, <1>8

\* Steps that leave the axes and the place in the program as they are.
LEMMA RestKeeps ==
  ASSUME HmInv, HmTypeOK',
         UNCHANGED <<hm_state, hm_at, hm_axis, hm_pass, hm_lock, hm_homed, hm_stepped, hm_place,
                     hm_position>>,
         hm_motor'.on => hm_motor' = hm_motor,
         hm_motor'.left = hm_motor.left,
         "CYCLE_STOP" \in hm_exec' => "CYCLE_STOP" \in hm_exec \/ (hm_motor.on /\ hm_motor'.left = 0 /\ ~hm_motor'.on)
  PROVE  HmInv'
  <1> USE DEF HmInv
  <1>1. HomedMeansLocated'
    BY DEF HomedMeansLocated
  <1>2. InTheCycle'
    BY DEF InTheCycle
  <1>3. BetweenPasses'
    BY DEF BetweenPasses, PlaceAfter, Place, InTheCycle
  <1>4. InPass'
    BY DEF InPass, Place, Approach
  <1> QED
    BY <1>1, <1>2, <1>3, <1>4

LEMMA BufferEmptyKeeps == HmInv /\ BufferEmpty => HmInv'
  <1> SUFFICES ASSUME HmInv, BufferEmpty PROVE HmInv'
    OBVIOUS
  <1>1. HmTypeOK'
    BY DEF HmInv, HmTypeOK, BufferEmpty, NoMotion, HmExec
  <1>2. hm_motor'.on = FALSE /\ hm_motor'.left = 0
    BY DEF BufferEmpty, NoMotion
  <1> QED
    BY <1>1, <1>2, RestKeeps DEF BufferEmpty

LEMMA HomingCommandKeeps == HmInv /\ HmCommand => HmInv'
  <1> SUFFICES ASSUME HmInv, NEW c \in HmCommands,
                      IF c = "RESET" THEN Killed(hm_exec, hm_alarm)
                      ELSE hm_exec' = hm_exec \cup {c} /\ UNCHANGED <<hm_alarm, hm_motor>>,
                      UNCHANGED <<hm_state, hm_abort, hm_suspend, hmMain, hm_stepped, hm_place, hm_position>>
               PROVE  HmInv'
    BY DEF HmCommand
  <1>0. hm_motor \in [on : BOOLEAN, left : Nat, way : {1, -1}]
    BY DEF HmInv, HmTypeOK
  <1>1. /\ hm_exec' \subseteq HmExec /\ hm_alarm' \in HmAlarms \cup {"none"}
        /\ hm_motor' = hm_motor \/ hm_motor' = [hm_motor EXCEPT !.on = FALSE]
        /\ "CYCLE_STOP" \in hm_exec' => "CYCLE_STOP" \in hm_exec
    <2>1. CASE c = "RESET"
      BY <2>1, KilledKeeps DEF HmInv
    <2>2. CASE c # "RESET"
      BY <2>2, Distances DEF HmInv, HmTypeOK
    <2> QED
      BY <2>1, <2>2
  <1>2. HmTypeOK'
    BY <1>0, <1>1 DEF HmInv, HmTypeOK
  <1>3. (hm_motor'.on => hm_motor' = hm_motor) /\ hm_motor'.left = hm_motor.left
    BY <1>0, <1>1
  <1> QED
    BY <1>1, <1>2, <1>3, RestKeeps

-----------------------------------------------------------------------------
(* The passes.                                                             *)

LEMMA PlanKeeps == HmInv /\ Plan => HmInv'
  <1> SUFFICES ASSUME HmInv, Plan PROVE HmInv'
    OBVIOUS
  <1> USE DEF HmInv, Plan
  <1>1. /\ hm_axis \in HmAxes /\ hm_pass \in 0..3 /\ hm_axis \notin hm_homed
        /\ hm_state = "HOMING" /\ "CYCLE_STOP" \notin hm_exec
    BY DEF HmTypeOK, InTheCycle, HmCycle, BetweenPasses
  <1>2. PassDistance \in Nat /\ (hm_pass = 3 => PassDistance = HmPulloff)
    BY Distances DEF PassDistance
  <1>3. /\ hm_motor' \in [on : BOOLEAN, left : Nat, way : {1, -1}]
        /\ hm_motor'.on /\ hm_motor'.left = PassDistance
        /\ hm_motor'.way = IF Approach THEN 1 ELSE -1
    BY <1>2
  <1>4. HmTypeOK'
    <2>1. hm_position' \in [HmAxes -> Int] /\ hm_lock' \subseteq HmAxes
      BY <1>1 DEF HmTypeOK
    <2> HIDE DEF Plan
    <2>2. hm_at' = "limits" /\ hm_stepped' = FALSE /\ UNCHANGED <<hmSys, hm_axis, hm_pass, hm_homed, hm_place>>
      BY DEF Plan
    <2> QED
      BY <1>3, <2>1, <2>2 DEF HmTypeOK
  <1>5. HomedMeansLocated'
    BY <1>1 DEF HomedMeansLocated, HmTypeOK
  <1>6. InTheCycle'
    BY <1>1 DEF InTheCycle, HmCycle
  <1>7. BetweenPasses'
    BY DEF BetweenPasses
  <1>8. InPass'
    <2>1. hm_place[hm_axis] \in Int
      BY <1>1 DEF HmTypeOK
    <2>2. CASE hm_pass = 2
      BY <1>1, <1>3, <2>1, <2>2 DEF InPass, Approach, Place, BetweenPasses, PlaceAfter
    <2>3. CASE hm_pass = 3
      <3>1. hm_place[hm_axis] + HmPulloff - hm_motor'.left \in 0..1
        BY <1>2, <1>3, <2>1, <2>3, Distances DEF BetweenPasses, PlaceAfter, Place
      <3> QED
        BY <1>1, <1>3, <2>3, <3>1 DEF InPass, Approach, Place
    <2>4. CASE hm_pass \notin {2, 3}
      BY <1>1, <1>3, <2>4 DEF InPass, Approach
    <2> QED
      BY <2>2, <2>3, <2>4
  <1> QED
    BY <1>4, <1>5, <1>6, <1>7, <1>8

LEMMA PollLimitsKeeps == HmInv /\ PollLimits => HmInv'
  <1> SUFFICES ASSUME HmInv, PollLimits PROVE HmInv'
    OBVIOUS
  <1> USE DEF HmInv, PollLimits
  <1>1. hm_axis \in HmAxes /\ hm_place[hm_axis] \in Int /\ hm_lock = {hm_axis} /\ hm_stepped \in BOOLEAN
    BY DEF HmTypeOK, InPass
  <1>2. hm_lock' = IF Approach /\ hm_axis \in LimitState THEN {} ELSE {hm_axis}
    BY <1>1
  <1>3. HmTypeOK'
    BY <1>1, <1>2 DEF HmTypeOK
  <1>4. HomedMeansLocated' /\ InTheCycle' /\ BetweenPasses'
    BY DEF HomedMeansLocated, InTheCycle, HmCycle, BetweenPasses
  <1>5. InPass'
    <2>1. ASSUME hm_pass = 2
          PROVE  /\ Place > -HmLength
                 /\ IF hm_lock' = {} THEN Place \in 0..1 ELSE Place + 1 <= (IF hm_stepped THEN 1 ELSE 0)
      <3>1. Place > -HmLength /\ Place + 0 <= (IF hm_stepped THEN 1 ELSE 0) /\ Approach
        BY <1>1, <2>1 DEF InPass, Approach
      <3>2. Place \in Int /\ (hm_axis \in LimitState <=> Place >= 0)
        BY <1>1, <3>1, Distances DEF LimitState, Place
      <3>3. hm_lock' = {} <=> Place >= 0
        BY <1>2, <3>1, <3>2
      <3> QED
        BY <3>1, <3>2, <3>3
    <2> QED
      BY <1>2, <2>1 DEF InPass, Approach, Place
  <1> QED
    BY <1>3, <1>4, <1>5

\* A pass that neither fails nor goes on has left the axis where the next starts.
LEMMA PollExitsKeeps == HmInv /\ PollExits => HmInv'
  <1> SUFFICES ASSUME HmInv, PollExits PROVE HmInv'
    OBVIOUS
  <1> USE DEF HmInv, PollExits
  <1>1. /\ hm_axis \in HmAxes /\ hm_place[hm_axis] \in Int /\ hm_pass \in 0..3
        /\ hm_axis \notin hm_homed /\ hm_state = "HOMING" /\ hm_at = "exits"
        /\ hm_motor \in [on : BOOLEAN, left : Nat, way : {1, -1}]
        /\ hm_alarm \in HmAlarms \cup {"none"} /\ hm_exec \subseteq HmExec
    BY DEF HmTypeOK, InTheCycle, HmCycle
  <1>2. HomedMeansLocated'
    BY DEF HomedMeansLocated
  <1>3. CASE Exit /\ Failure # "none"
    <2>1. Fails
      BY <1>3
    <2>2. hm_motor' \in {hm_motor, [hm_motor EXCEPT !.on = FALSE]} /\ hm_exec' \subseteq HmExec
      BY <1>1, <2>1 DEF Fails, HmExec
    <2>3. /\ hm_motor' \in [on : BOOLEAN, left : Nat, way : {1, -1}]
          /\ hm_motor'.on => hm_motor.on
      BY <1>1, <2>2
    <2>4. HmTypeOK'
      BY <1>1, <2>1, <2>2, <2>3 DEF Fails, HmTypeOK
    <2>5. InTheCycle' /\ BetweenPasses' /\ InPass'
      BY <1>1, <2>1, <2>3 DEF Fails, InTheCycle, HmCycle, BetweenPasses, InPass
    <2> QED
      BY <1>2, <2>4, <2>5
  <1>4. CASE Exit /\ Failure = "none"
    <2>1. /\ hm_exec' = hm_exec \ {"CYCLE_STOP"} /\ hm_motor' = NoMotion /\ hm_at' = "delay"
          /\ UNCHANGED <<hm_state, hm_alarm, hm_abort, hm_suspend>>
      BY <1>4 DEF Stopped
    <2>2. "CYCLE_STOP" \in hm_exec /\ ~Approach /\ hm_axis \notin LimitState
      BY <1>4, Zenon DEF Exit, Failure
    <2>3. hm_motor' \in [on : BOOLEAN, left : Nat, way : {1, -1}] /\ ~hm_motor'.on
      BY <2>1 DEF NoMotion
    <2>4. HmTypeOK'
      BY <1>1, <2>1, <2>3 DEF HmTypeOK
    <2>5. InTheCycle' /\ InPass'
      BY <1>1, <2>1, <2>3 DEF InTheCycle, HmCycle, InPass
    <2>6. hm_pass \in {1, 3}
      BY <1>1, <2>2 DEF Approach
    <2>7. CASE hm_pass = 1
      <3>1. Place < 0 /\ Place > -HmLength
        BY <1>1, <2>2, Distances DEF LimitState, Place
      <3> QED
        BY <1>2, <2>1, <2>4, <2>5, <2>7, <3>1 DEF BetweenPasses, PlaceAfter, Place
    <2>8. CASE hm_pass = 3
      <3>1. hm_motor.left = 0 /\ Place + HmPulloff - hm_motor.left \in 0..1
        BY <1>1, <2>2, <2>8 DEF InPass
      <3>2. Place + HmPulloff \in 0..1
        BY <1>1, <3>1, Distances DEF Place
      <3> QED
        BY <1>2, <2>1, <2>4, <2>5, <2>8, <3>2 DEF BetweenPasses, PlaceAfter, Place
    <2> QED
      BY <2>6, <2>7, <2>8
  <1>5. CASE ~Exit /\ hm_lock = {}
    <2>1. hm_motor' = NoMotion /\ hm_at' = "delay" /\ UNCHANGED hmSys
      BY <1>5 DEF Stopped
    <2>2. Approach /\ "CYCLE_STOP" \notin hm_exec
      BY <1>1, <1>5 DEF InPass, Exit
    <2>3. hm_motor' \in [on : BOOLEAN, left : Nat, way : {1, -1}] /\ ~hm_motor'.on
      BY <2>1 DEF NoMotion
    <2>4. HmTypeOK'
      BY <1>1, <2>1, <2>3 DEF HmTypeOK
    <2>5. InTheCycle' /\ InPass'
      BY <1>1, <2>1, <2>3 DEF InTheCycle, HmCycle, InPass
    <2>6. hm_pass \in {0, 2} /\ (hm_pass = 2 => Place \in 0..1)
      BY <1>1, <1>5, <2>2 DEF Approach, InPass
    <2>7. BetweenPasses'
      BY <2>1, <2>2, <2>6 DEF BetweenPasses, PlaceAfter, Place
    <2> QED
      BY <1>2, <2>4, <2>5, <2>7
  <1>6. CASE ~Exit /\ hm_lock # {}
    <2>1. hm_at' = "limits" /\ UNCHANGED <<hmSys, hm_motor>>
      BY <1>6
    <2>2. "CYCLE_STOP" \notin hm_exec /\ hm_lock = {hm_axis}
      BY <1>1, <1>6 DEF InPass, Exit
    <2>3. HmTypeOK'
      BY <1>1, <2>1 DEF HmTypeOK
    <2>4. InTheCycle' /\ BetweenPasses'
      BY <1>1, <2>1 DEF InTheCycle, HmCycle, BetweenPasses
    <2>5. ASSUME hm_pass = 2 PROVE Place > -HmLength /\ Place + 0 <= 0
      <3>1. Place > -HmLength /\ Place + 1 <= (IF hm_stepped THEN 1 ELSE 0)
        BY <1>1, <1>6, <2>5 DEF InPass
      <3> QED
        BY <1>1, <3>1 DEF Place
    <2>6. InPass'
      BY <1>1, <2>1, <2>2, <2>5 DEF InPass, Approach, Place
    <2> QED
      BY <1>2, <2>3, <2>4, <2>6
  <1> QED
    BY <1>3, <1>4, <1>5, <1>6

LEMMA DelayKeeps == HmInv /\ Delay => HmInv'
  <1> SUFFICES ASSUME HmInv, Delay PROVE HmInv'
    OBVIOUS
  <1> USE DEF HmInv, Delay
  <1>1. /\ hm_axis \in HmAxes /\ hm_place[hm_axis] \in Int /\ hm_pass \in 0..3
        /\ hm_state = "HOMING" /\ hm_at = "delay" /\ hm_homed = (IF hm_axis = "X" THEN {} ELSE {"X"})
        /\ ~hm_motor.on
    BY DEF HmTypeOK, InTheCycle, HmCycle
  <1>2. InPass'
    BY DEF InPass
  <1>3. CASE PassesLeft
    <2>1. hm_pass' = hm_pass + 1 /\ hm_at' = "plan" /\ UNCHANGED <<hm_axis, hm_homed, hm_position>>
      BY <1>3
    <2>2. HmTypeOK'
      BY <1>1, <1>3, <2>1 DEF HmTypeOK, PassesLeft
    <2>3. HomedMeansLocated' /\ InTheCycle' /\ BetweenPasses'
      BY <1>1, <2>1 DEF HomedMeansLocated, InTheCycle, HmCycle, BetweenPasses, PlaceAfter, Place
    <2> QED
      BY <1>2, <2>2, <2>3
  <1>4. CASE ~PassesLeft
    <2>1. /\ hm_position' = [hm_position EXCEPT ![hm_axis] = HomedPosition]
          /\ hm_homed' = hm_homed \cup {hm_axis} /\ hm_pass' = 0 /\ hm_axis' = "Z"
          /\ hm_at' = IF hm_axis = "X" THEN "plan" ELSE "last"
      BY <1>4
    <2>2. hm_pass = 3 /\ Place + HmPulloff \in 0..1
      BY <1>1, <1>4 DEF PassesLeft, BetweenPasses, PlaceAfter
    <2>3. hm_position' \in [HmAxes -> Int] /\ hm_position'[hm_axis] = -HmPulloff
      BY <1>1, <2>1, Distances DEF HmTypeOK, HomedPosition
    <2>4. HmTypeOK'
      BY <1>1, <2>1, <2>3 DEF HmTypeOK, HmAxes
    <2>5. hm_place[hm_axis] - hm_position'[hm_axis] \in 0..1
      BY <1>1, <2>2, <2>3, Distances DEF Place
    <2>6. ASSUME NEW a \in hm_homed PROVE hm_position'[a] = hm_position[a]
      BY <1>1, <2>1, <2>6 DEF HmTypeOK
    <2>7. HomedMeansLocated'
      BY <2>1, <2>5, <2>6 DEF HomedMeansLocated
    <2>8. InTheCycle'
      BY <1>1, <2>1 DEF InTheCycle, HmCycle, HmAxes
    <2>9. BetweenPasses'
      BY <2>1 DEF BetweenPasses, PlaceAfter
    <2> QED
      BY <1>2, <2>4, <2>7, <2>8, <2>9
  <1> QED
    BY <1>3, <1>4

-----------------------------------------------------------------------------
(* The program around the passes.                                          *)

\* Outside of the passes, without the motor, only the types are at stake.
LEMMA OutsideKeeps ==
  ASSUME HmInv, HmTypeOK', ~hm_motor'.on, hm_at' \in {"main", "leave", "suspend", "restart"},
         hm_at' = "leave" => hm_homed = HmAxes,
         UNCHANGED <<hm_homed, hm_place, hm_position>>
  PROVE  HmInv'
  BY DEF HmInv, HomedMeansLocated, InTheCycle, HmCycle, BetweenPasses, InPass

LEMMA ExecRtSystemTypes ==
  ASSUME HmTypeOK, ExecRtSystem(hm_state, hm_exec, hm_alarm)
  PROVE  /\ hm_state' \in {"IDLE", "HOMING", "ALARM", "SAFETY_DOOR", "HOLD"}
         /\ hm_exec' \subseteq HmExec /\ hm_alarm' \in HmAlarms \cup {"none"}
         /\ hm_abort' \in BOOLEAN /\ hm_suspend' \subseteq {"DOOR_AJAR", "HOLD_COMPLETE"}
  <1> USE DEF HmTypeOK
  <1> DEFINE now == IF hm_alarm # "none" THEN "ALARM" ELSE hm_state
             held == ~(now = "ALARM") /\ Hold(hm_exec)
             after == IF ~held THEN now
                      ELSE IF "SAFETY_DOOR" \in hm_exec THEN "SAFETY_DOOR"
                      ELSE IF now = "SAFETY_DOOR" THEN now ELSE "HOLD"
             suspend == IF ~held THEN hm_suspend
                        ELSE (IF now = "IDLE" THEN {"HOLD_COMPLETE"} ELSE hm_suspend)
                             \cup (IF "SAFETY_DOOR" \in hm_exec THEN {"DOOR_AJAR"} ELSE {})
             starts == "CYCLE_START" \in hm_exec /\ ~Hold(hm_exec)
                       /\ (after = "IDLE" \/ (after = "HOLD" /\ "HOLD_COMPLETE" \in suspend))
  <1>1. /\ hm_alarm' = "none"
        /\ IF "RESET" \in hm_exec
           THEN hm_abort' = TRUE /\ hm_state' = now /\ hm_exec' = hm_exec /\ UNCHANGED hm_suspend
           ELSE /\ hm_state' = IF starts THEN "IDLE" ELSE after
                /\ hm_suspend' = IF starts THEN {} ELSE suspend
                /\ hm_exec' = {} /\ UNCHANGED hm_abort
    BY DEF ExecRtSystem
  <1>2. now \in {"IDLE", "HOMING", "ALARM", "SAFETY_DOOR", "HOLD"}
    OBVIOUS
  <1>3. after \in {"IDLE", "HOMING", "ALARM", "SAFETY_DOOR", "HOLD"}
    BY <1>2
  <1>4. suspend \subseteq {"DOOR_AJAR", "HOLD_COMPLETE"}
    OBVIOUS
  <1> HIDE DEF now, held, after, suspend, starts
  <1> QED
    BY <1>1, <1>2, <1>3, <1>4

LEMMA AroundKeeps ==
  HmInv /\ (LastPoll \/ LeaveHoming \/ MainPoll \/ Suspend \/ HmRestart) => HmInv'
  <1> SUFFICES ASSUME HmInv, LastPoll \/ LeaveHoming \/ MainPoll \/ Suspend \/ HmRestart PROVE HmInv'
    OBVIOUS
  <1>1. HmTypeOK /\ (hm_at \in {"main", "last", "leave", "suspend"} => ~hm_motor.on)
    BY DEF HmInv, InTheCycle
  <1>2. CASE LastPoll \/ MainPoll
    <2>1. ExecRtSystem(hm_state, hm_exec, hm_alarm)
      BY <1>2 DEF LastPoll, MainPoll
    <2>2. HmTypeOK'
      BY <1>1, <1>2, <2>1, ExecRtSystemTypes DEF HmTypeOK, LastPoll, MainPoll
    <2>3. hm_at' = "leave" => hm_homed = HmAxes
      BY <1>2 DEF HmInv, InTheCycle, LastPoll, MainPoll
    <2>4. ~hm_motor'.on /\ hm_at' \in {"main", "leave", "suspend", "restart"}
      BY <1>1, <1>2 DEF LastPoll, MainPoll
    <2> QED
      BY <1>2, <2>2, <2>3, <2>4, OutsideKeeps DEF LastPoll, MainPoll
  <1>3. CASE LeaveHoming
    <2>1. HmTypeOK' /\ ~hm_motor'.on
      BY <1>1, <1>3 DEF HmTypeOK, LeaveHoming
    <2> QED
      BY <1>3, <2>1, OutsideKeeps DEF LeaveHoming
  <1>4. CASE Suspend
    <2>1. HmTypeOK' /\ ~hm_motor'.on /\ hm_at' \in {"main", "restart"}
      BY <1>1, <1>4 DEF HmTypeOK, Suspend
    <2> QED
      BY <1>4, <2>1, OutsideKeeps DEF Suspend
  <1>5. CASE HmRestart
    <2>1. hm_motor' \in [on : BOOLEAN, left : Nat, way : {1, -1}] /\ ~hm_motor'.on
      BY <1>5 DEF HmRestart, NoMotion
    <2>2. HmTypeOK'
      BY <1>1, <1>5, <2>1 DEF HmTypeOK, HmRestart
    <2> QED
      BY <1>5, <2>1, <2>2, OutsideKeeps DEF HmRestart
  <1> QED
    BY <1>2, <1>3, <1>4, <1>5

LEMMA RequestKeeps == HmInv /\ (HomingCommand \/ HomingOfOneAxis) => HmInv'
  <1> SUFFICES ASSUME HmInv, HomingCommand \/ HomingOfOneAxis PROVE HmInv'
    OBVIOUS
  <1>1. HmTypeOK /\ ~hm_motor.on /\ hm_at = "main" /\ hm_exec = {} /\ hm_state' = "HOMING"
    BY DEF HmInv, InTheCycle, HomingCommand, HomingOfOneAxis, HomingAccepted
  <1>2. CASE HomingCommand
    <2>1. HmTypeOK'
      BY <1>1, <1>2 DEF HmTypeOK, HomingCommand, HmAxes
    <2>2. HomedMeansLocated' /\ InTheCycle' /\ BetweenPasses' /\ InPass'
      BY <1>1, <1>2 DEF HomingCommand, HomedMeansLocated, InTheCycle, HmCycle, BetweenPasses,
         PlaceAfter, InPass
    <2> QED
      BY <2>1, <2>2 DEF HmInv
  <1>3. CASE HomingOfOneAxis
    <2>1. HmTypeOK' /\ hm_at' = "main"
      BY <1>1, <1>3 DEF HmTypeOK, HomingOfOneAxis
    <2> QED
      BY <1>1, <1>3, <2>1, OutsideKeeps DEF HomingOfOneAxis
  <1> QED
    BY <1>2, <1>3

LEMMA StutterKeeps == HmInv /\ UNCHANGED hmVars => HmInv'
  BY DEF HmInv, hmVars, HmTypeOK, HomedMeansLocated, InTheCycle, BetweenPasses, PlaceAfter, Place,
     InPass, Approach

-----------------------------------------------------------------------------
\* An axis that was homed is where its position says: limits_go_home() leaves
\* each axis HmPulloff off its switch, or does not count it as homed, whatever
\* commands come in and wherever it started (limitswitches.c:249).
THEOREM HomedIsLocated == HmSpec => []HmInv
  <1>1. HmInv /\ [HmNext]_hmVars => HmInv'
    BY PlanKeeps, PollLimitsKeeps, PollExitsKeeps, DelayKeeps, AroundKeeps, RequestKeeps,
       MotorStepKeeps, BufferEmptyKeeps, HomingCommandKeeps, StutterKeeps DEF HmNext, HmMain
  <1> QED
    BY <1>1, StartsAsPromised, PTL DEF HmSpec

\* mc_homing_cycle() returns to IDLE only with both axes homed.
THEOREM FailedHomingStaysLocked == HmSpec => FailedHomingLocks
  <1>1. ASSUME HmInv, [HmNext]_hmVars, hm_state' = "IDLE", hm_at \notin {"main", "restart", "suspend"}
        PROVE  hm_homed = HmAxes
    <2>1. CASE hm_at \in {"last", "leave"}
      BY <1>1, <2>1 DEF HmInv, InTheCycle
    <2>2. CASE hm_at \in HmCycle
      <3>1. hm_state = "HOMING"
        BY <1>1, <2>2 DEF HmInv, InTheCycle
      <3> QED
        BY <1>1, <2>2, <3>1 DEF HmNext, HmMain, HomingCommand, HomingOfOneAxis, HomingAccepted, Plan,
           PollLimits, PollExits, Fails, Stopped, Delay, LastPoll, LeaveHoming, MainPoll, Suspend,
           HmRestart, Step, BufferEmpty, HmCommand, HmCycle, hmVars
    <2> QED
      BY <1>1, <2>1, <2>2 DEF HmInv, HmTypeOK, HmCycle
  <1>2. HmInv /\ [HmNext]_hmVars
        => [hm_state' = "IDLE" /\ hm_at \notin {"main", "restart", "suspend"} => hm_homed = HmAxes]_hmVars
    BY <1>1
  <1> QED
    BY <1>2, HomedIsLocated, PTL DEF HmSpec, FailedHomingLocks

\* All that the run promises of homing.
THEOREM HomingIsSafe == HmSpec => HmSafe
  BY HomedIsLocated, FailedHomingStaysLocked, PTL DEF HmSafe
=============================================================================
