----------------------------- MODULE MCDevices -----------------------------
(***************************************************************************)
(* The parts of the program that meet through the realtime state machine   *)
(* and the planner only, checked side by side: the control panel           *)
(* (UserInterface, Editors, Input, Display), the EEPROM (Settings), homing *)
(* (Homing), the SD card (SdCard), the plan (Planner) and the steps of a   *)
(* move (Stepping).  Each abstracts the others to the calls they make of   *)
(* it; part says which one moves, the others stay in an initial state.     *)
(***************************************************************************)
EXTENDS UserInterface, Editors, Input, Display, Stepping, MCSettings, MCHoming, MCSdCard,
        MCPlanner

\* The menu and the form are shortened ones with the separators where the user
\* interface has them: after the first entry, before the last one.
MCMenu == <<"title", "entry", "separator", "entry", "entry", "separator", "entry", "end">>
MCForm == <<"number", "separator", "number", "checkbox", "separator", "end">>
MCFiles == {0, 1, 5}
MCLengths == {0, 1500, 2300}

\* Each axis leads, one turns round and stands still, with inverted pins, drivers
\* that stay enabled, and homing.
SpMovesDef == {[x |-> 2, z |-> -1], [x |-> 0, z |-> 1]}
SpSetupsDef ==
  {[step |-> {"x"}, dir |-> {"z"}, locks |-> TRUE, homing |-> FALSE],
   [step |-> {"z"}, dir |-> {}, locks |-> FALSE, homing |-> TRUE]}

VARIABLE part

panelVars == <<uiVars, edVars, inVars, dpVars>>
storeVars == <<seVars, sd_vars>>
axesVars == <<hmVars, pn_vars, spVars>>

\* A part that does not move has one initial state.
PanelInit ==
  /\ UiInit
  /\ EdInit /\ (part = "editors" \/ ed_visits = CHOOSE p \in EdPages \ {"tools"} : TRUE)
  /\ InInit /\ (part = "input" \/ in_use = "keys")
  /\ DpInit /\ (part = "display" \/ ~dp_adjacent)

StoreInit ==
  /\ SeInit /\ (part = "settings" \/ se_eeprom = ErasedEeprom)
  /\ SdInit /\ (part = "sd" \/ (sd_text = <<>> /\ sd_socket = {CHOOSE c \in Formatted : TRUE}))

AxesInit ==
  /\ HmInit /\ (part = "homing" \/ hm_place = [a \in HmAxes |-> CHOOSE p \in HmPlaces : TRUE])
  /\ PnInit /\ (part = "planner" \/ pn_override = CHOOSE f \in Overrides : TRUE)
  /\ SpInit /\ (part = "stepper" \/ sp_setup = CHOOSE s \in SpSetups : TRUE)

DevicesInit ==
  /\ part \in {"ui", "editors", "input", "display", "settings", "sd", "homing", "planner",
              "stepper"}
  /\ PanelInit /\ StoreInit /\ AxesInit

PanelNext ==
  /\ part \in {"ui", "editors", "input", "display"}
  /\ UNCHANGED <<storeVars, axesVars>>
  /\ \/ part = "ui" /\ UiNext /\ UNCHANGED <<edVars, inVars, dpVars>>
     \/ part = "editors" /\ EdNext /\ UNCHANGED <<uiVars, inVars, dpVars>>
     \/ part = "input" /\ InNext /\ UNCHANGED <<uiVars, edVars, dpVars>>
     \/ part = "display" /\ DpNext /\ UNCHANGED <<uiVars, edVars, inVars>>

StoreNext ==
  /\ part \in {"settings", "sd"}
  /\ UNCHANGED <<panelVars, axesVars>>
  /\ \/ part = "settings" /\ SeNext /\ UNCHANGED sd_vars
     \/ part = "sd" /\ SdNext /\ UNCHANGED seVars

AxesNext ==
  /\ part \in {"homing", "planner", "stepper"}
  /\ UNCHANGED <<panelVars, storeVars>>
  /\ \/ part = "homing" /\ HmNext /\ UNCHANGED <<pn_vars, spVars>>
     \/ part = "planner" /\ PnNext /\ UNCHANGED <<hmVars, spVars>>
     \/ part = "stepper" /\ SpNext /\ UNCHANGED <<hmVars, pn_vars>>

DevicesNext == (PanelNext \/ StoreNext \/ AxesNext) /\ UNCHANGED part

DevicesSpec ==
  DevicesInit /\ [][DevicesNext]_<<part, panelVars, storeVars, axesVars>>
=============================================================================
