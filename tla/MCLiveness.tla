----------------------------- MODULE MCLiveness -----------------------------
(***************************************************************************)
(* The parts that owe an answer, and the rings of the serial port, each    *)
(* under the fairness of its own specification and with bounds small       *)
(* enough for liveness: every part is checked alone, in the behaviours     *)
(* with its name in part, and the others stay in an initial state.         *)
(***************************************************************************)
EXTENDS UserInterface, Input, Display, Serial, MCHoming, MCSdCard

VARIABLE part

LivenessInit ==
  /\ part \in {"ui", "input", "display", "tx", "rx", "homing", "sd"}
  /\ UiInit /\ SerialInit /\ (part = "rx" \/ counts)
  /\ InInit /\ in_use = "pins"
  /\ DpInit /\ (part = "display" \/ ~dp_adjacent)
  /\ HmInit /\ (part = "homing" \/ hm_place = [a \in HmAxes |-> CHOOSE p \in HmPlaces : TRUE])
  /\ SdInit /\ (part = "sd" \/ (sd_text = <<>> /\ sd_socket = {CHOOSE c \in Formatted : TRUE}))

LivenessNext ==
  \/ part = "ui" /\ UiNext /\ UNCHANGED <<part, inVars, dpVars, txVars, rxVars, hmVars, sd_vars>>
  \/ part = "input" /\ InNext /\ UNCHANGED <<part, uiVars, dpVars, txVars, rxVars, hmVars, sd_vars>>
  \/ part = "display" /\ DpNext /\ UNCHANGED <<part, uiVars, inVars, txVars, rxVars, hmVars, sd_vars>>
  \/ part = "tx" /\ TxNext /\ UNCHANGED <<part, uiVars, inVars, dpVars, rxVars, hmVars, sd_vars>>
  \/ part = "rx" /\ RxNext /\ UNCHANGED <<part, uiVars, inVars, dpVars, txVars, hmVars, sd_vars>>
  \/ part = "homing" /\ HmNext /\ UNCHANGED <<part, uiVars, inVars, dpVars, txVars, rxVars, sd_vars>>
  \/ part = "sd" /\ SdNext /\ UNCHANGED <<part, uiVars, inVars, dpVars, txVars, rxVars, hmVars>>

\* UiFairness, InFairness, HmFairness and the fairness of TxFairSpec, DpSpec and SdSpec.
LivenessFairness ==
  /\ WF_uiVars(part = "ui" /\ TakeLine)
  /\ WF_uiVars(part = "ui" /\ LineExecuted)
  /\ WF_uiVars(part = "ui" /\ Homed)
  /\ WF_inVars(part = "input" /\ UITask)
  /\ WF_inVars(part = "input" /\ HandlerReturns)
  /\ WF_dpVars(part = "display" /\ Update)
  /\ WF_txVars(part = "tx" /\ SerialWrite)
  /\ WF_txVars(part = "tx" /\ Udre)
  /\ WF_hmVars(part = "homing" /\ HmMain)
  /\ WF_hmVars(part = "homing" /\ (Step \/ BufferEmpty))
  /\ WF_sd_vars(part = "sd" /\ SdMain)

LivenessSpec ==
  /\ LivenessInit
  /\ [][LivenessNext]_<<part, uiVars, inVars, dpVars, txVars, rxVars, hmVars, sd_vars>>
  /\ LivenessFairness

\* The panel answers: a line leaves its buffer, a pin is flagged, and the display
\* comes to show what is.
PanelServed == LinesLeaveTheBuffer /\ ControlFlagged /\ ScreenSettles

\* Whoever waits is released: a write to the serial port, a homing cycle and the
\* run of a file end.
WaitsEnd == WriteReturns /\ HomingEnds /\ FileRunEnds
=============================================================================
