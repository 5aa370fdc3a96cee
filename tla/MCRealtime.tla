----------------------------- MODULE MCRealtime -----------------------------
(***************************************************************************)
(* Sessions of the operator for TLC.                                       *)
(***************************************************************************)
EXTENDS Realtime

Session(nCommands, chars, nLines, kinds, file) ==
  [maxCommands |-> nCommands, commands |-> chars, maxLines |-> nLines, lines |-> kinds,
   sd |-> file, panel |-> FALSE]
WithPanel(s) == [s EXCEPT !.panel = TRUE]

McHolds == Session(5, {"FEED_HOLD", "CYCLE_START", "OVR_STOP"}, 3, {"line", "spindle"}, FALSE)
McDoors == Session(5, {"DOOR", "SAFETY_DOOR", "CYCLE_START"}, 3, {"line", "spindle"}, FALSE)
McHeldDoors == Session(4, {"FEED_HOLD", "CYCLE_START", "DOOR", "OVR_STOP"}, 2,
                       {"line", "spindle"}, FALSE)
McResets == Session(3, {"RESET", "FEED_HOLD", "CYCLE_START"}, 3,
                    {"line", "soft_limit", "sleep", "unlock", "jog"}, TRUE)
McPanel == WithPanel(Session(2, {"RESET", "CYCLE_START"}, 3,
                             {"line", "spindle", "jog", "sleep", "unlock"}, FALSE))
McProbes == Session(2, {"FEED_HOLD", "DOOR"}, 2, {"probe", "line"}, FALSE)
McCancels == Session(3, {"MOTION_CANCEL", "FEED_HOLD", "CYCLE_START", "DOOR"}, 2,
                     {"line", "jog"}, FALSE)
McResumes == Session(2, {"CYCLE_START", "FEED_HOLD"}, 2, {"probe", "line"}, FALSE)
McOneReset == Session(1, {"RESET"}, 1, {"line"}, FALSE)

McSafety == {McHolds, McDoors, McHeldDoors, McResets, McPanel, McProbes}
McOnePanel == {McPanel}
McLive == {McCancels, McProbes}
McProbeResume == {McResumes}
McPosition == {McOneReset}
=============================================================================
