----------------------------- MODULE MCProgram -----------------------------
(***************************************************************************)
(* The parser (Gcode) and the overrides, coolant and spindle (Overrides)   *)
(* checked side by side.  Overrides abstracts the lines to what it needs   *)
(* of them, so the two share no variable here; part says which of them     *)
(* moves, the other one stays in an initial state.                         *)
(***************************************************************************)
EXTENDS MCGcode, Overrides

MCFeedPots == {0, 3}
MCRapidPots == {0, 4}
MCUses == {{"feed_coarse_plus", "feed_fine_minus", "feed_pot"},
           {"rapid_low", "rapid_reset", "rapid_pot"},
           {"spindle_reset", "spindle_coarse_minus"},
           {"spindle_coarse_plus", "flood", "mist"}}

VARIABLE part

ProgramInit ==
  /\ part \in {"parser", "overrides"}
  /\ GcInit /\ (part = "parser" \/ gc_setup = CHOOSE s \in GcSetups : TRUE)
  /\ OvInit /\ (part = "overrides" \/ ov_use = CHOOSE u \in OvUses : TRUE)

ProgramNext ==
  \/ part = "parser" /\ GcNext /\ UNCHANGED <<part, ovVars>>
  \/ part = "overrides" /\ OvNext /\ UNCHANGED <<part, gcVars>>

ProgramSpec == ProgramInit /\ [][ProgramNext]_<<part, gcVars, ovVars>>
=============================================================================
