-------------------------------- MODULE Gcode --------------------------------
(***************************************************************************)
(* The G-code parser (gcode.c, jog.c): gc_execute_line() reads a line word *)
(* by word into gc_block, checks the whole block, and only then changes    *)
(* gc_state and tells the planner, the spindle, the coolant and the EEPROM *)
(* what to do.                                                             *)
(*                                                                         *)
(* A word is its letter, the whole part of its number and the two digits   *)
(* after the point, which only commands have here.  Distances are whole    *)
(* millimetres, or inches of MM_PER_INCH of them.  A modal value is its    *)
(* command: G38.2 is 382, G1 is 10.  The planner ends a motion where it    *)
(* was told to: only the end of each mc_line() and mc_arc() is kept.       *)
(*                                                                         *)
(* A definition just before the one it resembles, used nowhere, is a       *)
(* mistake that one of the properties catches: README, "Mutants".          *)
(***************************************************************************)
EXTENDS Integers, Sequences, FiniteSets, FiniteSetsExt, SequencesExt

CONSTANTS
  GcSetups,      \* the settings and the words the lines are made of
  MM_PER_INCH,
  GcMaxWords,    \* bound on the words of a line
  GcMaxLines     \* bound on the lines

VARIABLES
  gc_setup,     \* [words, laser, sync_pulses, hard_limits, bad, stored]
  gc_state,     \* parser_state_t
  gc_block,     \* parser_block_t and the local variables of the parse
  gc_phase,     \* "idle", "parsing"
  gc_status,    \* what the last line returned
  gc_check,     \* sys.state is CHECK_MODE
  gc_aborted,   \* sys.abort: only a restart comes next
  coord_data,   \* the EEPROM's coordinate records, or BAD
  gc_planned,   \* pl.position in mm: where the planned motions end
  gc_machine,   \* sys_position in mm
  gc_outputs,   \* what the spindle and coolant pins were last set to
  gc_wco,       \* sys.report_wco_counter is 0: the offsets are reported next
  gc_reported,  \* the offsets that were reported last
  gc_motions,   \* the motions the last line planned
  gc_lines      \* bound

gcVars == <<gc_setup, gc_state, gc_block, gc_phase, gc_status, gc_check,
            gc_aborted, coord_data, gc_planned, gc_machine, gc_outputs,
            gc_wco, gc_reported, gc_motions, gc_lines>>

Axis == {"X", "Y", "Z"}
Zero == [a \in Axis |-> 0]
BAD == [a \in {} |-> 0]   \* a record whose checksum is wrong
TLO_AXIS == "Z"
MAX_TOOL_NUMBER == 99
N_COORDINATE_SYSTEM == 6
G28_INDEX == 6    \* SETTING_INDEX_G28
G30_INDEX == 7
Records == 0..7

MAX_LINE_NUMBER == 10000000

\* gc_init() has read the record of G54, and repaired it if it was bad.
ASSUME GcAssumption ==
  /\ MM_PER_INCH \in Nat \ {0} /\ GcMaxWords \in Nat /\ GcMaxLines \in Nat
  /\ \A s \in GcSetups :
       /\ s.stored \in [Records -> [Axis -> Int]] /\ 0 \notin s.bad
       /\ \A w \in s.words : w.v \in Int /\ w.m \in Nat

\* FAIL(): a check gives its status when its condition holds, and a list of
\* checks that of the first one that fails.
FailIf(condition, status) == IF condition THEN status ELSE "OK"
FirstFailure(statuses) ==
  LET failed == {i \in DOMAIN statuses : statuses[i] # "OK"}
  IN IF failed = {} THEN "OK" ELSE statuses[Min(failed)]

-----------------------------------------------------------------------------
(* The commands.                                                           *)

NonModal == {4, 10, 28, 30, 53, 92}
Motion == {0, 1, 2, 3, 33, 38, 80}
Code(w) == 10 * w.v + w.m \div 10

\* Modal groups are named after their first member in gcode.h.
MGroup(w) ==
  CASE w.v \in {0, 1, 2, 30} -> "M4"
    [] w.v \in {3, 4, 5} -> "M7"
    [] w.v \in {7, 8, 9} -> "M8"
    [] OTHER -> "none"
GGroup(w) ==
  CASE w.v \in NonModal -> "G0"
    [] w.v \in Motion -> "G1"
    [] w.v \in 17..19 -> "G2"
    [] w.v \in {90, 91} -> IF w.m = 0 THEN "G3" ELSE "G4"
    [] w.v \in {93, 94} -> "G5"
    [] w.v \in {20, 21} -> "G6"
    [] w.v = 40 -> "G7"
    [] w.v \in {43, 49} -> "G8"
    [] w.v \in 54..59 -> "G12"
    [] w.v = 61 -> "G13"
    [] OTHER -> "none"
Group(w) == IF w.l = "M" THEN MGroup(w) ELSE GGroup(w)

\* The commands that use the axis words of their line, and for what.
AxisUse(w) ==
  CASE w.v \in {10, 28, 30, 92} /\ w.m = 0 -> "non_modal"
    [] w.v \in Motion \ {80} -> "motion"
    [] w.v \in {43, 49} -> "tool_length"
    [] OTHER -> "none"

\* Does the command exist with these digits after its point?
Digits(w) ==
  CASE w.v \in {28, 30, 92} -> {0, 10}
    [] w.v = 38 -> {20, 30, 40, 50}
    [] w.v = 91 -> {0, 10}
    [] w.v = 43 -> {10}
    [] w.v \in {90, 61} -> {0}
    [] OTHER -> Nat
Whole == (0..99) \ {28, 30, 38, 43, 49, 91, 92}

GChecks(b, w) == <<
  FailIf(Group(w) = "none", "UNSUPPORTED_COMMAND"),
  FailIf(w.v = 33 /\ ~gc_setup.sync_pulses, "SYNCHRONIZATION_PULSES_NOT_SET"),
  FailIf(w.v = 33 /\ ~gc_setup.hard_limits, "HARDWARE_LIMITS_NOT_ENABLED"),
  FailIf(AxisUse(w) # "none" /\ b.axis_command # "none", "AXIS_COMMAND_CONFLICT"),
  FailIf(w.m \notin Digits(w), "UNSUPPORTED_COMMAND"),
  FailIf(w.v \in Whole /\ w.m > 0, "COMMAND_VALUE_NOT_INTEGER"),
  FailIf(Group(w) \in b.command_words, "MODAL_GROUP_VIOLATION") >>

MChecks(b, w) == <<
  FailIf(w.m > 0, "COMMAND_VALUE_NOT_INTEGER"),
  FailIf(Group(w) = "none", "UNSUPPORTED_COMMAND"),
  FailIf(Group(w) \in b.command_words, "MODAL_GROUP_VIOLATION") >>

Coolant(w, old) ==
  CASE w.v = 7 -> old \cup {"mist"}
    [] w.v = 8 -> old \cup {"flood"}
    [] OTHER -> {}

\* What a command makes of the value its group has.
ModalValue(w, old) ==
  CASE Group(w) = "G12" -> w.v - 54
    [] Group(w) = "M8" -> Coolant(w, old)
    [] Group(w) = "M4" -> IF w.v = 1 THEN old ELSE w.v
    [] Group(w) = "G8" -> IF w.v = 49 THEN 490 ELSE 431
    [] Group(w) \in {"M7", "G2", "G3", "G5", "G6"} -> w.v
    [] OTHER -> Code(w)

WithCommand(b, w) ==
  [b EXCEPT !.command_words = @ \cup {Group(w)},
            !.axis_command = IF AxisUse(w) = "none" \/ w.l = "M"
                             THEN @ ELSE AxisUse(w),
            !.non_modal = IF Group(w) = "G0" THEN Code(w) ELSE @,
            !.modal = [g \in DOMAIN @ |-> IF g = Group(w)
                                          THEN ModalValue(w, @[g]) ELSE @[g]]]

-----------------------------------------------------------------------------
(* The value words.                                                        *)

ValueLetters == {"F", "I", "J", "K", "L", "N", "P", "R", "S", "T"} \cup Axis

ValueChecks(b, w) == <<
  FailIf(w.l \notin ValueLetters, "UNSUPPORTED_COMMAND"),
  FailIf(w.l = "T" /\ w.v > MAX_TOOL_NUMBER, "MAX_VALUE_EXCEEDED"),
  FailIf(w.l \in b.value_words, "WORD_REPEATED"),
  FailIf(w.l \in {"F", "N", "P", "T", "S"} /\ w.v < 0, "NEGATIVE_VALUE") >>

WithValue(b, w) ==
  [b EXCEPT !.value_words = @ \cup {w.l},
            !.values = [@ EXCEPT ![w.l] = IF w.l = "L" THEN w.v % 256 ELSE w.v]]

WordStatus(b, w) ==
  FirstFailure(CASE w.l = "G" -> GChecks(b, w)
                 [] w.l = "M" -> MChecks(b, w)
                 [] OTHER -> ValueChecks(b, w))

WithWord(b, w) ==
  IF w.l \in {"G", "M"} THEN WithCommand(b, w) ELSE WithValue(b, w)

NewBlock(jog) ==
  [jog |-> jog,
   modal |-> IF jog THEN [gc_state.modal EXCEPT !["G1"] = 10, !["G5"] = 94]
                    ELSE gc_state.modal,
   non_modal |-> -1, axis_command |-> "none", command_words |-> {},
   value_words |-> {}, values |-> [l \in ValueLetters |-> 0], words |-> {}]

-----------------------------------------------------------------------------
(* The checks of a whole block, in the order of the standard.              *)

Named(b) == b.value_words \cap Axis
Scale(b) == IF b.modal["G6"] = 20 THEN MM_PER_INCH ELSE 1

\* The two axes of the plane: axis_0 and axis_1.
Plane(b) ==
  CASE b.modal["G2"] = 17 -> <<"X", "Y">>
    [] b.modal["G2"] = 18 -> <<"Z", "X">>
    [] OTHER -> <<"Y", "Z">>
OffsetOf == [X |-> "I", Y |-> "J", Z |-> "K"]

\* Axis words without a command that uses them are for the motion mode.
AxisCommand(b) ==
  IF Named(b) # {} /\ b.axis_command = "none" THEN "motion" ELSE b.axis_command

InverseTime(b) == ~b.jog /\ b.modal["G5"] = 93

FeedRate(b) ==
  IF b.jog THEN b.values["F"] * Scale(b)
  ELSE IF InverseTime(b) \/ gc_state.modal["G5"] = 93 THEN b.values["F"]
  ELSE IF "F" \in b.value_words THEN b.values["F"] * Scale(b)
  ELSE gc_state.feed_rate

SpindleSpeed(b) ==
  IF "S" \in b.value_words THEN b.values["S"] ELSE gc_state.spindle_speed

ChangesSystem(b) ==
  "G12" \in b.command_words /\ b.modal["G12"] # gc_state.modal["G12"]

\* block_coord_system
BlockSystem(b) ==
  IF ChangesSystem(b) THEN coord_data[b.modal["G12"]] ELSE gc_state.coord_system

\* The record that G10 writes: P0 is the active one.  A P above 255 has lost
\* its upper byte.
G10Select(b) ==
  LET p == b.values["P"] % 256 IN IF p > 0 THEN p - 1 ELSE b.modal["G12"]

\* The record the line reads and cannot: it is written with zeros instead.
BadRecord(b) ==
  IF ChangesSystem(b) /\ coord_data[b.modal["G12"]] = BAD THEN b.modal["G12"]
  ELSE CASE b.non_modal = 100 -> G10Select(b)
         [] b.non_modal = 280 -> G28_INDEX
         [] OTHER -> G30_INDEX

TloOn(a) == IF a = TLO_AXIS THEN gc_state.tool_length_offset ELSE 0
OffsetsOfOldSystem(b, a) ==
  gc_state.coord_system[a] + gc_state.coord_offset[a] + TloOn(a)
Offsets(b, a) == BlockSystem(b)[a] + gc_state.coord_offset[a] + TloOn(a)

\* Where the axis words of a motion lead.  Without any, the values are still
\* the zeros of the new block; the only motion that comes here then is a jog.
Target(b) ==
  IF Named(b) = {} THEN Zero ELSE
  [a \in Axis |->
     LET value == b.values[a] * Scale(b)
     IN IF a \notin Named(b) THEN gc_state.position[a]
        ELSE IF b.non_modal = 530 THEN value
        ELSE value + IF b.modal["G3"] = 90 THEN Offsets(b, a) ELSE gc_state.position[a]]

\* What G10 writes.
CoordinateData(b) ==
  [a \in Axis |->
     IF a \notin Named(b) THEN coord_data[G10Select(b)][a]
     ELSE IF b.values["L"] = 20
     THEN gc_state.position[a] - gc_state.coord_offset[a]
            - b.values[a] * Scale(b) - TloOn(a)
     ELSE b.values[a] * Scale(b)]

\* What G92 sets.
G92Offset(b) ==
  [a \in Axis |->
     IF a \in Named(b)
     THEN gc_state.position[a] - BlockSystem(b)[a] - b.values[a] * Scale(b) - TloOn(a)
     ELSE gc_state.coord_offset[a]]

\* Where G28 and G30 end: the axes that are not named stay where they are.
Home(b) ==
  LET stored == coord_data[IF b.non_modal = 280 THEN G28_INDEX ELSE G30_INDEX]
  IN [a \in Axis |-> IF Named(b) # {} /\ a \notin Named(b)
                     THEN gc_state.position[a] ELSE stored[a]]

GoesHome(b) == b.non_modal \in {280, 300}
Arc(b) == b.modal["G1"] \in {20, 30}
Probe(b) == b.modal["G1"] \in {382, 383, 384, 385}

\* axis_command after the checks: without axis words there is nothing to move.
Moves(b) ==
  /\ AxisCommand(b) = "motion"
  /\ b.modal["G1"] \in {0, 10, 330} => Named(b) # {}
IntermediateMove(b) == GoesHome(b) /\ Named(b) # {}
UsesAxisWords(b) ==
  IF GoesHome(b) \/ AxisCommand(b) = "motion" THEN Named(b) # {}
  ELSE AxisCommand(b) # "none"

Square(n) == n * n
\* Whole millimetres under 16 of them, whose radii are equal or differ by more
\* than a thousandth of the radius and 0.005 mm: the tolerance has no say.
ArcChecks(b) ==
  LET axes == Plane(b)
      x == Target(b)[axes[1]] - gc_state.position[axes[1]]
      y == Target(b)[axes[2]] - gc_state.position[axes[2]]
      i == b.values[OffsetOf[axes[1]]] * Scale(b)
      j == b.values[OffsetOf[axes[2]]] * Scale(b)
      radius == "R" \in b.value_words
  IN <<
  FailIf(Named(b) = {}, "NO_AXIS_WORDS"),
  FailIf(Named(b) \cap ToSet(axes) = {}, "NO_AXIS_WORDS_IN_PLANE"),
  FailIf(radius /\ Target(b) = gc_state.position, "INVALID_TARGET"),
  FailIf(radius /\ 4 * Square(b.values["R"] * Scale(b)) < Square(x) + Square(y),
    "ARC_RADIUS_ERROR"),
  FailIf(~radius /\ {OffsetOf[axes[1]], OffsetOf[axes[2]]} \cap b.value_words = {},
    "NO_OFFSETS_IN_PLANE"),
  FailIf(~radius /\ Square(x - i) + Square(y - j) # Square(i) + Square(j),
    "INVALID_TARGET") >>

ProbeChecks(b) == <<
  FailIf(Named(b) = {}, "NO_AXIS_WORDS"),
  FailIf(Target(b) = gc_state.position, "INVALID_TARGET") >>

ThreadChecks(b) == <<
  FailIf("K" \notin b.value_words, "VALUE_WORD_MISSING"),
  FailIf("F" \in b.value_words, "UNUSED_WORDS") >>

ModeChecks(b) ==
  CASE b.modal["G1"] = 330 -> ThreadChecks(b)
    [] Arc(b) -> ArcChecks(b)
    [] Probe(b) -> ProbeChecks(b)
    [] OTHER -> <<>>

MotionChecksWithoutFeed(b) ==
  IF b.modal["G1"] = 800 THEN << FailIf(Named(b) # {}, "AXIS_WORDS_EXIST") >>
  ELSE IF AxisCommand(b) # "motion" \/ b.modal["G1"] = 0 THEN <<>>
  ELSE ModeChecks(b)

MotionChecks(b) ==
  IF b.modal["G1"] = 800 THEN << FailIf(Named(b) # {}, "AXIS_WORDS_EXIST") >>
  ELSE IF AxisCommand(b) # "motion" \/ b.modal["G1"] = 0 THEN <<>>
  ELSE << FailIf(b.modal["G1"] # 330 /\ FeedRate(b) = 0, "UNDEFINED_FEED_RATE") >>
       \o ModeChecks(b)

\* The words the line has a use for.
Used(b) ==
  {"N", "F"} \cup (IF b.jog THEN {} ELSE {"S", "T"})
  \cup (IF b.non_modal = 40 THEN {"P"} ELSE {})
  \cup (IF b.non_modal = 100 THEN {"L", "P"} ELSE {})
  \cup (IF UsesAxisWords(b) THEN Axis ELSE {})
  \cup IF AxisCommand(b) # "motion" THEN {}
       ELSE CASE b.modal["G1"] = 330 -> {"K"}
              [] Arc(b) -> IF "R" \in b.value_words THEN {"R"} ELSE {"I", "J", "K"}
              [] OTHER -> {}

G10Checks(b) == <<
  FailIf(Named(b) = {}, "NO_AXIS_WORDS"),
  FailIf({"P", "L"} \cap b.value_words = {}, "VALUE_WORD_MISSING"),
  FailIf(b.values["P"] % 256 > N_COORDINATE_SYSTEM, "UNSUPPORTED_COORD_SYS"),
  FailIf(b.values["L"] = 2 /\ "R" \in b.value_words, "UNSUPPORTED_COMMAND"),
  FailIf(b.values["L"] \notin {2, 20}, "UNSUPPORTED_COMMAND"),
  FailIf(coord_data[G10Select(b)] = BAD, "SETTING_READ_FAIL") >>

CommonChecks(b) == <<
  FailIf(b.values["N"] > MAX_LINE_NUMBER, "INVALID_LINE_NUMBER"),
  FailIf(InverseTime(b) /\ AxisCommand(b) = "motion" /\ "F" \notin b.value_words
      /\ b.modal["G1"] \notin {0, 800}, "UNDEFINED_FEED_RATE"),
  FailIf(b.jog /\ "F" \notin b.value_words, "UNDEFINED_FEED_RATE"),
  FailIf(b.non_modal = 40 /\ "P" \notin b.value_words, "VALUE_WORD_MISSING"),
  FailIf(AxisCommand(b) = "tool_length" /\ b.modal["G8"] = 431
      /\ Named(b) # {TLO_AXIS}, "G43_DYNAMIC_AXIS_ERROR"),
  FailIf(ChangesSystem(b) /\ coord_data[b.modal["G12"]] = BAD, "SETTING_READ_FAIL") >>

NonModalChecks(b) ==
  CASE b.non_modal = 100 -> G10Checks(b)
    [] b.non_modal = 920 -> << FailIf(Named(b) = {}, "NO_AXIS_WORDS") >>
    [] GoesHome(b) -> << FailIf(coord_data[BadRecord(b)] = BAD, "SETTING_READ_FAIL") >>
    [] b.non_modal = 530 ->
         << FailIf(b.modal["G1"] \notin {0, 10}, "G53_INVALID_MOTION_MODE") >>
    [] OTHER -> <<>>

\* The checks before the target is computed, which needs what they read.
EarlyChecks(b) == CommonChecks(b) \o NonModalChecks(b)

FinalChecks(b) == <<
  FailIf(~(b.value_words \subseteq Used(b)), "UNUSED_WORDS"),
  FailIf(b.jog /\ ~(b.command_words \subseteq {"G0", "G3", "G6"}), "INVALID_JOG_COMMAND"),
  FailIf(b.jog /\ b.non_modal \notin {-1, 530}, "INVALID_JOG_COMMAND") >>

LateChecks(b) == MotionChecks(b) \o FinalChecks(b)

BlockStatus(b) ==
  LET early == FirstFailure(EarlyChecks(b))
  IN IF early # "OK" THEN early ELSE FirstFailure(LateChecks(b))

-----------------------------------------------------------------------------
(* What an accepted block does.                                            *)

ParserInit ==   \* gc_init(), but for the position
  [modal |-> [G1 |-> 0, G2 |-> 17, G3 |-> 90, G5 |-> 94, G6 |-> 21, G8 |-> 490,
              G12 |-> 0, M4 |-> 99, M7 |-> 5, M8 |-> {}],
   feed_rate |-> 0, spindle_speed |-> 0, tool |-> 1, line_number |-> 0,
   position |-> Zero, coord_system |-> Zero, coord_offset |-> Zero,
   tool_length_offset |-> 0]
RUNNING == 99   \* PROGRAM_FLOW_RUNNING

\* A record that cannot be read is zero from then on.
Loaded(data, i) == IF data[i] = BAD THEN Zero ELSE data[i]
Repaired(data, i) == [data EXCEPT ![i] = Loaded(data, i)]

\* In laser mode only feed motions are made with the laser on.
LaserDisable(b) == gc_setup.laser /\ b.modal["G1"] \notin {10, 20, 30}
Power(b) == IF LaserDisable(b) THEN 0 ELSE SpindleSpeed(b)

Line(b, target, rapid) ==
  [target |-> target, rapid |-> rapid, power |-> Power(b),
   feed |-> IF b.modal["G1"] = 330 THEN b.values["K"] * Scale(b) ELSE FeedRate(b)]

Planned(b) ==
  IF IntermediateMove(b) THEN <<Line(b, Target(b), TRUE), Line(b, Home(b), TRUE)>>
  ELSE IF GoesHome(b) THEN <<Line(b, Home(b), TRUE)>>
  ELSE IF Moves(b) THEN <<Line(b, Target(b), b.modal["G1"] = 0)>> ELSE <<>>

NewTlo(b) ==
  IF AxisCommand(b) # "tool_length" THEN gc_state.tool_length_offset
  ELSE IF b.modal["G8"] = 490 THEN 0 ELSE b.values[TLO_AXIS] * Scale(b)

NewData(b) ==
  CASE b.non_modal = 100 -> [coord_data EXCEPT ![G10Select(b)] = CoordinateData(b)]
    [] b.non_modal = 281 -> [coord_data EXCEPT ![G28_INDEX] = gc_state.position]
    [] b.non_modal = 301 -> [coord_data EXCEPT ![G30_INDEX] = gc_state.position]
    [] OTHER -> coord_data

NewSystemNotUpdated(b) ==
  IF ChangesSystem(b) THEN BlockSystem(b) ELSE gc_state.coord_system

NewSystem(b) ==
  IF b.non_modal = 100 /\ G10Select(b) = b.modal["G12"] THEN CoordinateData(b)
  ELSE IF ChangesSystem(b) THEN BlockSystem(b) ELSE gc_state.coord_system

NewOffset(b) ==
  CASE b.non_modal = 920 -> G92Offset(b)
    [] b.non_modal = 921 -> Zero
    [] OTHER -> gc_state.coord_offset

FlagsWcoButNotG92(b) ==
  \/ NewTlo(b) # gc_state.tool_length_offset
  \/ ChangesSystem(b)
  \/ b.non_modal = 100 /\ G10Select(b) = b.modal["G12"]

FlagsWco(b) ==
  \/ NewTlo(b) # gc_state.tool_length_offset
  \/ ChangesSystem(b)
  \/ b.non_modal = 100 /\ G10Select(b) = b.modal["G12"]
  \/ b.non_modal \in {920, 921}

Executed(b, position) ==
  [modal |-> b.modal, feed_rate |-> FeedRate(b), spindle_speed |-> SpindleSpeed(b),
   tool |-> b.values["T"], line_number |-> b.values["N"], position |-> position,
   coord_system |-> NewSystem(b), coord_offset |-> NewOffset(b),
   tool_length_offset |-> NewTlo(b)]

EndsProgram(b) == b.modal["M4"] \in {2, 30}
\* M2, M30: some of the modes go back to their defaults.  The record of G54 can
\* be read: gc_init() has read it, and repaired it if it was bad.
ProgramEnd(s) ==
  [s EXCEPT !.modal = [@ EXCEPT !["G1"] = 10, !["G2"] = 17, !["G3"] = 90,
                                !["G5"] = 94, !["G12"] = 0, !["M7"] = 5,
                                !["M8"] = {}, !["M4"] = RUNNING],
            !.coord_system = IF gc_check THEN @ ELSE NewData(gc_block)[0]]
NextLine(s) == [s EXCEPT !.modal = [@ EXCEPT !["M4"] = RUNNING]]
WithFlow(b, s) == IF EndsProgram(b) THEN ProgramEnd(s) ELSE NextLine(s)

OutputsAfterWithoutEnd(b) ==
  LET modal == b.modal
  IN [spindle |-> modal["M7"], coolant |-> modal["M8"],
      speed |-> IF modal["M7"] = 5 THEN 0 ELSE Power(b)]

\* spindle_sync() and coolant_sync(): the speed is only sent with a new speed or
\* a new state, and a laser gets the speed of its motions from the planner.
OutputsAfter(b) ==
  LET modal == b.modal
      changed == modal["M7"] # gc_state.modal["M7"]
      speed == IF changed THEN Power(b)
               ELSE IF SpindleSpeed(b) # gc_state.spindle_speed
                       /\ ~(gc_setup.laser /\ Named(b) # {} /\ AxisCommand(b) = "motion")
                    THEN Power(b) ELSE gc_outputs.speed
  IN IF EndsProgram(b) THEN [spindle |-> 5, speed |-> 0, coolant |-> {}]
     ELSE [spindle |-> modal["M7"], coolant |-> modal["M8"],
           speed |-> IF modal["M7"] = 5 THEN 0 ELSE speed]

-----------------------------------------------------------------------------
(* The line, word by word, and what becomes of it.                         *)

Wco(s) == [a \in Axis |-> s.coord_system[a] + s.coord_offset[a]
                            + IF a = TLO_AXIS THEN s.tool_length_offset ELSE 0]

StartLine(jog) ==
  /\ gc_phase = "idle" /\ ~gc_aborted /\ gc_lines < GcMaxLines
  /\ jog => ~gc_check
  /\ gc_phase' = "parsing" /\ gc_lines' = gc_lines + 1
  /\ gc_block' = NewBlock(jog)
  /\ gc_status' = "parsing" /\ gc_motions' = <<>>
  /\ UNCHANGED <<gc_setup, gc_state, gc_check, gc_aborted, coord_data,
                 gc_planned, gc_machine, gc_outputs, gc_wco, gc_reported>>

Returns(status) ==
  /\ gc_phase' = "idle" /\ gc_status' = status
  /\ UNCHANGED <<gc_block, gc_lines, gc_setup, gc_check, gc_reported>>

Unexecuted == UNCHANGED <<gc_state, gc_aborted, gc_planned, gc_machine,
                          gc_outputs, gc_wco, gc_motions>>

ParseWord(w) ==
  /\ gc_phase = "parsing" /\ Cardinality(gc_block.words) < GcMaxWords
  /\ w \notin gc_block.words
  /\ IF WordStatus(gc_block, w) = "OK"
     THEN /\ gc_block' = [WithWord(gc_block, w) EXCEPT !.words = @ \cup {w}]
          /\ UNCHANGED <<gc_phase, gc_status, gc_lines, gc_setup, gc_check, gc_reported>>
     ELSE Returns(WordStatus(gc_block, w))
  /\ Unexecuted /\ UNCHANGED coord_data

Reject ==
  /\ gc_phase = "parsing" /\ BlockStatus(gc_block) # "OK"
  /\ Returns(BlockStatus(gc_block))
  /\ coord_data' = IF BlockStatus(gc_block) = "SETTING_READ_FAIL"
                   THEN Repaired(coord_data, BadRecord(gc_block)) ELSE coord_data
  /\ Unexecuted

ExecuteJogWithModes ==
  /\ gc_phase = "parsing" /\ gc_block.jog /\ BlockStatus(gc_block) = "OK"
  /\ Returns("OK")
  /\ gc_state' = [gc_state EXCEPT !.position = Target(gc_block),
                                 !.modal = gc_block.modal]
  /\ gc_planned' = Target(gc_block)
  /\ gc_motions' = <<Line(gc_block, Target(gc_block), FALSE)>>
  /\ UNCHANGED <<gc_aborted, gc_machine, gc_outputs, gc_wco, coord_data>>

\* The target is out of the travel, or the machine moves there.
ExecuteJog ==
  /\ gc_phase = "parsing" /\ gc_block.jog /\ BlockStatus(gc_block) = "OK"
  /\ \/ /\ Returns("TRAVEL_EXCEEDED") /\ Unexecuted
     \/ /\ Returns("OK")
        /\ gc_state' = [gc_state EXCEPT !.position = Target(gc_block)]
        /\ gc_planned' = Target(gc_block)
        /\ gc_motions' = <<Line(gc_block, Target(gc_block), FALSE)>>
        /\ UNCHANGED <<gc_aborted, gc_machine, gc_outputs, gc_wco>>
  /\ UNCHANGED coord_data

Accepted == gc_phase = "parsing" /\ ~gc_block.jog /\ BlockStatus(gc_block) = "OK"

\* Where a motion leaves the parser: probes know only when they are over.
ProbeEnds(b) ==
  IF gc_check THEN {[position |-> Target(b), at |-> gc_machine]}
  ELSE {[position |-> p, at |-> p] : p \in {gc_state.position, Target(b)}}
Ends(b) ==
  IF GoesHome(b) THEN {[position |-> Home(b), at |-> gc_machine]}
  ELSE IF Moves(b) /\ Probe(b) THEN ProbeEnds(b)
  ELSE {[position |-> IF Moves(b) THEN Target(b) ELSE gc_state.position,
         at |-> gc_machine]}

LastTarget(b) ==
  IF Planned(b) = <<>> THEN gc_planned ELSE Last(Planned(b)).target

Execute ==
  /\ Accepted /\ Returns("OK")
  /\ \E end \in Ends(gc_block) :
       /\ gc_state' = WithFlow(gc_block, Executed(gc_block, end.position))
       /\ gc_machine' = end.at
       /\ gc_planned' = IF gc_check THEN gc_planned
                        ELSE IF Moves(gc_block) /\ Probe(gc_block) THEN end.at
                        ELSE LastTarget(gc_block)
  /\ coord_data' = NewData(gc_block)
  /\ gc_outputs' = IF gc_check THEN gc_outputs ELSE OutputsAfter(gc_block)
  /\ gc_motions' = IF gc_check THEN <<>> ELSE Planned(gc_block)
  /\ gc_wco' = (gc_wco \/ FlagsWco(gc_block) \/ (EndsProgram(gc_block) /\ ~gc_check))
  /\ UNCHANGED gc_aborted

\* A reset, a limit or an alarm while the line waits for the planner: the rest
\* of the line is executed in the parser only.
Abort ==
  /\ Accepted /\ Returns("OK")
  /\ gc_state' = WithFlow(gc_block, Executed(gc_block,
                   IF GoesHome(gc_block) THEN Home(gc_block)
                   ELSE IF Moves(gc_block) THEN Target(gc_block)
                   ELSE gc_state.position))
  /\ gc_aborted' = TRUE
  /\ coord_data' = NewData(gc_block) /\ gc_wco' = TRUE
  /\ UNCHANGED <<gc_planned, gc_machine, gc_outputs, gc_motions>>

\* G33 without pulses from the spindle gives up in the middle of its execution.
PulseTimeout ==
  /\ Accepted /\ gc_block.modal["G1"] = 330 /\ Moves(gc_block)
  /\ \E status \in {"INDEX_PULSE_TIMEOUT", "SYNCHRONIZATION_PULSE_TIMEOUT"} :
       Returns(status)
  /\ gc_state' = NextLine(Executed(gc_block, gc_state.position))
  /\ coord_data' = NewData(gc_block)
  /\ gc_outputs' = IF gc_check THEN gc_outputs
                   ELSE OutputsAfter([gc_block EXCEPT !.modal["M4"] = RUNNING])
  /\ gc_wco' = (gc_wco \/ FlagsWco(gc_block))
  /\ UNCHANGED <<gc_aborted, gc_planned, gc_machine, gc_motions>>

-----------------------------------------------------------------------------
(* Between the lines.                                                      *)

\* The machine reaches the end of what is planned.
GcMotionsEnd ==
  /\ gc_phase = "idle" /\ ~gc_aborted /\ gc_machine # gc_planned
  /\ gc_machine' = gc_planned
  /\ UNCHANGED <<gc_setup, gc_state, gc_block, gc_phase, gc_status, gc_check,
                 gc_aborted, coord_data, gc_planned, gc_outputs, gc_wco,
                 gc_reported, gc_motions, gc_lines>>

GcJogCancelledUnsynced ==
  /\ gc_phase = "idle" /\ gc_block.jog /\ gc_status = "OK" /\ ~gc_aborted
  /\ gc_machine # gc_planned
  /\ gc_planned' = gc_machine
  /\ UNCHANGED <<gc_setup, gc_state, gc_block, gc_phase, gc_status, gc_check,
                 gc_aborted, coord_data, gc_machine, gc_outputs, gc_wco,
                 gc_reported, gc_motions, gc_lines>>

\* A jog is cancelled: parser and planner go back to where the machine stands.
GcJogCancelled ==
  /\ gc_phase = "idle" /\ gc_block.jog /\ gc_status = "OK" /\ ~gc_aborted
  /\ gc_machine # gc_planned
  /\ gc_planned' = gc_machine
  /\ gc_state' = [gc_state EXCEPT !.position = gc_machine]
  /\ UNCHANGED <<gc_setup, gc_block, gc_phase, gc_status, gc_check, gc_aborted,
                 coord_data, gc_machine, gc_outputs, gc_wco, gc_reported,
                 gc_motions, gc_lines>>

\* $C: check mode begins when nothing moves, and ends with a reset.
GcCheckMode ==
  /\ gc_phase = "idle" /\ ~gc_aborted /\ gc_machine = gc_planned
  /\ IF gc_check THEN gc_aborted' = TRUE /\ UNCHANGED gc_check
     ELSE gc_check' = TRUE /\ UNCHANGED gc_aborted
  /\ UNCHANGED <<gc_setup, gc_state, gc_block, gc_phase, gc_status, coord_data,
                 gc_planned, gc_machine, gc_outputs, gc_wco, gc_reported,
                 gc_motions, gc_lines>>

\* The main loop starts again: everything but the position is forgotten.
GcRestart ==
  /\ gc_aborted /\ gc_phase = "idle"
  /\ gc_aborted' = FALSE /\ gc_check' = FALSE
  /\ \E p \in {gc_machine, gc_planned} :
       /\ gc_machine' = p /\ gc_planned' = p
       /\ gc_state' = [ParserInit EXCEPT !.coord_system = Loaded(coord_data, 0),
                                         !.position = p]
  /\ coord_data' = Repaired(coord_data, 0)
  /\ gc_outputs' = [spindle |-> 5, speed |-> 0, coolant |-> {}]
  /\ gc_wco' = TRUE /\ gc_motions' = <<>>
  /\ UNCHANGED <<gc_setup, gc_block, gc_phase, gc_status, gc_reported, gc_lines>>

GcReport ==
  /\ gc_wco /\ gc_phase = "idle"
  /\ gc_wco' = FALSE /\ gc_reported' = Wco(gc_state)
  /\ UNCHANGED <<gc_setup, gc_state, gc_block, gc_phase, gc_status, gc_check,
                 gc_aborted, coord_data, gc_planned, gc_machine, gc_outputs,
                 gc_motions, gc_lines>>

GcInit ==
  /\ gc_setup \in GcSetups
  /\ coord_data = [i \in Records |-> IF i \in gc_setup.bad THEN BAD
                                     ELSE gc_setup.stored[i]]
  /\ gc_state = [ParserInit EXCEPT !.coord_system = coord_data[0]]
  /\ gc_block = NewBlock(FALSE) /\ gc_phase = "idle" /\ gc_status = "OK"
  /\ gc_check = FALSE /\ gc_aborted = FALSE
  /\ gc_planned = Zero /\ gc_machine = Zero
  /\ gc_outputs = [spindle |-> 5, speed |-> 0, coolant |-> {}]
  /\ gc_wco = TRUE /\ gc_reported = Zero /\ gc_motions = <<>> /\ gc_lines = 0

GcNext ==
  \/ \E jog \in BOOLEAN : StartLine(jog)
  \/ \E w \in gc_setup.words : ParseWord(w)
  \/ Reject \/ ExecuteJog \/ Execute \/ Abort \/ PulseTimeout
  \/ GcMotionsEnd \/ GcJogCancelled \/ GcCheckMode \/ GcRestart \/ GcReport

GcSpec == GcInit /\ [][GcNext]_gcVars

-----------------------------------------------------------------------------
(* The properties.                                                         *)

GcPlaces == [Axis -> Int]
GcModals ==
  [G1 : {0, 10, 20, 30, 330, 382, 383, 384, 385, 800}, G2 : 17..19, G3 : {90, 91},
   G5 : {93, 94}, G6 : {20, 21}, G8 : {431, 490}, G12 : 0..5,
   M4 : {0, 2, 30, RUNNING}, M7 : {3, 4, 5}, M8 : SUBSET {"flood", "mist"}]

Groups == {"G0", "G1", "G2", "G3", "G4", "G5", "G6", "G7", "G8", "G12", "G13",
           "M4", "M7", "M8"}

GcTypeOK ==
  /\ gc_setup \in GcSetups
  /\ gc_state \in [modal : GcModals, feed_rate : Nat, spindle_speed : Nat, tool : Nat,
                   line_number : Nat, position : GcPlaces, coord_system : GcPlaces,
                   coord_offset : GcPlaces, tool_length_offset : Int]
  /\ gc_phase \in {"idle", "parsing"} /\ gc_check \in BOOLEAN /\ gc_aborted \in BOOLEAN
  /\ coord_data \in [Records -> GcPlaces \cup {BAD}] /\ coord_data[0] # BAD
  /\ gc_planned \in GcPlaces /\ gc_machine \in GcPlaces /\ gc_reported \in GcPlaces
  /\ gc_outputs \in [spindle : {3, 4, 5}, speed : Nat, coolant : SUBSET {"flood", "mist"}]
  /\ gc_wco \in BOOLEAN
  /\ gc_block \in
       [jog : BOOLEAN, modal : GcModals, non_modal : Int,
        axis_command : {"none", "non_modal", "motion", "tool_length"},
        command_words : SUBSET Groups, value_words : SUBSET ValueLetters,
        values : [ValueLetters -> Int], words : SUBSET gc_setup.words]

\* What the execution of a block takes for granted: a command that uses the axis
\* words is the only one that does, the coordinate system changes by a command
\* only, and a jog is a G1 unless it says otherwise, which is refused.
BlockConsistent ==
  /\ \A l \in {"F", "N", "P", "S", "T"} : gc_block.values[l] >= 0
  /\ "G12" \notin gc_block.command_words
       => gc_block.modal["G12"] = gc_state.modal["G12"]
  /\ gc_block.non_modal \in {100, 280, 300, 920} => gc_block.axis_command = "non_modal"
  /\ gc_block.axis_command = "non_modal"
       => "G0" \in gc_block.command_words /\ gc_block.non_modal \notin {-1, 530}
  /\ gc_block.axis_command = "tool_length" => "G8" \in gc_block.command_words
  /\ gc_block.jog => "G1" \in gc_block.command_words \/ gc_block.modal["G1"] = 10

BlockInv ==
  gc_phase = "parsing" =>
    /\ ~gc_aborted /\ gc_status = "parsing" /\ gc_motions = <<>>
    /\ gc_block.jog => ~gc_check
    /\ BlockConsistent

\* Nothing is forgotten yet by a reset, nor kept back in check mode.
GcReal == ~gc_aborted /\ ~gc_check

\* The parser and the planner agree on where the machine will be: every line
\* that moves, every probe, jog and cancelled jog leaves both at one place.
ParserFollowsPlanner == GcReal => gc_state.position = gc_planned

\* The offsets in use are those the EEPROM holds for the selected system.
ActiveSystemIsStored ==
  GcReal => gc_state.coord_system = coord_data[gc_state.modal["G12"]]

\* The spindle and the coolant are as the modes say, at the programmed speed.
OutputsFollowModes ==
  GcReal =>
    /\ gc_outputs.spindle = gc_state.modal["M7"]
    /\ gc_outputs.coolant = gc_state.modal["M8"]
    /\ ~gc_setup.laser /\ gc_outputs.spindle # 5
         => gc_outputs.speed = gc_state.spindle_speed

\* A sender that computes work positions from the offsets reported last is not
\* left with old ones: either they are current, or the next report has them.
OffsetsReported == gc_wco \/ gc_reported = Wco(gc_state)

\* What an absolute line names is where the machine is afterwards, in the work
\* coordinates that hold after the line, whatever else the line selects, sets
\* or offsets; a relative line moves by what it names.  (G92.1 clears its offset
\* after the target was computed with it, as the order of execution has it.)
WorkPositionAsProgrammed == [][
  (gc_status' = "OK" /\ Accepted /\ ~EndsProgram(gc_block)) =>
    \A a \in Named(gc_block) :
      LET value == gc_block.values[a] * Scale(gc_block)
          sets == \/ gc_block.non_modal = 920
                  \/ gc_block.non_modal = 100 /\ gc_block.values["L"] = 20
                       /\ G10Select(gc_block) = gc_state'.modal["G12"]
          moves == Moves(gc_block) /\ ~Probe(gc_block)
          relative == gc_state'.modal["G3"] = 91
      IN /\ sets \/ (moves /\ ~relative /\ gc_block.non_modal \notin {530, 921})
              => gc_state'.position[a] - Wco(gc_state')[a] = value
         /\ moves /\ relative /\ gc_block.non_modal # 530
              => gc_state'.position[a] = gc_state.position[a] + value
         /\ moves /\ gc_block.non_modal = 530 => gc_state'.position[a] = value ]_gcVars

\* A line that names axes plans no motion without a feed rate, whichever feed
\* mode came before.  (The feed of a thread is its K times the spindle speed, and
\* nothing looks at K.)
FeedMotionsHaveFeed ==
  Named(gc_block) # {} /\ gc_block.modal["G1"] # 330 =>
    \A i \in DOMAIN gc_motions : gc_motions[i].rapid \/ gc_motions[i].feed > 0

\* A jog leaves the parser with the modes it had: only the position changes.
JogKeepsModes == [][
  (gc_block.jog /\ gc_phase = "parsing" /\ gc_phase' = "idle")
     => gc_state' = [gc_state EXCEPT !.position = gc_state'.position] ]_gcVars

\* gcode.c:873 says that a jog's axis words have been checked: it moves the axes
\* they name, and no other.
JogMovesNamedAxes == [][
  (gc_block.jog /\ gc_phase = "parsing" /\ gc_status' = "OK")
     => \A a \in Axis \ Named(gc_block) :
          gc_state'.position[a] = gc_state.position[a] ]_gcVars

\* The parser agrees with all it has caused: its position with the planner's, its
\* coordinate system with the EEPROM, its modes with the spindle and the coolant,
\* its offsets with the report; no feed motion was planned without a feed; and a
\* block is never half of one command and half of another (gc_execute_line(),
\* gcode.c:68).
GcInv ==
  /\ GcTypeOK /\ BlockInv
  /\ ParserFollowsPlanner /\ ActiveSystemIsStored /\ OutputsFollowModes
  /\ OffsetsReported /\ FeedMotionsHaveFeed

\* What one line does: an accepted line leaves the named axes where it said, in
\* the coordinates then in force, and a jog leaves every mode alone.
LineActsAsProgrammed == WorkPositionAsProgrammed /\ JogKeepsModes
=============================================================================
