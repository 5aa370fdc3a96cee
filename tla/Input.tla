--------------------------------- MODULE Input ---------------------------------
(***************************************************************************)
(* The inputs of the user interface: UITask() (UISupport.cpp), which is    *)
(* called from every wait of the main program and does one of its phases   *)
(* per call, the keypad (Keypad_grbl.cpp) and the control inputs           *)
(* (system.c).  A handler that waits itself, as homing does, calls UITask  *)
(* again, in the same phase; such a handler only starts in IDLE, so that   *)
(* no second one waits inside of the first.                                *)
(*                                                                         *)
(* A call within the same clock tick returns at once and is left out.  The *)
(* inputs are independent of each other: a behaviour uses one kind.        *)
(***************************************************************************)
EXTENDS Integers, Sequences, FiniteSets

CONSTANTS
  KeyCodes,        \* the keys, as r * 4 + c
  ShiftKey,
  WaitKeys,        \* keys whose handler may wait
  LIST_MAX,
  UITASK_PHASE_COUNT,
  ControlPins

ASSUME InAssumption ==
  /\ KeyCodes \subseteq Nat /\ ShiftKey \in KeyCodes /\ WaitKeys \subseteq KeyCodes \ {ShiftKey}
  /\ LIST_MAX \in Nat \ {0} /\ UITASK_PHASE_COUNT \in 5..14

VARIABLES
  in_use,          \* what the operator uses
  in_phase,        \* uiTaskPhase
  in_wait,         \* the handler that waits, NoHandler if none
  in_down,         \* keys that are down
  in_keys,         \* key[], the list of active keys
  in_shift,        \* shiftState
  in_turned,       \* quarter steps of encoder A, modulo 4
  in_encoder,      \* UIEncoderStateA, as such a number
  in_drift,        \* steps reported minus steps turned, at the last poll, bounded
  in_pressed,      \* buttons that are pressed
  in_previous,     \* previousUIEncoderButton1State, previousUIEncoderButton2State
  in_pins,         \* control inputs that are active
  in_previousPin,  \* previousPin
  in_exec,         \* sys_rt_exec_state, or the reset
  in_told,         \* keys reported since they were last seen up
  in_seen          \* what the properties are about

in_keypad == <<in_down, in_keys, in_shift, in_told>>
in_turns == <<in_turned, in_encoder, in_drift>>
in_buttons == <<in_pressed, in_previous>>
in_control == <<in_pins, in_previousPin, in_exec>>
inVars == <<in_use, in_phase, in_wait, in_keypad, in_turns, in_buttons, in_control, in_seen>>

NoHandler == "none"
Switched(set, e) == IF e \in set THEN set \ {e} ELSE set \cup {e}
Buttons == {"button1", "button2"}
NoKey == [code |-> -1, state |-> "IDLE", changed |-> FALSE]
NextPhase == in_phase' = (in_phase + 1) % UITASK_PHASE_COUNT

-----------------------------------------------------------------------------
(* The encoder: a Gray code, its bits at the last and at this poll.        *)

Gray(turned) == <<0, 1, 3, 2>>[turned + 1]
Left == {1, 7, 14, 8}
Right == {2, 11, 13, 4}
\* One of the eight changes is decoded the wrong way round.
StepsMistaken(old, new) ==
  LET change == 4 * Gray(old) + Gray(new)
  IN IF change \in (Left \ {7}) \cup {13} THEN 1 ELSE IF change \in Right \cup {7} THEN -1 ELSE 0
Steps(old, new) ==
  LET change == 4 * Gray(old) + Gray(new)
  IN IF change \in Left THEN 1 ELSE IF change \in Right THEN -1 ELSE 0
\* The steps that the encoder was turned, when it was at most two.
Turned(old, new) == CASE (new - old) % 4 = 1 -> 1 [] (new - old) % 4 = 3 -> -1 [] new = old -> 0 [] OTHER -> 2

PollUIEncoder ==
  /\ in_encoder' = in_turned
  /\ in_drift' = (in_drift + Steps(in_encoder, in_turned) - Turned(in_encoder, in_turned)) % 8
  /\ UNCHANGED in_turned

-----------------------------------------------------------------------------
(* The keypad.                                                             *)

\* The flag of the last change is not cleared.
NextKeyStateStale(key, button) ==
  CASE key.state = "IDLE" -> {IF button THEN [key EXCEPT !.state = "PRESSED", !.changed = TRUE] ELSE key}
    [] key.state = "PRESSED" ->
         {[key EXCEPT !.state = "HOLD", !.changed = TRUE]}
           \cup {IF button THEN key ELSE [key EXCEPT !.state = "RELEASED", !.changed = TRUE]}
    [] key.state = "HOLD" -> {IF button THEN key ELSE [key EXCEPT !.state = "RELEASED", !.changed = TRUE]}
    [] key.state = "RELEASED" -> {[key EXCEPT !.state = "IDLE", !.changed = TRUE]}
\* A key that was held is not released.
NextKeyStateHeldStays(key, button) ==
  LET to(state) == [key EXCEPT !.state = state, !.changed = TRUE]
      stay == [key EXCEPT !.changed = FALSE]
  IN CASE key.state = "IDLE" -> {IF button THEN to("PRESSED") ELSE stay}
       [] key.state = "PRESSED" -> {to("HOLD")} \cup {IF button THEN stay ELSE to("RELEASED")}
       [] key.state = "HOLD" -> {stay}
       [] key.state = "RELEASED" -> {to("IDLE")}

\* A key becomes HOLD some time after the last one was pressed, up or down.
NextKeyState(key, button) ==
  LET to(state) == [key EXCEPT !.state = state, !.changed = TRUE]
      stay == [key EXCEPT !.changed = FALSE]
  IN CASE key.state = "IDLE" -> {IF button THEN to("PRESSED") ELSE stay}
       [] key.state = "PRESSED" -> {to("HOLD")} \cup {IF button THEN stay ELSE to("RELEASED")}
       [] key.state = "HOLD" -> {IF button THEN stay ELSE to("RELEASED")}
       [] key.state = "RELEASED" -> {to("IDLE")}

\* updateList(): keys that are idle leave the list, keys that are not on it
\* take the free places, both in order.
Listed == {i \in 1..LIST_MAX : in_keys[i].state # "IDLE"}
Free == 1..LIST_MAX \ Listed
New == in_down \ {in_keys[i].code : i \in Listed}
Rank(set, e) == Cardinality({x \in set : x < e})
Taking(i) == {key \in New : Rank(New, key) = Rank(Free, i)}
Scanned(i) ==
  IF i \in Listed THEN NextKeyState(in_keys[i], in_keys[i].code \in in_down)
  ELSE IF Taking(i) = {} THEN {NoKey}
  ELSE UNION {NextKeyState([NoKey EXCEPT !.code = key], TRUE) : key \in Taking(i)}
UpdatedLists == {keys \in [1..LIST_MAX -> UNION {Scanned(i) : i \in 1..LIST_MAX}] :
                   \A i \in 1..LIST_MAX : keys[i] \in Scanned(i)}

\* getKey(): only the first key of the list is reported.
GotKey(keys) == IF keys[1].changed /\ keys[1].state = "PRESSED" THEN keys[1].code ELSE NoKey.code

KeySeen(key) ==
  /\ in_told' = (in_told \cup {key}) \cap in_down
  /\ in_seen' =
       [in_seen EXCEPT
          !.twice = @ \/ key \in in_told,
          !.quiet = IF in_down # {} THEN 0 ELSE IF @ < 3 THEN @ + 1 ELSE @,
          !.missed = @ \/ (in_down # {} /\ in_seen.quiet = 3 /\ key = NoKey.code),
          !.shifted = IF key = ShiftKey THEN 0
                      ELSE IF key # NoKey.code /\ in_shift THEN @ + 1 ELSE @]

\* The shift is not taken back by the key that it was for.
PollKeypadShiftStays ==
  /\ in_phase = 2
  /\ in_keys' \in UpdatedLists
  /\ LET key == GotKey(in_keys') IN
       /\ KeySeen(key)
       /\ in_shift' = IF key = ShiftKey THEN ~in_shift ELSE in_shift
       /\ IF key = ShiftKey THEN UNCHANGED in_phase ELSE NextPhase
       /\ UNCHANGED in_wait
  /\ UNCHANGED <<in_use, in_down, in_buttons, in_control>>

\* The shift key returns before the phase is over.
PollKeypad ==
  /\ in_phase = 2
  /\ in_keys' \in UpdatedLists
  /\ LET key == GotKey(in_keys') IN
       /\ KeySeen(key)
       /\ CASE key = NoKey.code -> NextPhase /\ UNCHANGED <<in_shift, in_wait>>
            [] key = ShiftKey -> in_shift' = ~in_shift /\ UNCHANGED <<in_phase, in_wait>>
            [] OTHER ->
                 \/ in_shift' = FALSE /\ NextPhase /\ UNCHANGED in_wait
                 \/ /\ key \in WaitKeys /\ ~in_shift /\ in_wait = NoHandler
                    /\ in_wait' = "key" /\ UNCHANGED <<in_shift, in_phase>>
  /\ UNCHANGED <<in_use, in_down, in_buttons, in_control>>

-----------------------------------------------------------------------------
(* The buttons and the control inputs.                                     *)

ButtonOf(phase) == IF phase = 3 THEN "button1" ELSE "button2"
Handled(button) ==
  in_seen' = [in_seen EXCEPT !.handled[button] = IF @ < 2 THEN @ + 1 ELSE @]

PollButtonLevel ==
  /\ in_phase \in {3, 4}
  /\ LET button == ButtonOf(in_phase) IN
       /\ in_previous' = IF button \in in_pressed THEN in_previous \cup {button} ELSE in_previous \ {button}
       /\ IF button \in in_pressed THEN Handled(button) ELSE UNCHANGED in_seen
  /\ NextPhase /\ UNCHANGED <<in_use, in_wait, in_keypad, in_pressed, in_control>>

\* The handler is called before the state of the button is kept.
PollButton ==
  /\ in_phase \in {3, 4}
  /\ LET button == ButtonOf(in_phase) IN
     IF button \in in_pressed \ in_previous
     THEN \/ /\ Handled(button) /\ in_previous' = in_previous \cup {button}
             /\ NextPhase /\ UNCHANGED in_wait
          \/ /\ button = "button1" /\ in_wait = NoHandler /\ in_wait' = button
             /\ in_seen' = [in_seen EXCEPT !.handled[button] = IF @ < 2 THEN @ + 1 ELSE @,
                                           !.waited = TRUE]
             /\ UNCHANGED <<in_phase, in_previous>>
     ELSE /\ in_previous' = IF button \in in_pressed THEN in_previous ELSE in_previous \ {button}
          /\ NextPhase /\ UNCHANGED <<in_wait, in_seen>>
  /\ UNCHANGED <<in_use, in_keypad, in_pressed, in_control>>

\* Only while no other input is active.
system_poll_control_pins_first ==
  /\ in_phase = 1
  /\ in_exec' = IF in_previousPin = {} THEN in_exec \cup in_pins ELSE in_exec
  /\ in_previousPin' = in_pins
  /\ NextPhase /\ UNCHANGED <<in_use, in_wait, in_keypad, in_buttons, in_pins, in_seen>>

\* All active inputs are flagged whenever one of them changes.
system_poll_control_pins ==
  /\ in_phase = 1
  /\ in_exec' = IF in_previousPin # in_pins THEN in_exec \cup in_pins ELSE in_exec
  /\ in_previousPin' = in_pins
  /\ NextPhase /\ UNCHANGED <<in_use, in_wait, in_keypad, in_buttons, in_pins, in_seen>>

-----------------------------------------------------------------------------

\* Pages are updated in phase 0; from phase 5 on the potentiometers are read.
OtherPhase ==
  /\ in_phase \notin 1..4
  /\ NextPhase /\ UNCHANGED <<in_use, in_wait, in_keypad, in_buttons, in_control, in_seen>>

UITask ==
  /\ PollUIEncoder
  /\ PollKeypad \/ PollButton \/ system_poll_control_pins \/ OtherPhase

\* The handler that waited returns to the call that it was made from.
HandlerReturns ==
  /\ in_wait # NoHandler /\ in_wait' = NoHandler /\ NextPhase
  /\ in_shift' = IF in_wait = "key" THEN FALSE ELSE in_shift
  /\ in_previous' = IF in_wait \in Buttons THEN in_previous \cup {in_wait} ELSE in_previous
  /\ UNCHANGED <<in_use, in_down, in_keys, in_told, in_turns, in_pressed, in_control, in_seen>>

-----------------------------------------------------------------------------
(* The operator, and the main program that serves the flags.               *)

Key ==
  /\ in_use = "keys"
  /\ \E key \in KeyCodes : in_down' = Switched(in_down, key)
  /\ UNCHANGED <<in_use, in_phase, in_wait, in_keys, in_shift, in_told, in_turns, in_buttons, in_control, in_seen>>
Button ==
  /\ in_use = "buttons"
  /\ \E button \in Buttons :
       /\ in_pressed' = Switched(in_pressed, button)
       /\ in_seen' = IF button \in in_pressed
                     THEN [in_seen EXCEPT !.handled[button] = 0,
                                          !.waited = @ /\ button # "button1"]
                     ELSE in_seen
  /\ UNCHANGED <<in_use, in_phase, in_wait, in_keypad, in_turns, in_previous, in_control>>
\* At most two steps between two polls.
Turn ==
  /\ in_use = "encoder" /\ Turned(in_encoder, in_turned) # 2
  /\ \E by \in {1, 3} : in_turned' = (in_turned + by) % 4
  /\ UNCHANGED <<in_use, in_phase, in_wait, in_keypad, in_encoder, in_drift, in_buttons, in_control, in_seen>>
Switch ==
  /\ in_use = "pins"
  /\ \E pin \in ControlPins : in_pins' = Switched(in_pins, pin)
  /\ UNCHANGED <<in_use, in_phase, in_wait, in_keypad, in_turns, in_buttons, in_previousPin, in_exec, in_seen>>
Serve ==
  /\ in_exec # {} /\ in_exec' = {}
  /\ UNCHANGED <<in_use, in_phase, in_wait, in_keypad, in_turns, in_buttons, in_pins, in_previousPin, in_seen>>

InInit ==
  /\ in_use \in {"keys", "buttons", "encoder", "pins"}
  /\ in_phase = 0 /\ in_wait = NoHandler
  /\ in_down = {} /\ in_keys = [i \in 1..LIST_MAX |-> NoKey] /\ in_shift = FALSE
  /\ in_turned \in (IF in_use = "encoder" THEN 0..3 ELSE {0}) /\ in_encoder = in_turned /\ in_drift = 0
  /\ in_pressed = {} /\ in_previous = {}
  /\ in_pins = {} /\ in_previousPin = {} /\ in_exec = {}
  /\ in_told = {}
  /\ in_seen = [twice |-> FALSE, missed |-> FALSE, quiet |-> 3, shifted |-> 0,
                handled |-> [b \in Buttons |-> 0], waited |-> FALSE]

InNext == UITask \/ HandlerReturns \/ Key \/ Button \/ Turn \/ Switch \/ Serve
\* The main program comes to its polls and a handler to its end.
InFairness == WF_inVars(UITask) /\ WF_inVars(HandlerReturns)
InSpec == InInit /\ [][InNext]_inVars /\ InFairness

-----------------------------------------------------------------------------
(* The properties.                                                         *)

\* The steps of the encoder that the pages have got are the ones it was turned;
\* when two come between two polls, both are lost and none is made up.
EncoderCounts == [][in_drift' - in_drift \in {0, -2, 6}]_inVars

\* A key that is held is reported once, in whatever order keys are pressed and
\* released and whichever handler waits.
KeyReportedOnce == ~in_seen.twice

\* When three scans have found no key, the next key is reported by the first
\* scan that finds it: no key is left on the list.
LoneKeyReported == ~in_seen.missed

\* A shift is for one key.
ShiftedOnce == in_seen.shifted <= 1

\* A button that is pressed is handled once, except that a poll within its own
\* handler takes it for pressed anew.
PressHandledOnce ==
  \A button \in Buttons :
    in_seen.handled[button] <= 1 \/ (button = "button1" /\ in_seen.waited)

InTypeOK ==
  /\ in_phase \in Nat /\ in_wait \in {NoHandler, "key"} \cup Buttons
  /\ in_down \subseteq KeyCodes /\ in_told \subseteq KeyCodes /\ in_shift \in BOOLEAN
  /\ in_keys \in [1..LIST_MAX -> [code : KeyCodes \cup {NoKey.code}, changed : BOOLEAN,
                                  state : {"IDLE", "PRESSED", "HOLD", "RELEASED"}]]
  /\ in_turned \in 0..3 /\ in_encoder \in 0..3 /\ in_drift \in 0..7
  /\ in_pressed \subseteq Buttons /\ in_previous \subseteq Buttons
  /\ in_pins \subseteq ControlPins /\ in_previousPin \subseteq ControlPins /\ in_exec \subseteq ControlPins
  /\ in_seen \in [twice : BOOLEAN, missed : BOOLEAN, quiet : 0..3, shifted : Nat,
                  handled : [Buttons -> 0..2], waited : BOOLEAN]

\* Why: a key that was reported is the first of the list as long as it is held;
\* each scan that finds no key moves the listed ones on; a shift that is still
\* on was for no key yet; and a button that was handled is kept as pressed.
ToldIsFirst ==
  \A key \in in_told : in_keys[1].code = key /\ in_keys[1].state \in {"PRESSED", "HOLD"}
ListEmpties ==
  \A i \in 1..LIST_MAX :
    /\ in_seen.quiet >= 1 => in_keys[i].state # "PRESSED"
    /\ in_seen.quiet >= 2 => in_keys[i].state # "HOLD"
    /\ in_seen.quiet = 3 => in_keys[i].state = "IDLE"
ShiftIsUnused == in_shift => in_seen.shifted = 0
HandledIsKept ==
  \A button \in Buttons :
    in_seen.handled[button] > 0 =>
      /\ button \in in_pressed
      /\ button \in in_previous \/ (button = "button1" /\ in_seen.waited)

InInv == InTypeOK /\ ToldIsFirst /\ ListEmpties /\ ShiftIsUnused /\ HandledIsKept

\* A control input that stays active is flagged, on top of others that are.
ControlFlagged ==
  \A pin \in ControlPins :
    (pin \in in_pins /\ pin \notin in_previousPin) ~> (pin \notin in_pins \/ pin \in in_exec)

\* Every key, button, shift and turn is taken once, however the polls of UITask()
\* and of the handlers that wait fall between the changes of the pins.
InSafe ==
  /\ [](KeyReportedOnce /\ LoneKeyReported /\ ShiftedOnce /\ PressHandledOnce /\ InInv)
  /\ EncoderCounts
=============================================================================
