---------------------------- MODULE UserInterface ----------------------------
(***************************************************************************)
(* The pages of the user interface and the one line they hand to the main  *)
(* loop (UISupport.cpp, UIMenus.cpp, protocol.c:164).                      *)
(*                                                                         *)
(* UITask() runs in the main loop, and from protocol_execute_realtime() in *)
(* every wait of it: a page's handler may run while the main loop is in    *)
(* the middle of a line, the user interface's own line included.  So every *)
(* handler is one step, and the main loop takes and finishes lines in      *)
(* steps of its own.  What the machine does meanwhile is not looked at: its *)
(* state changes at any time, within what the flags allow.                 *)
(*                                                                         *)
(* What is selected in a menu or typed into a form is the subject of       *)
(* Editors; here any entry may be selected.                                *)
(***************************************************************************)
EXTENDS Integers, Sequences, SequencesExt

CONSTANTS
  UILineBufferSize,
  UiAxes,           \* the axes that are jogged
  UiStates,         \* the states of the machine that are looked at
  UiMaxLines        \* bound on the lines that are handed over

ASSUME UiAssumption ==
  /\ UILineBufferSize \in 3..253 /\ UiMaxLines \in Nat
  /\ UiStates \subseteq {"IDLE", "CHECK_MODE", "JOG", "CYCLE", "HOMING", "HOLD",
                         "ALARM", "SAFETY_DOOR", "SLEEP"}

VARIABLES
  ui_page,       \* activeUIPage
  ui_menu,       \* activeMenu
  ui_line,       \* UILineBuffer, as a sequence of symbols
  ui_state,      \* UILineBufferState
  ui_running,    \* the line the main loop executes
  ui_entered,    \* the line that was made ready last
  ui_lines,      \* bound
  ui_jog,        \* the jog page
  ui_sys_state,  \* sys.state
  ui_cancel,     \* EXEC_MOTION_CANCEL in sys_rt_exec_state
  ui_homing,     \* homeAllAxis() is under way
  ui_file        \* SD_state is SD_state_Open

ui_machine == <<ui_sys_state, ui_homing, ui_file>>
uiVars == <<ui_page, ui_menu, ui_line, ui_state, ui_running, ui_entered, ui_lines,
            ui_jog, ui_cancel, ui_machine>>

READY == 254   \* UILineBufferState_ReadyForExecution
BUSY == 255    \* UILineBufferState_Busy
NONE == <<>>
Pages == {"status", "menu", "dialog", "error", "jog", "directory", "mdi", "form",
          "tools", "rpn"}
Directions == {"+", "-"}
Opposite(d) == IF d = "+" THEN "-" ELSE "+"

UILineBufferIsAvailable == ui_state < UILineBufferSize

\* JogUIPage::activate(): no axis is selected yet.  Off the page nothing reads
\* what is left of it.  The marks for the offset of a probed part are left out.
JogPage == [axis |-> "none", moved |-> {}, lockout |-> {}, power |-> FALSE, editing |-> FALSE, feed |-> TRUE]

-----------------------------------------------------------------------------
(* goToUIPage(): deactivate() of the page that is left, activate() of the  *)
(* next.                                                                   *)

GoTo(page) ==
  /\ ui_page' = page
  /\ IF "mdi" \in {ui_page, page} THEN ui_state' = 0 ELSE UNCHANGED ui_state
  /\ ui_line' = IF "mdi" \in {ui_page, page} THEN NONE ELSE ui_line
  /\ ui_cancel' = (ui_cancel \/ ("jog" \in {ui_page, page} /\ ui_sys_state = "JOG"))
  /\ ui_jog' = JogPage
  /\ ui_entered' = IF "mdi" \in {ui_page, page} THEN NONE ELSE ui_entered
  /\ UNCHANGED <<ui_running, ui_lines>>

ShowMenu(menu) == ui_menu' = menu /\ GoTo("menu")
GoesTo(page) == GoTo(page) /\ UNCHANGED <<ui_menu, ui_machine>>

\* Stay on the page, with the machine as it is.
Stays == UNCHANGED <<ui_page, ui_menu, ui_machine>>
NoLine == UNCHANGED <<ui_line, ui_state, ui_running, ui_entered, ui_lines>>

\* A page writes a whole line and makes it ready.
Submit(line) ==
  /\ ui_lines < UiMaxLines /\ ui_lines' = ui_lines + 1
  /\ ui_line' = line /\ ui_entered' = line
  /\ ui_state' = READY
  /\ UNCHANGED ui_running

CancelJog == ui_cancel' = (ui_cancel \/ ui_sys_state = "JOG")

-----------------------------------------------------------------------------
(* Keys that every page has: UITask().                                     *)

JogKey ==
  IF ui_sys_state \in {"IDLE", "CHECK_MODE", "JOG"}
  THEN UILineBufferIsAvailable /\ GoesTo("jog")
  ELSE GoesTo("error")
MenuKey == ShowMenu("main") /\ UNCHANGED ui_machine
MdiKey == UILineBufferIsAvailable /\ GoesTo("mdi")

\* Button 2, and the enter key where it does the same.
Leave ==
  \/ ui_page \in {"error", "jog", "menu", "form", "mdi", "tools", "rpn"}
       /\ GoesTo("status")
  \/ ui_page = "directory" /\ ShowMenu("main") /\ UNCHANGED ui_machine
  \/ ui_page = "status" /\ ShowMenu("main") /\ UNCHANGED ui_machine   \* button 1

-----------------------------------------------------------------------------
(* The jog page.                                                           *)

OnJogPage == ui_page = "jog"

\* A count or a power feed against the direction of the last one only stops it.
TurnBack(d) ==
  /\ d \notin ui_jog.lockout /\ Opposite(d) \in ui_jog.moved
  /\ CancelJog /\ NoLine /\ Stays

JogWithoutLockout(d) ==
  /\ OnJogPage /\ ~ui_jog.power
  /\ \/ TurnBack(d) /\ ui_jog' = [ui_jog EXCEPT !.moved = {}]
     \/ /\ Opposite(d) \notin ui_jog.moved
        /\ UILineBufferIsAvailable /\ Submit(<<"jog", ui_jog.axis, d>>)
        /\ ui_jog' = [ui_jog EXCEPT !.moved = @ \cup {d}]
        /\ Stays /\ UNCHANGED ui_cancel

\* JogUIPage::jog(): one count of the encoder.
Jog(d) ==
  /\ OnJogPage /\ ~ui_jog.power
  /\ \/ TurnBack(d) /\ ui_jog' = [ui_jog EXCEPT !.moved = {}]
     \/ /\ d \notin ui_jog.lockout /\ Opposite(d) \notin ui_jog.moved
        /\ UILineBufferIsAvailable /\ Submit(<<"jog", ui_jog.axis, d>>)
        /\ ui_jog' = [ui_jog EXCEPT !.moved = @ \cup {d}]
        /\ Stays /\ UNCHANGED ui_cancel

\* The power feed keys: to the end of the travel, or stop.
PowerFeed(d) ==
  /\ OnJogPage /\ ~ui_jog.editing
  /\ \/ ui_jog.power /\ CancelJog /\ NoLine /\ Stays
          /\ ui_jog' = [ui_jog EXCEPT !.power = FALSE]
     \/ ~ui_jog.power /\ ui_jog.feed /\ TurnBack(d)
          /\ ui_jog' = [ui_jog EXCEPT !.moved = {}]
     \/ /\ ~ui_jog.power /\ ui_jog.feed /\ UILineBufferIsAvailable
        /\ d \notin ui_jog.lockout /\ Opposite(d) \notin ui_jog.moved
        /\ IF ui_jog.axis = "none" /\ d = "+"
           THEN CancelJog /\ UNCHANGED <<ui_jog, ui_state, ui_entered, ui_lines, ui_running>>
                  /\ ui_line' = <<"feed", "none", d>>
           ELSE Submit(<<"feed", ui_jog.axis, d>>) /\ UNCHANGED ui_cancel
                  /\ ui_jog' = [ui_jog EXCEPT !.moved = @ \cup {d}, !.power = TRUE]
        /\ Stays

SelectAxis(a) ==
  /\ OnJogPage /\ ~ui_jog.editing
  /\ CancelJog /\ NoLine /\ Stays
  /\ ui_jog' = [ui_jog EXCEPT !.axis = a, !.power = FALSE, !.lockout = {}]

\* The feed key, then the new feed and the enter key.
EditFeed ==
  /\ OnJogPage /\ NoLine /\ Stays
  /\ \/ ~ui_jog.editing /\ CancelJog /\ ui_jog' = [ui_jog EXCEPT !.editing = TRUE]
     \/ ui_jog.editing /\ UNCHANGED ui_cancel
          /\ \E feed \in BOOLEAN :
               ui_jog' = [ui_jog EXCEPT !.editing = FALSE, !.feed = feed]

\* A probe key.  The line lacks its distance and feed: "source" is set to them
\* and not copied.
Probe(d) ==
  /\ OnJogPage /\ ui_sys_state = "IDLE" /\ UILineBufferIsAvailable
  /\ Submit(<<"probe", ui_jog.axis>>)
  /\ ui_jog' = [ui_jog EXCEPT !.lockout = @ \cup {d}]
  /\ Stays /\ UNCHANGED ui_cancel

\* The part zero keys: the active coordinate system, or the machine's.
PartZero ==
  /\ OnJogPage /\ ui_sys_state = "IDLE" /\ UILineBufferIsAvailable
  /\ ui_jog.axis # "none"
  /\ Submit(<<"zero", ui_jog.axis>>)
  /\ Stays /\ UNCHANGED <<ui_jog, ui_cancel>>

\* JogUIPage::update() has its turn between the keys.
JogUpdate ==
  /\ OnJogPage /\ ui_jog.power /\ ui_sys_state # "JOG"
  /\ ui_jog' = [ui_jog EXCEPT !.power = FALSE]
  /\ NoLine /\ Stays /\ UNCHANGED ui_cancel

-----------------------------------------------------------------------------
(* The MDI page.                                                           *)

OnMdiPage == ui_page = "mdi" /\ UNCHANGED <<ui_jog, ui_cancel, ui_running>>
LineBecomes(line) == ui_line' = line /\ ui_state' = Len(line) /\ UNCHANGED <<ui_entered, ui_lines>>

MdiKeyPressedUnbounded(key) ==
  /\ OnMdiPage /\ ui_state < READY
  /\ LineBecomes(Append(ui_line, key)) /\ Stays

\* L again makes a P of it, F again a K: one of the two stands for both.
MdiKeyPressed(key) ==
  /\ OnMdiPage /\ ui_state < UILineBufferSize - 1
  /\ IF key = "L" /\ ui_state > 0 /\ ui_line[ui_state] = "L"
     THEN LineBecomes([ui_line EXCEPT ![ui_state] = "P"])
     ELSE LineBecomes(Append(ui_line, key))
  /\ Stays

MdiEnter ==
  /\ OnMdiPage /\ ui_state > 0 /\ ui_state < UILineBufferSize - 1
  /\ ui_lines < UiMaxLines /\ ui_lines' = ui_lines + 1
  /\ ui_state' = READY /\ ui_entered' = ui_line
  /\ Stays /\ UNCHANGED ui_line

MdiEmptyEnter == ui_page = "mdi" /\ ui_state = 0 /\ GoesTo("status")

\* The calculator's top value is added, as far as there is room.  Writing up to
\* the very end of the buffer leaves a length that is neither text nor a state.
MdiValue ==
  /\ OnMdiPage /\ ui_state <= UILineBufferSize - 3
  /\ \E n \in 1..UILineBufferSize - ui_state :
       LineBecomes(ui_line \o [i \in 1..n |-> "0"])
  /\ Stays

MdiDelete ==
  /\ OnMdiPage /\ ui_state > 0 /\ ui_state < UILineBufferSize
  /\ LineBecomes(Front(ui_line)) /\ Stays

-----------------------------------------------------------------------------
(* Menus, dialogs, forms and the SD card's page.                           *)

NotBusyStates == {"IDLE", "CHECK_MODE", "JOG"}
\* The reset stops the file that runs.
mc_reset == ui_file' = FALSE /\ UNCHANGED <<ui_sys_state, ui_homing>>

GoToFiles ==
  IF ui_file THEN GoesTo("dialog")
  ELSE IF ui_sys_state \notin NotBusyStates THEN GoesTo("error")
  ELSE GoesTo("directory") \/ GoesTo("error")

\* The state is that of a machine at rest while its axes are homed; the rest of
\* the handler runs when they are.
HomeAllAxis ==
  IF ui_sys_state = "IDLE" /\ UILineBufferIsAvailable
  THEN \/ GoesTo("error")        \* homing is not enabled, or the door is open
       \/ /\ GoTo("status") /\ UNCHANGED ui_menu
          /\ ui_sys_state' = "HOMING" /\ ui_homing' = TRUE /\ UNCHANGED ui_file
  ELSE GoesTo("error")

ClearAlarm ==
  \/ ui_sys_state # "ALARM" /\ GoesTo("status")
  \/ ui_sys_state = "ALARM" /\ GoesTo("error")
  \/ /\ ui_sys_state = "ALARM" /\ GoTo("status") /\ UNCHANGED ui_menu
     /\ ui_sys_state' = "IDLE" /\ UNCHANGED <<ui_homing, ui_file>>

IdleOnly(page) == GoesTo(IF ui_sys_state = "IDLE" THEN page ELSE "error")

MenuEntry ==
  /\ ui_page = "menu"
  /\ \/ ui_menu = "main" /\ (GoToFiles \/ GoesTo("rpn")
                              \/ (ShowMenu("system") /\ UNCHANGED ui_machine))
     \/ ui_menu = "system" /\ (HomeAllAxis \/ ClearAlarm
                              \/ (mc_reset /\ GoTo("status") /\ UNCHANGED ui_menu)
                              \/ IdleOnly("tools") \/ IdleOnly("form"))

\* "Cancel File?", whose file may have ended by now.
Dialog ==
  /\ ui_page = "dialog" /\ ShowMenu("main")
  /\ mc_reset \/ UNCHANGED ui_machine

SaveForm == ui_page = "form" /\ GoesTo(IF ui_sys_state = "IDLE" THEN "status" ELSE "error")

RunSelectedFile ==
  /\ ui_page = "directory"
  /\ \/ GoTo("status") /\ ui_file' = TRUE
     \/ GoTo("error") /\ ui_file' = FALSE
  /\ UNCHANGED <<ui_menu, ui_sys_state, ui_homing>>

Handler ==
  \/ JogKey \/ MenuKey \/ MdiKey \/ Leave
  \/ \E d \in Directions : Jog(d) \/ PowerFeed(d) \/ Probe(d)
  \/ \E a \in UiAxes : SelectAxis(a)
  \/ EditFeed \/ PartZero \/ JogUpdate
  \/ \E key \in {"0", "L"} : MdiKeyPressed(key)
  \/ MdiEnter \/ MdiEmptyEnter \/ MdiValue \/ MdiDelete
  \/ MenuEntry \/ Dialog \/ SaveForm \/ RunSelectedFile

-----------------------------------------------------------------------------
(* The main loop and the machine.                                          *)

TakeLineOfAnyLength ==
  /\ ui_state \notin {0, BUSY} /\ ui_running = NONE /\ ~ui_homing
  /\ ui_state' = BUSY /\ ui_running' = ui_line
  /\ UNCHANGED <<ui_line, ui_entered, ui_lines, ui_jog, ui_cancel>> /\ Stays

TakeLine ==
  /\ ui_state = READY /\ ui_running = NONE /\ ~ui_homing
  /\ ui_state' = BUSY /\ ui_running' = ui_line
  /\ UNCHANGED <<ui_line, ui_entered, ui_lines, ui_jog, ui_cancel>> /\ Stays

\* The buffer is left to the page, as only the MDI page does.
LineExecutedKept ==
  /\ ui_running # NONE /\ ~ui_homing
  /\ ui_running' = NONE
  /\ IF ui_page = "mdi" THEN ui_line' = NONE /\ ui_state' = 0 /\ ui_entered' = NONE
     ELSE UNCHANGED <<ui_line, ui_state, ui_entered>>
  /\ UNCHANGED <<ui_lines, ui_jog, ui_cancel>> /\ Stays

\* The line has been executed: the buffer is free, and the page is told.
LineExecuted ==
  /\ ui_running # NONE /\ ~ui_homing
  /\ ui_running' = NONE /\ ui_state' = 0
  /\ ui_line' = NONE /\ ui_entered' = NONE
  /\ UNCHANGED <<ui_lines, ui_jog, ui_cancel>> /\ Stays

\* A motion, a hold, the door, an alarm, or the end of one.  A restart of the
\* main loop is no more than that for the interface, which keeps its page and
\* its line.
MachineMoves ==
  /\ ~ui_homing
  /\ \E s \in UiStates \ {"HOMING"} : s # ui_sys_state /\ ui_sys_state' = s
  /\ ui_cancel' = FALSE
  /\ NoLine /\ UNCHANGED <<ui_page, ui_menu, ui_jog, ui_homing, ui_file>>

\* homeAllAxis() comes back, without or with an abort.
Homed ==
  /\ ui_homing /\ ui_homing' = FALSE
  /\ ui_sys_state' \in {"IDLE", "ALARM"} \cap UiStates
  /\ NoLine /\ UNCHANGED <<ui_page, ui_menu, ui_jog, ui_cancel, ui_file>>

\* The file ends, one of its lines is wrong, or a reset closes it.
FileEnds ==
  /\ ui_file /\ ui_file' = FALSE
  /\ NoLine /\ UNCHANGED <<ui_page, ui_menu, ui_jog, ui_cancel, ui_sys_state, ui_homing>>

UiInit ==
  /\ ui_page = "status" /\ ui_menu = "main"
  /\ ui_line = NONE /\ ui_state = 0 /\ ui_running = NONE /\ ui_entered = NONE
  /\ ui_lines = 0 /\ ui_jog = JogPage
  /\ ui_sys_state = "IDLE" /\ ui_cancel = FALSE
  /\ ui_homing = FALSE /\ ui_file = FALSE

UiNext ==
  \/ Handler \/ TakeLine \/ LineExecuted \/ MachineMoves \/ Homed \/ FileEnds

\* The main loop comes round, and homing ends: each of its waits ends, by what
\* it waits for or by a reset.
UiFairness == WF_uiVars(TakeLine) /\ WF_uiVars(LineExecuted) /\ WF_uiVars(Homed)
UiSpec == UiInit /\ [][UiNext]_uiVars /\ UiFairness

-----------------------------------------------------------------------------
(* The properties.                                                         *)

UiTypeOK ==
  /\ ui_page \in Pages /\ ui_menu \in {"main", "system"}
  /\ ui_state \in 0..UILineBufferSize \cup {READY, BUSY}
  /\ ui_lines \in 0..UiMaxLines
  /\ ui_jog \in [axis : UiAxes \cup {"none"}, moved : SUBSET Directions, lockout : SUBSET Directions,
                power : BOOLEAN, editing : BOOLEAN, feed : BOOLEAN]

\* Why: the state of a text on the MDI page is its length, which never reaches
\* the marks READY and BUSY, and nothing writes into a line that is ready.
UiInv ==
  /\ UiTypeOK
  /\ ui_page = "mdi" /\ ui_state \notin {READY, BUSY} =>
       ui_line \in Seq({"0", "L", "P"}) /\ Len(ui_line) = ui_state
  /\ ui_state = READY => ui_line = ui_entered

\* What the main loop takes is what was made ready last, whatever keys were
\* pressed on whatever pages in between: a line may be dropped by leaving the
\* MDI page, but never mixed with another.
TakenAsEntered == [][
  (ui_running = NONE /\ ui_running' # NONE) => ui_running' = ui_entered ]_uiVars

\* After a probe the page moves no further in the direction of the part, by
\* counts or power feed, until the operator selects an axis or comes back to
\* the page.
ProbedDirectionLocked == [][
  (ui_page = "jog" /\ ui_lines' # ui_lines /\ ui_line'[1] \in {"jog", "feed"})
    => ui_line'[3] \notin ui_jog.lockout ]_uiVars

\* A line that was made ready does not stay in the buffer.
LinesLeaveTheBuffer == (ui_state \in {READY, BUSY}) ~> UILineBufferIsAvailable

\* UISupport.h:23: "UILineBufferState_Busy indicates that the buffer is currently
\* being executed and is not available for the UI to use."  Leaving the MDI page
\* marks it free all the same, and the line that is then made ready is dropped
\* when the one before is done.
BusyWhileExecuted == ui_running # NONE => ui_state = BUSY

\* The buffer of the panel's line keeps its bounds, hands over what was entered,
\* and never a jog towards what a probe has touched.
UiSafe == []UiInv /\ TakenAsEntered /\ ProbedDirectionLocked
=============================================================================
