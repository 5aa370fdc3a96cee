------------------------------ MODULE PanelProofs ------------------------------
(***************************************************************************)
(* Theorems about the control panel: UserInterface, for every length of    *)
(* its line and any axes; Editors, for all menus and forms and any number  *)
(* of tools and files; Input, for every keypad and length of its list;     *)
(* Display, for its table of fields and any number of changes and inputs.  *)
(***************************************************************************)
EXTENDS UserInterface, Editors, Input, Display, SequenceTheorems, FiniteSetTheorems,
        WellFoundedInduction, TLAPS

-----------------------------------------------------------------------------
(* UserInterface.                                                          *)

JogTypes == [axis : UiAxes \cup {"none"}, moved : SUBSET Directions, lockout : SUBSET Directions,
             power : BOOLEAN, editing : BOOLEAN, feed : BOOLEAN]
MdiTexts == Seq({"0", "L", "P"})

LEMMA BufferBound == UILineBufferSize \in Nat /\ UILineBufferSize >= 3 /\ UILineBufferSize < READY /\ UILineBufferSize < BUSY
  BY UiAssumption DEF READY, BUSY

LEMMA StateIsNumber == UiInv => ui_state \in Nat
  BY BufferBound DEF UiInv, UiTypeOK, READY, BUSY

\* The kinds of changes that the handlers and the main loop make.
LEMMA GoToKeeps ==
  ASSUME UiInv, NEW page \in Pages, GoTo(page), ui_menu' \in {"main", "system"}
  PROVE  UiInv'
  <1>1. JogPage \in JogTypes
    BY DEF JogPage, JogTypes
  <1>2. ui_state' \in 0..UILineBufferSize \cup {READY, BUSY}
    BY UiAssumption DEF GoTo, UiInv, UiTypeOK
  <1>3. ui_page' = "mdi" => ui_state' = 0 /\ ui_line' = NONE
    BY DEF GoTo
  <1>4. ui_state' = READY => ui_line' = ui_entered'
    BY DEF GoTo, UiInv, READY
  <1>5. NONE \in MdiTexts /\ Len(NONE) = 0
    BY DEF NONE, MdiTexts
  <1>6. UiTypeOK'
    BY <1>1, <1>2 DEF GoTo, UiInv, UiTypeOK, JogTypes
  <1> QED
    BY <1>3, <1>4, <1>5, <1>6 DEF UiInv, MdiTexts

LEMMA GoesToKeeps == ASSUME UiInv, NEW page \in Pages, GoesTo(page) PROVE UiInv'
  BY GoToKeeps DEF GoesTo, UiInv, UiTypeOK

LEMMA ShowMenuKeeps == ASSUME UiInv, NEW menu \in {"main", "system"}, ShowMenu(menu) PROVE UiInv'
  BY GoToKeeps DEF ShowMenu, Pages

LEMMA SubmitKeeps ==
  ASSUME UiInv, NEW line, Submit(line), Stays, ui_page # "mdi", ui_jog' \in JogTypes
  PROVE  UiInv'
  <1>1. ui_lines' \in 0..UiMaxLines
    BY UiAssumption DEF Submit, UiInv, UiTypeOK
  <1> QED
    BY <1>1 DEF Submit, Stays, UiInv, UiTypeOK, JogTypes

LEMMA NoLineKeeps ==
  ASSUME UiInv, NoLine, UNCHANGED <<ui_page, ui_menu>>, ui_jog' \in JogTypes
  PROVE  UiInv'
  BY DEF NoLine, UiInv, UiTypeOK, JogTypes

LEMMA LineBecomesKeeps ==
  ASSUME UiInv, NEW line \in MdiTexts, Len(line) <= UILineBufferSize, LineBecomes(line), Stays, ui_jog' = ui_jog
  PROVE  UiInv'
  <1>1. Len(line) \in Nat
    BY DEF MdiTexts
  <1>2. ui_state' = Len(line)
    BY DEF LineBecomes
  <1>3. \A n \in Nat : n <= UILineBufferSize => n \in 0..UILineBufferSize /\ n # READY
    BY BufferBound DEF READY
  <1>4. ui_state' \in 0..UILineBufferSize /\ ui_state' # READY
    BY <1>1, <1>2, <1>3
  <1> QED
    BY <1>4 DEF LineBecomes, Stays, UiInv, UiTypeOK, MdiTexts

-----------------------------------------------------------------------------

LEMMA JogPageKeeps ==
  ASSUME UiInv,
         \/ \E d \in Directions : Jog(d) \/ PowerFeed(d) \/ Probe(d)
         \/ \E a \in UiAxes : SelectAxis(a)
         \/ EditFeed \/ PartZero \/ JogUpdate
  PROVE  UiInv'
  <1>1. ui_jog \in JogTypes
    BY DEF UiInv, UiTypeOK, JogTypes
  <1>2. ASSUME NEW d \in Directions
        PROVE  /\ [ui_jog EXCEPT !.moved = {}] \in JogTypes
               /\ [ui_jog EXCEPT !.moved = @ \cup {d}] \in JogTypes
               /\ [ui_jog EXCEPT !.moved = @ \cup {d}, !.power = TRUE] \in JogTypes
               /\ [ui_jog EXCEPT !.lockout = @ \cup {d}] \in JogTypes
               /\ [ui_jog EXCEPT !.power = FALSE] \in JogTypes
    BY <1>1 DEF JogTypes
  <1>3. ASSUME NEW d \in Directions, Jog(d) PROVE UiInv'
    <2>1. CASE TurnBack(d) /\ ui_jog' = [ui_jog EXCEPT !.moved = {}]
      BY <1>2, <2>1, NoLineKeeps DEF TurnBack, Stays
    <2>2. CASE /\ Submit(<<"jog", ui_jog.axis, d>>)
               /\ ui_jog' = [ui_jog EXCEPT !.moved = @ \cup {d}]
               /\ Stays
      BY <1>2, <1>3, <2>2, SubmitKeeps DEF Jog, OnJogPage
    <2> QED
      BY <1>3, <2>1, <2>2 DEF Jog
  <1>4. ASSUME NEW d \in Directions, PowerFeed(d) PROVE UiInv'
    <2>1. CASE NoLine /\ Stays /\ ui_jog' = [ui_jog EXCEPT !.power = FALSE]
      BY <1>2, <2>1, NoLineKeeps DEF Stays
    <2>2. CASE TurnBack(d) /\ ui_jog' = [ui_jog EXCEPT !.moved = {}]
      BY <1>2, <2>2, NoLineKeeps DEF TurnBack, Stays
    <2>3. CASE /\ Submit(<<"feed", ui_jog.axis, d>>)
               /\ ui_jog' = [ui_jog EXCEPT !.moved = @ \cup {d}, !.power = TRUE] /\ Stays
      BY <1>2, <1>4, <2>3, SubmitKeeps DEF PowerFeed, OnJogPage
    <2>4. CASE /\ UILineBufferIsAvailable /\ Stays
               /\ UNCHANGED <<ui_jog, ui_state, ui_entered, ui_lines, ui_running>>
      <3>1. ui_page = "jog"
        BY <1>4 DEF PowerFeed, OnJogPage
      <3>2. ui_state < UILineBufferSize
        BY <2>4 DEF UILineBufferIsAvailable
      <3>3. ui_state # READY
        BY <3>2, BufferBound, StateIsNumber DEF READY
      <3> QED
        BY <2>4, <3>1, <3>3 DEF Stays, UiInv, UiTypeOK
    <2> QED
      BY <1>4, <2>1, <2>2, <2>3, <2>4 DEF PowerFeed
  <1>5. ASSUME NEW d \in Directions, Probe(d) PROVE UiInv'
    BY <1>2, <1>5, SubmitKeeps DEF Probe, OnJogPage
  <1>6. ASSUME NEW a \in UiAxes, SelectAxis(a) PROVE UiInv'
    <2>1. [ui_jog EXCEPT !.axis = a, !.power = FALSE, !.lockout = {}] \in JogTypes
      BY <1>1 DEF JogTypes
    <2> QED
      BY <1>6, <2>1, NoLineKeeps DEF SelectAxis, Stays
  <1>7. CASE EditFeed
    <2>1. /\ [ui_jog EXCEPT !.editing = TRUE] \in JogTypes
          /\ \A feed \in BOOLEAN : [ui_jog EXCEPT !.editing = FALSE, !.feed = feed] \in JogTypes
      BY <1>1 DEF JogTypes
    <2> QED
      BY <1>7, <2>1, NoLineKeeps DEF EditFeed, Stays
  <1>8. CASE PartZero
    BY <1>1, <1>8, SubmitKeeps DEF PartZero, OnJogPage
  <1>9. CASE JogUpdate
    BY <1>2, <1>9, NoLineKeeps DEF JogUpdate, Stays, Directions
  <1> QED
    BY <1>3, <1>4, <1>5, <1>6, <1>7, <1>8, <1>9

LEMMA MdiPageKeeps ==
  ASSUME UiInv,
         \/ \E key \in {"0", "L"} : MdiKeyPressed(key)
         \/ MdiEnter \/ MdiEmptyEnter \/ MdiValue \/ MdiDelete
  PROVE  UiInv'
  <1>1. ui_page = "mdi" /\ ui_state \notin {READY, BUSY} => ui_line \in MdiTexts /\ Len(ui_line) = ui_state
    BY DEF UiInv, MdiTexts
  <1>2. UILineBufferSize \in Nat /\ UILineBufferSize < READY /\ UILineBufferSize < BUSY
    BY BufferBound
  <1>3. ui_state \in Nat
    BY StateIsNumber
  <1>4. ASSUME NEW key \in {"0", "L"}, MdiKeyPressed(key) PROVE UiInv'
    <2>1. ui_line \in MdiTexts /\ Len(ui_line) = ui_state /\ ui_state < UILineBufferSize
      BY <1>1, <1>2, <1>3, <1>4 DEF MdiKeyPressed, OnMdiPage
    <2>2. Append(ui_line, key) \in MdiTexts /\ Len(Append(ui_line, key)) <= UILineBufferSize
      BY <1>2, <1>3, <2>1 DEF MdiTexts
    <2>3. ASSUME ui_state > 0
          PROVE  /\ [ui_line EXCEPT ![ui_state] = "P"] \in MdiTexts
                 /\ Len([ui_line EXCEPT ![ui_state] = "P"]) <= UILineBufferSize
      BY <1>2, <1>3, <2>1, <2>3 DEF MdiTexts
    <2> QED
      BY <1>4, <2>2, <2>3, LineBecomesKeeps DEF MdiKeyPressed, OnMdiPage
  <1>5. CASE MdiEnter
    BY <1>5, UiAssumption DEF MdiEnter, OnMdiPage, Stays, UiInv, UiTypeOK
  <1>6. CASE MdiEmptyEnter
    BY <1>6, GoesToKeeps DEF MdiEmptyEnter, Pages
  <1>7. CASE MdiValue
    <2>1. ui_line \in MdiTexts /\ Len(ui_line) = ui_state
      BY <1>1, <1>2, <1>3, <1>7 DEF MdiValue, OnMdiPage
    <2>2. PICK n \in 1..UILineBufferSize - ui_state : LineBecomes(ui_line \o [i \in 1..n |-> "0"])
      BY <1>7 DEF MdiValue
    <2> DEFINE more == [i \in 1..n |-> "0"]
    <2>3. more \in MdiTexts /\ Len(more) = n
      BY DEF MdiTexts
    <2>4. ui_line \o more \in MdiTexts /\ Len(ui_line \o more) = ui_state + n
      BY <2>1, <2>3 DEF MdiTexts
    <2>5. ui_state + n <= UILineBufferSize
      BY <1>2, <1>3
    <2> QED
      BY <1>7, <2>2, <2>4, <2>5, LineBecomesKeeps DEF MdiValue, OnMdiPage
  <1>8. CASE MdiDelete
    <2>1. ui_line \in MdiTexts /\ Len(ui_line) = ui_state /\ ui_state > 0 /\ ui_state < UILineBufferSize
      BY <1>1, <1>2, <1>3, <1>8 DEF MdiDelete, OnMdiPage
    <2>2. Front(ui_line) \in MdiTexts /\ Len(Front(ui_line)) <= UILineBufferSize
      BY <1>2, <1>3, <2>1 DEF Front, MdiTexts
    <2> QED
      BY <1>8, <2>2, LineBecomesKeeps DEF MdiDelete, OnMdiPage
  <1> QED
    BY <1>4, <1>5, <1>6, <1>7, <1>8

LEMMA PagesKeep ==
  ASSUME UiInv, JogKey \/ MenuKey \/ MdiKey \/ Leave \/ MenuEntry \/ Dialog \/ SaveForm \/ RunSelectedFile
  PROVE  UiInv'
  <1>1. ui_menu \in {"main", "system"}
    BY DEF UiInv, UiTypeOK
  <1>2. \A page \in {"status", "menu", "dialog", "error", "jog", "directory", "mdi", "form", "tools", "rpn"} : page \in Pages
    BY DEF Pages
  <1>3. CASE JogKey \/ MenuKey \/ MdiKey
    BY <1>2, <1>3, GoesToKeeps, ShowMenuKeeps DEF JogKey, MenuKey, MdiKey
  <1>4. CASE Leave
    BY <1>2, <1>4, GoesToKeeps, ShowMenuKeeps DEF Leave
  <1>5. CASE MenuEntry
    <2>1. CASE GoToFiles \/ GoesTo("rpn") \/ ShowMenu("system")
      BY <1>2, <2>1, GoesToKeeps, ShowMenuKeeps DEF GoToFiles
    <2>2. CASE HomeAllAxis
      BY <1>1, <1>2, <2>2, GoesToKeeps, GoToKeeps DEF HomeAllAxis
    <2>3. CASE ClearAlarm
      BY <1>1, <1>2, <2>3, GoesToKeeps, GoToKeeps DEF ClearAlarm
    <2>4. CASE GoTo("status") /\ UNCHANGED ui_menu
      BY <1>1, <1>2, <2>4, GoToKeeps
    <2>5. CASE IdleOnly("tools") \/ IdleOnly("form")
      BY <1>2, <2>5, GoesToKeeps DEF IdleOnly
    <2> QED
      BY <1>5, <2>1, <2>2, <2>3, <2>4, <2>5 DEF MenuEntry
  <1>6. CASE Dialog
    BY <1>6, ShowMenuKeeps DEF Dialog
  <1>7. CASE SaveForm
    BY <1>2, <1>7, GoesToKeeps DEF SaveForm
  <1>8. CASE RunSelectedFile
    BY <1>1, <1>2, <1>8, GoToKeeps DEF RunSelectedFile
  <1> QED
    BY <1>3, <1>4, <1>5, <1>6, <1>7, <1>8

LEMMA MainLoopKeeps ==
  ASSUME UiInv, TakeLine \/ LineExecuted \/ MachineMoves \/ Homed \/ FileEnds \/ UNCHANGED uiVars
  PROVE  UiInv'
  <1>1. CASE TakeLine
    BY <1>1 DEF TakeLine, Stays, UiInv, UiTypeOK, READY, BUSY
  <1>2. CASE LineExecuted
    <2>1. ui_state' \in 0..UILineBufferSize /\ ui_state' # READY
      BY <1>2, UiAssumption DEF LineExecuted, READY
    <2>2. ui_line' \in MdiTexts /\ Len(ui_line') = ui_state'
      BY <1>2 DEF LineExecuted, NONE, MdiTexts
    <2> QED
      BY <1>2, <2>1, <2>2 DEF LineExecuted, Stays, UiInv, UiTypeOK, MdiTexts
  <1>3. CASE MachineMoves \/ Homed \/ FileEnds
    <2>1. ui_jog' \in JogTypes
      BY <1>3 DEF MachineMoves, Homed, FileEnds, UiInv, UiTypeOK, JogTypes
    <2> QED
      BY <1>3, <2>1, NoLineKeeps DEF MachineMoves, Homed, FileEnds
  <1>4. CASE UNCHANGED uiVars
    BY <1>4 DEF uiVars, UiInv, UiTypeOK
  <1> QED
    BY <1>1, <1>2, <1>3, <1>4

\* The state of the panel's line stays a length of a text, or one of the two
\* marks (UISupport.h:20), on every way through the pages.
THEOREM LineKeepsBounds == UiSpec => []UiInv
  <1>1. UiInit => UiInv
    BY UiAssumption DEF UiInit, UiInv, UiTypeOK, Pages, JogPage, Directions, NONE, READY
  <1>2. UiInv /\ [UiNext]_uiVars => UiInv'
    BY JogPageKeeps, MdiPageKeeps, PagesKeep, MainLoopKeeps DEF UiNext, Handler
  <1> QED
    BY <1>1, <1>2, PTL DEF UiSpec

\* What protocol_main_loop() takes from the panel is the line that a page has
\* made ready last, never a mixture (protocol.c:164).
THEOREM LineTakenAsEntered == UiSpec => TakenAsEntered
  <1>1. UiInv /\ [UiNext]_uiVars
        => [(ui_running = NONE /\ ui_running' # NONE) => ui_running' = ui_entered]_uiVars
    <2> SUFFICES ASSUME UiInv, UiNext, ui_running = NONE, ui_running' # NONE
                 PROVE  ui_running' = ui_entered
      BY DEF uiVars
    <2>1. TakeLine
      BY DEF UiNext, Handler, JogKey, MenuKey, MdiKey, Leave, Jog, PowerFeed, Probe, SelectAxis, EditFeed,
         PartZero, JogUpdate, MdiKeyPressed, MdiEnter, MdiEmptyEnter, MdiValue, MdiDelete, MenuEntry, Dialog,
         SaveForm, RunSelectedFile, LineExecuted, MachineMoves, Homed, FileEnds, GoesTo, GoTo, ShowMenu,
         Submit, NoLine, TurnBack, OnMdiPage, GoToFiles, HomeAllAxis, ClearAlarm, IdleOnly
    <2> QED
      BY <2>1 DEF TakeLine, UiInv
  <1> QED
    BY <1>1, LineKeepsBounds, PTL DEF UiSpec, TakenAsEntered

\* The jog page sends no jog and no power feed in a direction that a probe has
\* locked (JogUIPage::jog(), JogUIPage::powerFeed()).
THEOREM ProbedStaysLocked == UiSpec => ProbedDirectionLocked
  <1>1. [UiNext]_uiVars
        => [(ui_page = "jog" /\ ui_lines' # ui_lines /\ ui_line'[1] \in {"jog", "feed"})
              => ui_line'[3] \notin ui_jog.lockout]_uiVars
    <2> SUFFICES ASSUME UiNext, ui_page = "jog", ui_lines' # ui_lines, ui_line'[1] \in {"jog", "feed"}
                 PROVE  ui_line'[3] \notin ui_jog.lockout
      BY DEF uiVars
    <2>1. CASE \E d \in Directions : Jog(d) \/ PowerFeed(d)
      <3>1. PICK d \in Directions : Jog(d) \/ PowerFeed(d)
        BY <2>1
      <3>2. d \notin ui_jog.lockout /\ ui_line'[3] = d
        BY <3>1 DEF Jog, PowerFeed, Submit, TurnBack, NoLine
      <3> QED
        BY <3>2
    <2>2. CASE (\E d \in Directions : Probe(d)) \/ PartZero
      BY <2>2 DEF Probe, PartZero, Submit
    <2> QED
      BY <2>1, <2>2 DEF UiNext, Handler, JogKey, MenuKey, MdiKey, Leave, SelectAxis, EditFeed,
         JogUpdate, MdiKeyPressed, MdiEnter, MdiEmptyEnter, MdiValue, MdiDelete, MenuEntry, Dialog,
         SaveForm, RunSelectedFile, TakeLine, LineExecuted, MachineMoves, Homed, FileEnds, GoesTo, GoTo,
         ShowMenu, NoLine, OnMdiPage, GoToFiles, HomeAllAxis, ClearAlarm, IdleOnly, LineBecomes
  <1> QED
    BY <1>1, PTL DEF UiSpec, ProbedDirectionLocked

\* All that the run promises of the pages and their line.
THEOREM LinesAreSafe == UiSpec => UiSafe
  BY LineKeepsBounds, LineTakenAsEntered, ProbedStaysLocked, PTL DEF UiSafe

-----------------------------------------------------------------------------
(* Editors: the lists.                                                     *)

\* What the menus and forms of the program have in common.
LEMMA Lists ==
  /\ Len(EdMenu) \in Nat /\ Len(EdMenu) > 2 /\ Len(EdForm) \in Nat /\ Len(EdForm) > 0
  /\ \A i \in 1..Len(EdMenu) - 2 :
       /\ EdMenu[i + 1] \in {"entry", "separator"}
       /\ EdMenu[i + 1] = "separator" =>
            i > 1 /\ i < Len(EdMenu) - 2 /\ EdMenu[i] = "entry" /\ EdMenu[i + 2] = "entry"
  /\ \A i \in 0..Len(EdForm) - 1 : EdForm[i + 1] = "separator" =>
       i > 0 /\ i < Len(EdForm) - 1 /\ EdForm[i] # "separator" /\ EdForm[i + 2] # "separator"
  <1>1. /\ Len(EdMenu) \in Nat /\ Len(EdMenu) > 2 /\ Len(EdForm) \in Nat /\ Len(EdForm) > 0
        /\ \A i \in 1..Len(EdMenu) : EdMenu[i] \in {"title", "entry", "separator", "end"}
    BY EdAssumption
  <1>2. /\ \A i \in 1..Len(EdMenu) - 1 : EdMenu[i] = "separator" => EdMenu[i + 1] # "separator"
        /\ \A i \in 1..Len(EdForm) - 1 : EdForm[i] = "separator" => EdForm[i + 1] # "separator"
    BY EdAssumption
  <1>3. ASSUME NEW i \in 1..Len(EdMenu) - 2
        PROVE  /\ EdMenu[i + 1] \in {"entry", "separator"}
               /\ EdMenu[i + 1] = "separator" =>
                    i > 1 /\ i < Len(EdMenu) - 2 /\ EdMenu[i] = "entry" /\ EdMenu[i + 2] = "entry"
    <2>1. /\ i \in 1..Len(EdMenu) /\ i + 1 \in 1..Len(EdMenu) /\ i + 1 # 1 /\ i + 1 # Len(EdMenu)
          /\ i \in 1..Len(EdMenu) - 1 /\ i + 1 \in 1..Len(EdMenu) - 1 /\ (i + 1) + 1 = i + 2
          /\ i + 2 \in 1..Len(EdMenu)
      BY <1>1
    <2>2. EdMenu[i + 1] \in {"entry", "separator"}
      BY <1>1, <2>1, EdAssumption
    <2>3. ASSUME EdMenu[i + 1] = "separator"
          PROVE  i > 1 /\ i < Len(EdMenu) - 2 /\ EdMenu[i] = "entry" /\ EdMenu[i + 2] = "entry"
      <3>1. i # 1 /\ i + 1 # Len(EdMenu) - 1
        BY <2>3, EdAssumption
      <3>2. i > 1 /\ i < Len(EdMenu) - 2
        BY <1>1, <3>1
      <3>3. EdMenu[i] # "separator" /\ EdMenu[i + 2] # "separator"
        BY <1>2, <2>1, <2>3
      <3>4. EdMenu[i] \notin {"title", "end"} /\ EdMenu[i + 2] \notin {"title", "end"}
        <4>1. i # 1 /\ i # Len(EdMenu) /\ i + 2 # 1 /\ i + 2 # Len(EdMenu)
          BY <1>1, <3>2
        <4> QED
          BY <2>1, <4>1, EdAssumption
      <3> QED
        BY <1>1, <2>1, <3>2, <3>3, <3>4
    <2> QED
      BY <2>2, <2>3
  <1>4. ASSUME NEW i \in 0..Len(EdForm) - 1, EdForm[i + 1] = "separator"
        PROVE  i > 0 /\ i < Len(EdForm) - 1 /\ EdForm[i] # "separator" /\ EdForm[i + 2] # "separator"
    <2>1. i # 0
      BY <1>4, EdAssumption
    <2>2. i + 1 \in 1..Len(EdForm) /\ i + 1 # Len(EdForm)
      <3>1. i + 1 \in 1..Len(EdForm)
        BY <1>1
      <3> QED
        BY <1>4, <3>1, EdAssumption
    <2>3. i > 0 /\ i < Len(EdForm) - 1 /\ i \in 1..Len(EdForm) - 1 /\ i + 1 \in 1..Len(EdForm) - 1
          /\ (i + 1) + 1 = i + 2
      BY <1>1, <2>1, <2>2
    <2> QED
      BY <1>2, <1>4, <2>3
  <1> QED
    BY <1>1, <1>3, <1>4

\* The display follows a selection that goes down by one or two lines.
LEMMA Follows ==
  ASSUME NEW s \in Nat, NEW t \in Nat, NEW c \in Nat, NEW d, c <= s, s <= c + 2, t > s, t <= s + 2,
         d = IF t - c > 2 THEN t - 2 ELSE c
  PROVE  d \in Nat /\ t \in d..d + 2 /\ d >= 0 /\ t # s
  OBVIOUS

\* The pages whose entries the encoder goes through with GoUp and GoDown.
EncoderPage == ed_page \in {"menu", "form", "tools"} /\ ed_page' = ed_page

LEMMA Selected ==
  ASSUME EdInv, ed_page \in {"menu", "form", "tools"}
  PROVE  /\ ed_selection \in Nat /\ ed_scroll \in Nat /\ ed_scroll <= ed_selection
         /\ ed_selection <= ed_scroll + 2 /\ (ed_selection = 0 \/ ed_selection <= EndOf(ed_page))
         /\ EndOf(ed_page) \in Int
         /\ ed_page = "menu" => EndOf(ed_page) = Len(EdMenu) - 2 /\ ed_selection >= 1
         /\ ed_page = "form" => EndOf(ed_page) = Len(EdForm) - 1
  <1>1. IsList /\ ed_selection \in Int /\ ed_scroll \in Nat
    BY DEF IsList, EdInv, EdTypeOK
  <1>2. /\ ed_selection \in ed_scroll..ed_scroll + 2 /\ (ed_selection = 0 \/ ed_selection <= EndOf(ed_page))
        /\ ed_page = "menu" => EdMenu[ed_selection + 1] = "entry"
    BY <1>1 DEF EdInv, SelectionVisible
  <1>3. ed_selection \in Nat /\ ed_scroll <= ed_selection /\ ed_selection <= ed_scroll + 2
    BY <1>1, <1>2
  <1>4. ed_page = "menu" => ed_selection >= 1
    <2>1. EdMenu[1] = "title"
      BY EdAssumption
    <2>2. ed_page = "menu" => ed_selection # 0
      BY <1>2, <2>1
    <2> QED
      BY <1>3, <2>2
  <1>5. /\ ed_page = "menu" => EndOf(ed_page) = Len(EdMenu) - 2
        /\ ed_page = "form" => EndOf(ed_page) = Len(EdForm) - 1
        /\ ed_page = "tools" => EndOf(ed_page) = 2 * MAX_TOOL_NUMBER
    BY DEF EndOf
  <1>6. MAX_TOOL_NUMBER \in Nat
    BY EdAssumption
  <1>7. EndOf(ed_page) \in Int
    BY <1>5, <1>6, Lists
  <1> QED
    BY <1>1, <1>2, <1>3, <1>4, <1>5, <1>7

LEMMA GoDownKeeps ==
  ASSUME EdInv, EncoderPage, ~AtEnd, GoDown
  PROVE  /\ SelectionVisible' /\ ed_selection' \in Nat /\ ed_scroll' \in Nat
         /\ ed_selection' # ed_selection /\ ed_selection' <= EndOf(ed_page)
  <1> USE DEF EdInv, EdTypeOK, EncoderPage
  <1>0. ed_page \in {"menu", "form", "tools"}
    OBVIOUS
  <1>1. /\ ed_selection \in Nat /\ ed_scroll \in Nat /\ ed_selection <= ed_scroll + 2 /\ ed_scroll <= ed_selection
        /\ ed_selection < EndOf(ed_page) /\ EndOf(ed_page) \in Int
    BY <1>0, Selected DEF AtEnd
  <1>2. /\ IsSeparator(ed_page, ed_selection + 1) => ed_selection + 2 <= EndOf(ed_page)
        /\ ed_page = "menu" => EdMenu[ed_selection' + 1] = "entry"
        /\ ed_page = "form" => EdForm[ed_selection' + 1] # "separator"
    <2>1. CASE ed_page = "menu"
      <3>1. EndOf(ed_page) = Len(EdMenu) - 2 /\ ed_selection >= 1
        BY <1>0, <2>1, Selected
      <3>2. ed_selection + 1 \in 1..Len(EdMenu) - 2
        BY <1>1, <3>1, Lists
      <3>3. CASE EdMenu[ed_selection + 2] = "separator"
        <4>1. ed_selection + 1 < Len(EdMenu) - 2 /\ EdMenu[ed_selection + 3] = "entry"
          <5>1. (ed_selection + 1) + 1 = ed_selection + 2 /\ (ed_selection + 1) + 2 = ed_selection + 3
            BY <1>1
          <5> QED
            BY <3>2, <3>3, <5>1, Lists
        <4>2. ed_selection' = ed_selection + 2
          BY <1>1, <2>1, <3>3 DEF GoDown, IsSeparator
        <4> QED
          BY <1>1, <2>1, <3>1, <4>1, <4>2, Lists
      <3>4. CASE EdMenu[ed_selection + 2] # "separator"
        <4>1. ~IsSeparator(ed_page, ed_selection + 1)
          BY <1>1, <2>1, <3>4 DEF IsSeparator
        <4>2. ed_selection' + 1 = ed_selection + 2
          BY <1>1, <4>1 DEF GoDown
        <4>3. EdMenu[ed_selection + 2] = "entry"
          <5>1. (ed_selection + 1) + 1 = ed_selection + 2
            BY <1>1
          <5> QED
            BY <3>2, <3>4, <5>1, Lists
        <4> QED
          BY <2>1, <4>1, <4>2, <4>3
      <3> QED
        BY <3>3, <3>4
    <2>2. CASE ed_page = "form"
      <3>1. EndOf(ed_page) = Len(EdForm) - 1
        BY <2>2 DEF EndOf
      <3>2. ed_selection + 1 \in 0..Len(EdForm) - 1
        BY <1>1, <3>1, Lists
      <3> QED
        BY <1>1, <2>2, <3>1, <3>2, Lists DEF GoDown, IsSeparator
    <2>3. CASE ed_page = "tools"
      BY <2>3 DEF IsSeparator
    <2> QED
      BY <2>1, <2>2, <2>3
  <1>3. /\ ed_selection' \in {ed_selection + 1, ed_selection + 2} /\ ed_selection' <= EndOf(ed_page)
        /\ ed_scroll' = IF ed_selection' - ed_scroll > 2 THEN ed_selection' - 2 ELSE ed_scroll
    BY <1>1, <1>2 DEF GoDown
  <1>4. /\ ed_selection' \in Nat /\ ed_scroll' \in Nat /\ ed_selection' # ed_selection
        /\ ed_selection' \in ed_scroll'..ed_scroll' + 2 /\ ed_scroll' >= 0
    <2> HIDE DEF EdInv, EdTypeOK, EncoderPage
    <2>1. /\ ed_selection' \in Nat /\ ed_selection' > ed_selection /\ ed_selection' <= ed_selection + 2
      BY <1>1, <1>3
    <2> QED
      BY <1>1, <1>3, <2>1, Follows, Zenon
  <1>5. EndOf(ed_page') = EndOf(ed_page) /\ EndOf(ed_page)' = EndOf(ed_page)
    BY DEF EndOf
  <1> QED
    BY <1>2, <1>3, <1>4, <1>5 DEF SelectionVisible, IsList

LEMMA GoUpKeeps ==
  ASSUME EdInv, EncoderPage, NEW first, first = (IF ed_page = "menu" THEN 1 ELSE 0), GoUp(first)
  PROVE  /\ SelectionVisible' /\ ed_selection' \in Nat /\ ed_scroll' \in Nat
         /\ ed_selection' <= ed_selection
         /\ \/ ed_selection' # ed_selection /\ Load
            \/ ed_selection' = ed_selection /\ ed_text' = ed_text
  <1> USE DEF EdInv, EdTypeOK, EncoderPage
  <1>0. ed_page \in {"menu", "form", "tools"} /\ EndOf(ed_page)' = EndOf(ed_page)
    BY DEF EndOf
  <1>1. /\ ed_selection \in Nat /\ ed_scroll \in Nat /\ ed_selection <= ed_scroll + 2 /\ ed_scroll <= ed_selection
        /\ ed_selection = 0 \/ ed_selection <= EndOf(ed_page)
        /\ EndOf(ed_page) \in Int /\ EndOf(ed_page)' = EndOf(ed_page)
    BY <1>0, Selected
  <1>2. ed_page = "menu" => ed_selection >= 1
    BY <1>0, Selected
  <1>3. CASE ed_selection = first
    BY <1>1, <1>3 DEF GoUp, Stay, SelectionVisible, IsList
  <1>4. CASE ed_selection # first
    <2>1. /\ ed_selection' = ed_selection - (IF IsSeparator(ed_page, ed_selection - 1) THEN 2 ELSE 1)
          /\ ed_scroll' = IF ed_scroll > ed_selection' THEN ed_selection' ELSE ed_scroll
          /\ Load
      BY <1>4 DEF GoUp
    <2>2. /\ ed_selection' \in Nat
          /\ ed_page = "menu" => EdMenu[ed_selection' + 1] = "entry"
          /\ ed_page = "form" => EdForm[ed_selection' + 1] # "separator"
      <3>1. CASE ed_page = "menu"
        <4>1. EndOf(ed_page) = Len(EdMenu) - 2 /\ ed_selection > 1
          BY <1>1, <1>2, <1>4, <3>1 DEF EndOf
        <4>2. ed_selection - 1 \in 1..Len(EdMenu) - 2
          BY <1>1, <4>1, Lists
        <4>3. CASE EdMenu[ed_selection] = "separator"
          <5>1. ed_selection - 1 > 1 /\ EdMenu[ed_selection - 1] = "entry" /\ ed_selection' = ed_selection - 2
            BY <1>1, <2>1, <3>1, <4>2, <4>3, Lists DEF IsSeparator
          <5> QED
            BY <1>1, <3>1, <5>1
        <4>4. CASE EdMenu[ed_selection] # "separator"
          <5>1. EdMenu[ed_selection] = "entry"
            <6>1. (ed_selection - 1) + 1 = ed_selection
              BY <1>1
            <6> QED
              BY <4>2, <4>4, <6>1, Lists
          <5>2. ed_selection' = ed_selection - 1
            BY <1>1, <2>1, <3>1, <4>4 DEF IsSeparator
          <5> QED
            BY <1>1, <3>1, <4>1, <5>1, <5>2
        <4> QED
          BY <4>3, <4>4
      <3>2. CASE ed_page = "form"
        <4>1. EndOf(ed_page) = Len(EdForm) - 1 /\ ed_selection > 0
          BY <1>1, <1>4, <3>2 DEF EndOf
        <4>2. ed_selection - 1 \in 0..Len(EdForm) - 1
          BY <1>1, <4>1, Lists
        <4>3. CASE EdForm[ed_selection] = "separator"
          <5>1. ed_selection - 1 > 0 /\ EdForm[ed_selection - 1] # "separator" /\ ed_selection' = ed_selection - 2
            BY <1>1, <2>1, <3>2, <4>2, <4>3, Lists DEF IsSeparator
          <5> QED
            BY <1>1, <3>2, <5>1
        <4>4. CASE EdForm[ed_selection] # "separator"
          <5>1. ed_selection' = ed_selection - 1
            BY <1>1, <2>1, <3>2, <4>2, <4>4 DEF IsSeparator
          <5> QED
            BY <1>1, <3>2, <4>1, <4>4, <5>1
        <4> QED
          BY <4>3, <4>4
      <3>3. CASE ed_page = "tools"
        BY <1>1, <1>4, <2>1, <3>3 DEF IsSeparator
      <3> QED
        BY <3>1, <3>2, <3>3
    <2>3. /\ ed_selection' < ed_selection /\ ed_selection - ed_selection' <= 2 /\ ed_scroll' \in Nat
          /\ ed_selection' \in ed_scroll'..ed_scroll' + 2
      BY <1>1, <2>1, <2>2
    <2>4. ed_selection' <= EndOf(ed_page)' \/ ed_selection' = 0
      BY <1>1, <2>2, <2>3
    <2> QED
      BY <1>1, <2>1, <2>2, <2>3, <2>4 DEF SelectionVisible, IsList
  <1> QED
    BY <1>3, <1>4

\* What does not fit on the line of the tool page is cut off once.
LEMMA ToolTexts ==
  /\ \A v \in Nat : ToolText(v) \in Nat \cup {NoText} /\ ToolText(TextValue(ToolText(v))) = ToolText(v)
  /\ \A t \in Nat \cup {NoText} : TextValue(t) \in Nat
  <1>1. ASSUME NEW v \in Nat
        PROVE  ToolText(v) \in Nat \cup {NoText} /\ ToolText(TextValue(ToolText(v))) = ToolText(v)
    <2>1. CASE v = 0
      BY <2>1 DEF ToolText, TextValue, NoText
    <2>2. CASE 0 < v /\ v < 100000
      BY <2>2 DEF ToolText, TextValue, NoText
    <2>3. CASE 100000 <= v /\ v < 1000000
      <3>1. v - (v % 10) \in Nat /\ 100000 <= v - (v % 10) /\ v - (v % 10) < 1000000 /\ (v - (v % 10)) % 10 = 0
        BY <2>3
      <3>2. ToolText(v) = v - (v % 10)
        BY <2>3 DEF ToolText
      <3> DEFINE w == v - (v % 10)
      <3>3. w \in Nat /\ 100000 <= w /\ w < 1000000 /\ w % 10 = 0
        BY <3>1
      <3> HIDE DEF w
      <3>4. TextValue(w) = w /\ ToolText(w) = w
        BY <3>3 DEF TextValue, ToolText, NoText
      <3> QED
        BY <3>2, <3>3, <3>4 DEF w
    <2>4. CASE 1000000 <= v
      <3>1. v - (v % 100) \in Nat /\ 1000000 <= v - (v % 100) /\ (v - (v % 100)) % 100 = 0
        BY <2>4
      <3>2. ToolText(v) = v - (v % 100)
        BY <2>4 DEF ToolText
      <3> DEFINE w == v - (v % 100)
      <3>3. w \in Nat /\ 1000000 <= w /\ w % 100 = 0
        BY <3>1
      <3> HIDE DEF w
      <3>4. TextValue(w) = w /\ ToolText(w) = w
        BY <3>3 DEF TextValue, ToolText, NoText
      <3> QED
        BY <3>2, <3>3, <3>4 DEF w
    <2> QED
      BY <2>1, <2>2, <2>3, <2>4
  <1>2. \A t \in Nat \cup {NoText} : TextValue(t) \in Nat
    BY DEF TextValue, NoText
  <1> QED
    BY <1>1, <1>2

\* Accepting the text in the edit buffer makes every entry what was typed for it.
LEMMA ToolAccepted ==
  ASSUME EdInv, ed_page = "tools", AcceptTool
  PROVE  /\ ed_tools' \in [ToolEntries -> Nat]
         /\ \A e \in ToolEntries : ToolText(ed_tools'[e]) = ed_typed.tools[e]
  <1>1. /\ ed_tools \in [ToolEntries -> Nat] /\ ed_text \in Nat \cup {NoText}
        /\ ed_selection \in ToolEntries /\ ed_text = ed_typed.tools[ed_selection]
        /\ ToolText(TextValue(ed_text)) = ed_text
        /\ \A e \in ToolEntries : e # ed_selection => ToolText(ed_tools[e]) = ed_typed.tools[e]
    BY DEF EdInv, EdTypeOK, BufferIsTyped, ToolDataAsTyped
  <1>2. ed_tools' = [ed_tools EXCEPT ![ed_selection] = TextValue(ed_text)] /\ TextValue(ed_text) \in Nat
    BY <1>1, ToolTexts DEF AcceptTool
  <1> QED
    BY <1>1, <1>2

LEMMA ValueAccepted ==
  ASSUME EdInv, ed_page = "form", AcceptValue
  PROVE  /\ ed_values' \in [FormNumbers -> [value : Nat, valid : BOOLEAN]]
         /\ \A i \in FormNumbers :
              ed_typed.form[i] = IF ed_values'[i].valid THEN ed_values'[i].value ELSE NoText
  <1>1. /\ ed_values \in [FormNumbers -> [value : Nat, valid : BOOLEAN]] /\ ed_text \in Nat \cup {NoText}
        /\ \A i \in FormNumbers : ed_typed.form[i] = IF i = ed_selection THEN ed_text ELSE ShownValue(i)
    BY DEF EdInv, EdTypeOK, BufferIsTyped
  <1>2. CASE ed_selection \notin FormNumbers
    BY <1>1, <1>2 DEF AcceptValue, ShownValue
  <1>3. CASE ed_selection \in FormNumbers
    <2> DEFINE v == IF ed_text = NoText THEN [ed_values[ed_selection] EXCEPT !.valid = FALSE]
                    ELSE [value |-> ed_text, valid |-> TRUE]
    <2>1. /\ v \in [value : Nat, valid : BOOLEAN]
          /\ (IF v.valid THEN v.value ELSE NoText) = ed_text
      BY <1>1, <1>3
    <2>2. ed_values' = [ed_values EXCEPT ![ed_selection] = v]
      BY <1>3 DEF AcceptValue
    <2> HIDE DEF v
    <2> QED
      BY <1>1, <1>3, <2>1, <2>2 DEF ShownValue
  <1> QED
    BY <1>2, <1>3

-----------------------------------------------------------------------------

LEMMA MenuKeeps == ASSUME EdInv, MenuLeft \/ MenuRight PROVE EdInv'
  <1>1. /\ ed_page = "menu" /\ ed_page' = "menu" /\ AcceptNothing
        /\ UNCHANGED <<ed_page, ed_saved, ed_rpn, ed_files>>
        /\ GoUp(1) \/ Stay \/ (GoDown /\ ~AtEnd)
    BY DEF MenuLeft, MenuRight, OnListPage
  <1>2. SelectionVisible' /\ ed_selection' \in Nat /\ ed_scroll' \in Nat
    <2>1. CASE Stay
      BY <1>1, <2>1, Selected DEF Stay, EdInv, SelectionVisible, IsList, EndOf, EdTypeOK
    <2>2. CASE GoUp(1)
      BY <1>1, <2>2, GoUpKeeps DEF EncoderPage
    <2>3. CASE GoDown /\ ~AtEnd
      BY <1>1, <2>3, GoDownKeeps DEF EncoderPage
    <2> QED
      BY <1>1, <2>1, <2>2, <2>3
  <1>3. ed_text' \in Nat \cup {NoText}
    BY <1>1 DEF GoUp, GoDown, Stay, Load, TextOf, EdInv, EdTypeOK
  <1>4. EdTypeOK'
    BY <1>1, <1>2, <1>3 DEF AcceptNothing, EdInv, EdTypeOK, ed_rpn
  <1>5. ToolDataAsTyped'
    BY <1>1 DEF AcceptNothing, EdInv, ToolDataAsTyped
  <1>6. BufferIsTyped'
    BY <1>1 DEF AcceptNothing, EdInv, BufferIsTyped, ed_rpn
  <1> QED
    BY <1>2, <1>4, <1>5, <1>6 DEF EdInv

LEMMA DirectoryKeeps == ASSUME EdInv, DirectoryLeft \/ DirectoryRight PROVE EdInv'
  <1>1. /\ ed_page = "directory" /\ ed_page' = "directory" /\ AcceptNothing
        /\ UNCHANGED <<ed_page, ed_saved, ed_rpn, ed_files>>
    BY DEF DirectoryLeft, DirectoryRight, OnListPage
  <1>2. /\ ed_selection \in Nat /\ ed_scroll \in Nat /\ ed_files \in Nat /\ ed_scroll <= ed_selection
        /\ ed_selection <= ed_scroll + 2 /\ (ed_selection = 0 \/ ed_selection <= ed_files - 1)
        /\ ed_text \in Nat \cup {NoText}
    BY <1>1 DEF EdInv, EdTypeOK, SelectionVisible, IsList, EndOf
  <1>3. /\ ed_selection' \in Nat /\ ed_scroll' \in Nat /\ ed_scroll' <= ed_selection'
        /\ ed_selection' <= ed_scroll' + 2 /\ (ed_selection' = 0 \/ ed_selection' <= ed_files - 1)
        /\ ed_text' \in Nat \cup {NoText}
    <2>1. CASE Stay
      BY <1>2, <2>1 DEF Stay
    <2>2. CASE DirectoryLeft /\ ~Stay
      <3>1. /\ ed_selection # 0 /\ ed_selection' = ed_selection - 1
            /\ ed_scroll' = IF ed_scroll > ed_selection' THEN ed_selection' ELSE ed_scroll
            /\ ed_text' = NoText
        BY <1>1, <2>2 DEF DirectoryLeft, GoUp, IsSeparator, Load, TextOf
      <3> QED
        BY <1>2, <3>1
    <2>3. CASE DirectoryRight /\ ~Stay
      <3>1. /\ ed_selection < ed_files - 1 /\ ed_selection' = ed_selection + 1
            /\ ed_scroll' = IF ed_selection' - ed_scroll > 2 THEN ed_scroll + 1 ELSE ed_scroll
            /\ ed_text' = ed_text
        BY <1>1, <1>2, <2>3 DEF DirectoryRight, AtEnd, EndOf
      <3> QED
        BY <1>2, <3>1
    <2> QED
      BY <2>1, <2>2, <2>3
  <1>4. SelectionVisible'
    BY <1>1, <1>2, <1>3 DEF SelectionVisible, IsList, EndOf
  <1>5. EdTypeOK'
    BY <1>1, <1>3 DEF AcceptNothing, EdInv, EdTypeOK, ed_rpn
  <1>6. ToolDataAsTyped'
    BY <1>1 DEF AcceptNothing, EdInv, ToolDataAsTyped
  <1>7. BufferIsTyped'
    BY <1>1 DEF AcceptNothing, EdInv, BufferIsTyped, ed_rpn
  <1> QED
    BY <1>4, <1>5, <1>6, <1>7 DEF EdInv

LEMMA FormKeeps == ASSUME EdInv, FormLeft \/ FormRight PROVE EdInv'
  <1>1. /\ ed_page = "form" /\ ed_page' = "form" /\ EncoderPage
        /\ UNCHANGED <<ed_saved, ed_rpn, ed_files, ed_tools, ed_typed>>
    BY DEF FormLeft, FormRight, OnListPage, AcceptValue, AcceptNothing, EncoderPage
  <1>2. CASE AtEnd /\ FormRight
    BY <1>1, <1>2 DEF FormRight, AcceptNothing, Stay, EdInv, EdTypeOK, SelectionVisible, IsList, EndOf,
       ToolDataAsTyped, BufferIsTyped, ShownValue, ed_rpn
  <1>3. CASE FormLeft \/ ~AtEnd
    <2>1. AcceptValue
      BY <1>3 DEF FormLeft, FormRight
    <2>2. /\ SelectionVisible' /\ ed_selection' \in FormEntries /\ ed_scroll' \in Nat
          /\ \/ ed_selection' # ed_selection /\ Load
             \/ ed_selection' = ed_selection /\ ed_text' = ed_text
      <3>0. ed_selection \in Nat /\ ed_selection <= Len(EdForm) - 1 /\ EndOf(ed_page) = Len(EdForm) - 1
        BY <1>1, Selected, Lists
      <3>1. CASE FormLeft
        <4>1. /\ SelectionVisible' /\ ed_selection' \in Nat /\ ed_scroll' \in Nat /\ ed_selection' <= ed_selection
              /\ \/ ed_selection' # ed_selection /\ Load
                 \/ ed_selection' = ed_selection /\ ed_text' = ed_text
          BY <1>1, <3>1, GoUpKeeps DEF FormLeft
        <4> QED
          BY <3>0, <4>1, Lists DEF FormEntries
      <3>2. CASE FormRight /\ ~AtEnd
        <4>1. /\ SelectionVisible' /\ ed_selection' \in Nat /\ ed_scroll' \in Nat
              /\ ed_selection' # ed_selection /\ ed_selection' <= EndOf(ed_page) /\ Load
          BY <1>1, <3>2, GoDownKeeps DEF FormRight, GoDown
        <4> QED
          BY <3>0, <4>1, Lists DEF FormEntries
      <3> QED
        BY <1>3, <3>1, <3>2
    <2>3. /\ ed_values' \in [FormNumbers -> [value : Nat, valid : BOOLEAN]]
          /\ \A i \in FormNumbers :
               ed_typed.form[i] = IF ed_values'[i].valid THEN ed_values'[i].value ELSE NoText
      BY <1>1, <2>1, ValueAccepted
    <2>4. /\ ed_text' \in Nat \cup {NoText}
          /\ ed_selection' \in FormNumbers => ed_text' = ed_typed.form[ed_selection']
      <3>1. CASE ed_selection' # ed_selection /\ Load
        BY <1>1, <2>3, <3>1 DEF Load, TextOf
      <3>2. CASE ed_selection' = ed_selection /\ ed_text' = ed_text
        BY <1>1, <3>2 DEF EdInv, EdTypeOK, BufferIsTyped
      <3> QED
        BY <2>2, <3>1, <3>2
    <2>5. EdTypeOK'
      BY <1>1, <2>2, <2>3, <2>4 DEF FormEntries, EdInv, EdTypeOK, ed_rpn
    <2>6. ToolDataAsTyped'
      BY <1>1 DEF EdInv, ToolDataAsTyped
    <2>7. BufferIsTyped'
      BY <1>1, <2>2, <2>3, <2>4 DEF EdInv, BufferIsTyped, ShownValue, ed_rpn
    <2> QED
      BY <2>2, <2>5, <2>6, <2>7 DEF EdInv
  <1> QED
    BY <1>2, <1>3

LEMMA ToolsKeep == ASSUME EdInv, ToolLeft \/ ToolRight PROVE EdInv'
  <1>1. /\ ed_page = "tools" /\ ed_page' = "tools" /\ EncoderPage /\ AcceptTool
        /\ UNCHANGED <<ed_saved, ed_rpn, ed_files, ed_values, ed_typed>>
    BY DEF ToolLeft, ToolRight, OnListPage, AcceptTool, EncoderPage
  <1>2. /\ SelectionVisible' /\ ed_selection' \in ToolEntries /\ ed_scroll' \in Nat
        /\ \/ ed_selection' # ed_selection /\ Load
           \/ ed_selection' = ed_selection /\ ed_text' = ed_text
    <2>0. /\ ed_selection \in ToolEntries /\ EndOf(ed_page) = 2 * MAX_TOOL_NUMBER /\ MAX_TOOL_NUMBER \in Nat
          /\ ToolEntries = 0..2 * MAX_TOOL_NUMBER + 1
      BY <1>1, EdAssumption DEF EdInv, BufferIsTyped, EndOf, ToolEntries
    <2>1. CASE ToolLeft
      <3>1. /\ SelectionVisible' /\ ed_selection' \in Nat /\ ed_scroll' \in Nat /\ ed_selection' <= ed_selection
            /\ \/ ed_selection' # ed_selection /\ Load
               \/ ed_selection' = ed_selection /\ ed_text' = ed_text
        BY <1>1, <2>1, GoUpKeeps DEF ToolLeft
      <3> QED
        BY <2>0, <3>1
    <2>2. CASE ToolRight /\ ~AtEnd
      <3>1. /\ SelectionVisible' /\ ed_selection' \in Nat /\ ed_scroll' \in Nat
            /\ ed_selection' # ed_selection /\ ed_selection' <= EndOf(ed_page) /\ Load
        BY <1>1, <2>2, GoDownKeeps DEF ToolRight, GoDown
      <3> QED
        BY <2>0, <3>1
    <2>3. CASE ToolRight /\ AtEnd
      BY <1>1, <2>0, <2>3, Selected DEF ToolRight, Stay, EdInv, EdTypeOK, SelectionVisible, IsList, EndOf
    <2> QED
      BY <2>1, <2>2, <2>3
  <1>3. /\ ed_tools' \in [ToolEntries -> Nat]
        /\ \A e \in ToolEntries : ToolText(ed_tools'[e]) = ed_typed.tools[e]
    BY <1>1, ToolAccepted
  <1>4. /\ ed_text' \in Nat \cup {NoText} /\ ed_text' = ed_typed.tools[ed_selection']
        /\ ToolText(TextValue(ed_text')) = ed_text'
    <2>1. CASE ed_selection' # ed_selection /\ Load
      <3>1. ed_text' = ToolText(ed_tools'[ed_selection']) /\ ed_tools'[ed_selection'] \in Nat
        BY <1>1, <1>2, <1>3, <2>1 DEF Load, TextOf
      <3> QED
        BY <1>2, <1>3, <3>1, ToolTexts
    <2>2. CASE ed_selection' = ed_selection /\ ed_text' = ed_text
      BY <1>1, <2>2 DEF EdInv, EdTypeOK, BufferIsTyped
    <2> QED
      BY <1>2, <2>1, <2>2
  <1>5. EdTypeOK'
    BY <1>1, <1>2, <1>3, <1>4 DEF ToolEntries, EdInv, EdTypeOK, ed_rpn
  <1>6. ToolDataAsTyped'
    BY <1>1, <1>3 DEF ToolDataAsTyped
  <1>7. BufferIsTyped'
    BY <1>1, <1>2, <1>4 DEF EdInv, BufferIsTyped, ed_rpn
  <1> QED
    BY <1>2, <1>5, <1>6, <1>7 DEF EdInv

LEMMA EditKeeps == ASSUME EdInv, EditValue \/ EditTool PROVE EdInv'
  <1>1. /\ ed_page \in {"form", "tools"} /\ ed_page' = ed_page
        /\ UNCHANGED <<ed_saved, ed_rpn, ed_files, ed_selection, ed_scroll, ed_values, ed_tools>>
        /\ ed_typed' = [ed_typed EXCEPT ![ed_page][ed_selection] = ed_text']
        /\ ed_page = "form" => ed_selection \in FormNumbers
    BY DEF EditValue, EditTool, OnListPage, Edit
  <1>2. ed_text' \in Nat \cup {NoText} /\ (ed_page = "tools" => ToolText(TextValue(ed_text')) = ed_text')
    <2>1. CASE EditValue
      BY <2>1 DEF EditValue, OnListPage, Edit, FormTexts
    <2>2. CASE EditTool
      <3>1. PICK v \in EdLengths \cup {0} : ed_text' = ToolText(v)
        BY <2>2 DEF EditTool, Edit
      <3>2. v \in Nat
        BY EdAssumption
      <3> QED
        BY <3>1, <3>2, ToolTexts
    <2> QED
      BY <2>1, <2>2
  <1>3. ed_text' \in Int
    BY <1>2 DEF NoText
  <1>4. SelectionVisible'
    BY <1>1 DEF EdInv, SelectionVisible, IsList, EndOf, ed_rpn
  <1>5. CASE ed_page = "form"
    <2>1. /\ ed_typed'.tools = ed_typed.tools /\ ed_typed' \in [form : [FormNumbers -> Int], tools : [ToolEntries -> Int]]
          /\ ed_typed'.form = [ed_typed.form EXCEPT ![ed_selection] = ed_text']
      BY <1>1, <1>3, <1>5 DEF EdInv, EdTypeOK
    <2>2. EdTypeOK'
      BY <1>1, <1>2, <2>1 DEF EdInv, EdTypeOK, ed_rpn
    <2>3. ToolDataAsTyped'
      BY <1>1, <1>5, <2>1 DEF EdInv, ToolDataAsTyped
    <2>4. BufferIsTyped'
      BY <1>1, <1>5, <2>1 DEF EdInv, EdTypeOK, BufferIsTyped, ShownValue, ed_rpn
    <2> QED
      BY <1>4, <2>2, <2>3, <2>4 DEF EdInv
  <1>6. CASE ed_page = "tools"
    <2>0. ed_selection \in ToolEntries
      BY <1>6 DEF EdInv, BufferIsTyped
    <2>1. /\ ed_typed'.form = ed_typed.form /\ ed_typed' \in [form : [FormNumbers -> Int], tools : [ToolEntries -> Int]]
          /\ ed_typed'.tools = [ed_typed.tools EXCEPT ![ed_selection] = ed_text']
      BY <1>1, <1>3, <1>6 DEF EdInv, EdTypeOK
    <2>2. EdTypeOK'
      BY <1>1, <1>2, <2>1 DEF EdInv, EdTypeOK, ed_rpn
    <2>3. ToolDataAsTyped'
      BY <1>1, <1>6, <2>0, <2>1 DEF EdInv, EdTypeOK, ToolDataAsTyped
    <2>4. BufferIsTyped'
      BY <1>1, <1>2, <1>6, <2>0, <2>1 DEF EdInv, EdTypeOK, BufferIsTyped, ed_rpn
    <2> QED
      BY <1>4, <2>2, <2>3, <2>4 DEF EdInv
  <1> QED
    BY <1>1, <1>5, <1>6

LEMMA SaveFormKeeps == ASSUME EdInv, EdSaveForm PROVE EdInv'
  <1>1. ed_saved' \in [FormNumbers -> Nat]
    BY DEF EdSaveForm, EdInv, EdTypeOK
  <1>2. EdTypeOK'
    BY <1>1 DEF EdSaveForm, EdInv, EdTypeOK, ed_rpn
  <1>3. SelectionVisible' /\ ToolDataAsTyped' /\ BufferIsTyped'
    BY DEF EdSaveForm, EdInv, SelectionVisible, IsList, ToolDataAsTyped, BufferIsTyped, ed_rpn
  <1> QED
    BY <1>2, <1>3 DEF EdInv

LEMMA LeaveKeeps == ASSUME EdInv, LeavePage PROVE EdInv'
  <1> USE DEF LeavePage
  <1>1. /\ ed_typed' \in [form : [FormNumbers -> Int], tools : [ToolEntries -> Int]]
        /\ \A e \in ToolEntries : ToolText(ed_tools[e]) = ed_typed'.tools[e]
    <2>1. CASE ed_page = "tools"
      <3>1. ed_selection \in ToolEntries /\ ToolText(ed_tools[ed_selection]) \in Int
        BY <2>1, ToolTexts DEF EdInv, EdTypeOK, BufferIsTyped, NoText
      <3>2. /\ ed_typed'.tools = [ed_typed.tools EXCEPT ![ed_selection] = ToolText(ed_tools[ed_selection])]
            /\ ed_typed' \in [form : [FormNumbers -> Int], tools : [ToolEntries -> Int]]
        BY <2>1, <3>1 DEF EdInv, EdTypeOK
      <3> QED
        BY <3>1, <3>2 DEF EdInv, EdTypeOK, ToolDataAsTyped
    <2>2. CASE ed_page # "tools"
      BY <2>2 DEF EdInv, EdTypeOK, ToolDataAsTyped
    <2> QED
      BY <2>1, <2>2
  <1>2. EdTypeOK'
    <2>1. /\ UNCHANGED <<ed_values, ed_saved, ed_tools, ed_stack, ed_top, ed_files>> /\ ed_page' = "status"
          /\ ed_selection' = 0 /\ ed_scroll' = 0 /\ ed_text' = NoText /\ ed_editing' = FALSE
      BY DEF ed_form
    <2>2. EdTypeOK
      BY DEF EdInv
    <2> HIDE DEF LeavePage
    <2>3. ed_selection' \in Int /\ ed_scroll' \in Nat /\ ed_text' \in Nat \cup {NoText}
      BY <2>1
    <2>6. ed_editing' \in BOOLEAN
      BY <2>1, Zenon
    <2>4. /\ ed_saved' \in [FormNumbers -> Nat] /\ ed_values' \in [FormNumbers -> [value : Nat, valid : BOOLEAN]]
          /\ ed_tools' \in [ToolEntries -> Nat]
      BY <2>1, <2>2 DEF EdTypeOK
    <2>5. ed_stack' \in [0..RpnDepth - 1 -> RpnTexts] /\ ed_top' \in 0..RpnDepth /\ ed_files' \in Nat
      BY <2>1, <2>2 DEF EdTypeOK
    <2> QED
      BY <1>1, <2>1, <2>3, <2>4, <2>5, <2>6 DEF EdTypeOK
  <1>3. SelectionVisible'
    BY DEF SelectionVisible, IsList
  <1>4. ToolDataAsTyped'
    BY <1>1 DEF ToolDataAsTyped
  <1>5. BufferIsTyped'
    BY DEF BufferIsTyped
  <1> QED
    BY <1>2, <1>3, <1>4, <1>5 DEF EdInv

LEMMA OpenKeeps == ASSUME EdInv, NEW page \in EdPages, OpenPage(page) PROVE EdInv'
  <1>1. /\ ed_page = "status" /\ ed_page' = page /\ UNCHANGED <<ed_saved, ed_tools, ed_rpn>>
        /\ ed_selection' = (CASE page = "menu" -> 1 [] page = "rpn" -> -1 [] OTHER -> 0)
        /\ ed_scroll' = (IF page = "menu" THEN 1 ELSE 0)
        /\ ed_text' = TextOf(page, 0, ed_values', ed_tools)
        /\ ed_typed' = [form |-> ed_saved, tools |-> [i \in ToolEntries |-> ToolText(ed_tools[i])]]
        /\ ed_files' \in Nat
    BY EdAssumption DEF OpenPage
  <1>2. /\ ed_values' \in [FormNumbers -> [value : Nat, valid : BOOLEAN]]
        /\ page = "form" => \A i \in FormNumbers : ed_values'[i] = [value |-> ed_saved[i], valid |-> TRUE]
    <2>0. ed_saved \in [FormNumbers -> Nat] /\ ed_values \in [FormNumbers -> [value : Nat, valid : BOOLEAN]]
      BY DEF EdInv, EdTypeOK
    <2>1. CASE page = "form"
      <3>1. ed_values' = [i \in FormNumbers |-> [value |-> ed_saved[i], valid |-> TRUE]]
        BY <2>1 DEF OpenPage
      <3> QED
        BY <2>0, <3>1
    <2>2. CASE page # "form"
      BY <2>0, <2>2 DEF OpenPage
    <2> QED
      BY <2>1, <2>2
  <1>3. /\ page = "menu" => ed_selection' = 1
        /\ page = "rpn" => ed_selection' = -1
        /\ page \notin {"menu", "rpn"} => ed_selection' = 0
        /\ ed_selection' \in Int /\ ed_scroll' \in Nat
    BY <1>1
  <1>4. \A e \in ToolEntries : ToolText(ed_tools[e]) \in Nat \cup {NoText}
    BY ToolTexts DEF EdInv, EdTypeOK
  <1>5. 0 \in ToolEntries /\ 0 \in FormEntries
    BY EdAssumption DEF ToolEntries, FormEntries
  <1>6. ed_text' \in Nat \cup {NoText}
    <2>1. CASE page = "form"
      BY <1>1, <1>2, <2>1 DEF TextOf, EdInv, EdTypeOK
    <2>2. CASE page = "tools"
      BY <1>1, <1>4, <1>5, <2>2 DEF TextOf
    <2>3. CASE page \notin {"form", "tools"}
      BY <1>1, <2>3 DEF TextOf
    <2> QED
      BY <2>1, <2>2, <2>3
  <1>7. ed_typed' \in [form : [FormNumbers -> Int], tools : [ToolEntries -> Int]]
    <2>1. [i \in ToolEntries |-> ToolText(ed_tools[i])] \in [ToolEntries -> Int]
      BY <1>4 DEF NoText
    <2>2. ed_saved \in [FormNumbers -> Int]
      BY DEF EdInv, EdTypeOK
    <2> QED
      BY <1>1, <2>1, <2>2
  <1>8. EdTypeOK'
    BY <1>1, <1>2, <1>3, <1>6, <1>7 DEF EdInv, EdTypeOK, ed_rpn
  <1>9. ToolDataAsTyped'
    BY <1>1 DEF ToolDataAsTyped
  <1>10. SelectionVisible'
    <2>1. CASE page = "menu"
      <3>1. EdMenu[1 + 1] = "entry" /\ 1 <= Len(EdMenu) - 2
        BY Lists, EdAssumption
      <3> QED
        BY <1>1, <2>1, <3>1 DEF SelectionVisible, IsList, EndOf
    <2>2. CASE page = "rpn"
      BY <1>1, <2>2 DEF SelectionVisible, IsList, EdInv, EdTypeOK, ed_rpn
    <2>3. CASE page \notin {"menu", "rpn"}
      <3>1. EdForm[0 + 1] # "separator"
        BY EdAssumption
      <3> QED
        BY <1>1, <1>3, <2>3, <3>1 DEF SelectionVisible, IsList
    <2> QED
      BY <2>1, <2>2, <2>3
  <1>11. BufferIsTyped'
    <2>0. ~ed_editing'
      BY <1>1 DEF EdInv, BufferIsTyped, ed_rpn
    <2>1. CASE page = "form"
      BY <1>1, <1>2, <1>3, <1>5, <2>0, <2>1 DEF BufferIsTyped, ShownValue, TextOf
    <2>2. CASE page = "tools"
      <3>1. ed_text' = ToolText(ed_tools[0]) /\ ed_tools[0] \in Nat
        BY <1>1, <1>5, <2>2 DEF TextOf, EdInv, EdTypeOK
      <3> QED
        BY <1>1, <1>3, <1>5, <2>0, <2>2, <3>1, ToolTexts DEF BufferIsTyped
    <2>3. CASE page \notin {"form", "tools"}
      BY <1>1, <2>0, <2>3 DEF BufferIsTyped
    <2> QED
      BY <2>1, <2>2, <2>3
  <1> QED
    BY <1>8, <1>9, <1>10, <1>11 DEF EdInv

-----------------------------------------------------------------------------
(* The calculator.                                                         *)

Cells == [0..RpnDepth - 1 -> RpnTexts]

LEMMA RpnConstants ==
  /\ RpnDepth \in Nat /\ RpnDepth >= 2 /\ 0 \in 0..RpnDepth - 1 /\ 1 \in 0..RpnDepth - 1
  /\ RpnTexts \subseteq Nat /\ 0 \in RpnTexts
  BY EdAssumption DEF RpnTexts

LEMMA PushedInRange ==
  ASSUME NEW c \in Cells, NEW t \in 0..RpnDepth, NEW v \in RpnTexts
  PROVE  PushedCells(c, t, v) \in Cells /\ PushedTop(t) \in 1..RpnDepth /\ PushedTop(t) >= t
  <1>1. PushedTop(t) \in 1..RpnDepth /\ PushedTop(t) >= t
    BY RpnConstants DEF PushedTop
  <1>2. DOMAIN c = 0..RpnDepth - 1
    BY DEF Cells
  <1>3. ASSUME NEW i \in 0..RpnDepth - 1, i # 0 PROVE c[i - 1] \in RpnTexts
    <2>1. i - 1 \in 0..RpnDepth - 1
      BY <1>3, RpnConstants
    <2> QED
      BY <2>1 DEF Cells
  <1> DEFINE n == IF t < RpnDepth THEN t ELSE RpnDepth - 1
  <1>4. PushedCells(c, t, v) = [i \in 0..RpnDepth - 1 |-> IF i = 0 THEN v ELSE IF i <= n THEN c[i - 1] ELSE c[i]]
    BY <1>2 DEF PushedCells
  <1> HIDE DEF n
  <1>5. \A i \in 0..RpnDepth - 1 : (IF i = 0 THEN v ELSE IF i <= n THEN c[i - 1] ELSE c[i]) \in RpnTexts
    BY <1>3 DEF Cells
  <1>6. PushedCells(c, t, v) \in Cells
    BY <1>4, <1>5 DEF Cells
  <1> QED
    BY <1>1, <1>6

LEMMA DroppedInRange ==
  ASSUME NEW c \in Cells, NEW t \in 1..RpnDepth, NEW l \in Nat
  PROVE  DroppedCells(c, t, l) \in Cells
  <1>1. DOMAIN c = 0..RpnDepth - 1
    BY DEF Cells
  <1>2. ASSUME NEW i \in 0..RpnDepth - 1, i < t - 1 PROVE c[i + 1] \in RpnTexts
    <2>1. i + 1 \in 0..RpnDepth - 1
      BY <1>2, RpnConstants
    <2> QED
      BY <2>1 DEF Cells
  <1>3. \A i \in 0..RpnDepth - 1 : (IF l <= i /\ i < t - 1 THEN c[i + 1] ELSE c[i]) \in RpnTexts
    BY <1>2 DEF Cells
  <1>4. DroppedCells(c, t, l) = [i \in 0..RpnDepth - 1 |-> IF l <= i /\ i < t - 1 THEN c[i + 1] ELSE c[i]]
    BY <1>1 DEF DroppedCells
  <1> QED
    BY <1>3, <1>4 DEF Cells

LEMMA ResultsInRange ==
  ASSUME NEW a \in RpnTexts, NEW b \in RpnTexts PROVE Results(a, b) \subseteq RpnTexts
  <1>1. a + b \in Int /\ a - b \in Int /\ RpnModulus \in Nat /\ RpnModulus > 0
    BY EdAssumption DEF RpnTexts
  <1>2. \A x \in Int, m \in Nat : m > 0 => x % m \in 0..m - 1
    OBVIOUS
  <1> QED
    BY <1>1, <1>2 DEF Results, RpnTexts

\* The stack that an operation starts from.
LEMMA AcceptedInRange ==
  ASSUME EdInv
  PROVE  /\ AcceptedCells \in Cells /\ AcceptedTop \in 0..RpnDepth /\ AcceptedTop >= ed_top
         /\ AcceptedText \in Nat \cup {NoText} /\ (Typed => AcceptedTop > 0 /\ ed_text \in RpnTexts)
         /\ ed_stack \in Cells /\ ed_top \in 0..RpnDepth
  <1>1. ed_stack \in Cells /\ ed_top \in 0..RpnDepth /\ ed_text \in Nat \cup {NoText} /\ NoText \in Nat \cup {NoText}
    BY DEF EdInv, EdTypeOK, Cells
  <1>2. CASE Typed
    <2>1. ed_text \in RpnTexts
      BY <1>2 DEF Typed, EdInv, BufferIsTyped
    <2> QED
      BY <1>1, <1>2, <2>1, PushedInRange, RpnConstants DEF AcceptedCells, AcceptedTop, AcceptedText
  <1>3. CASE ~Typed
    BY <1>1, <1>3, RpnConstants DEF AcceptedCells, AcceptedTop, AcceptedText
  <1> QED
    BY <1>2, <1>3

\* A selection of a list with top entries, or none, and where the display is.
View(s, c, top) ==
  /\ s \in -1..top - 1 /\ c \in Nat
  /\ s >= 0 => c <= s /\ s <= c + 2
  /\ s = -1 => c = 0
Back(s, c) == IF c > s THEN (IF s > 0 THEN s ELSE 0) ELSE c
Ahead(s, c) == IF s - c > 2 THEN s - 2 ELSE c

LEMMA Views ==
  /\ \A top \in Nat : View(-1, 0, top)
  /\ \A s, c : \A top, more \in Nat : View(s, c, top) /\ more >= top => View(s, c, more)
  /\ \A s, c : \A top \in Nat : View(s, c, top) /\ s < top - 1 => View(s + 1, Ahead(s + 1, c), top)
  /\ \A s, c : \A top \in Nat : View(s, c, top) /\ s >= 0 => View(s - 1, Back(s - 1, c), top)
  /\ \A s, c : \A top \in Nat : View(s, c, top) /\ top > 0 =>
       LET t == IF s >= top - 1 THEN (top - 1) - 1 ELSE s IN View(t, Back(t, c), top - 1)
  <1>1. \A top \in Nat : View(-1, 0, top)
    BY DEF View
  <1>2. ASSUME NEW s, NEW c, NEW top \in Nat, NEW more \in Nat, View(s, c, top), more >= top
        PROVE  View(s, c, more)
    BY <1>2 DEF View
  <1>3. ASSUME NEW s, NEW c, NEW top \in Nat, View(s, c, top), s < top - 1
        PROVE  View(s + 1, Ahead(s + 1, c), top)
    BY <1>3 DEF View, Ahead
  <1>4. ASSUME NEW s, NEW c, NEW top \in Nat, View(s, c, top), s >= 0
        PROVE  View(s - 1, Back(s - 1, c), top)
    BY <1>4 DEF View, Back
  <1>5. ASSUME NEW s, NEW c, NEW top \in Nat, View(s, c, top), top > 0, NEW t,
               t = IF s >= top - 1 THEN (top - 1) - 1 ELSE s
        PROVE  View(t, Back(t, c), top - 1)
    BY <1>5 DEF View, Back
  <1> QED
    BY <1>1, <1>2, <1>3, <1>4, <1>5

LEMMA ViewIsVisible ==
  \A s, c : \A top \in Nat : View(s, c, top) =>
    /\ s \in Int /\ s \in -1..top - 1 /\ c \in Nat /\ c >= 0
    /\ s >= 0 => s \in c..c + 2
    /\ s = -1 => c = 0
  BY DEF View

\* A key of the calculator keeps what the other pages need; these are the rest.
LEMMA CalculatorKeeps ==
  ASSUME EdInv, OnRpnPage, ed_stack' \in Cells, ed_top' \in 0..RpnDepth,
         ed_editing' \in BOOLEAN, ed_text' \in Nat \cup {NoText},
         ed_editing' => ed_text' \in RpnTexts \cup {NoText},
         View(ed_selection', ed_scroll', ed_top')
  PROVE  EdInv'
  <1>1. ed_page' = "rpn" /\ UNCHANGED <<ed_page, ed_values, ed_saved, ed_tools, ed_typed, ed_files>>
    BY DEF OnRpnPage, ed_form
  <1>2. /\ ed_selection' \in Int /\ ed_selection' \in -1..ed_top' - 1 /\ ed_scroll' \in Nat /\ ed_scroll' >= 0
        /\ ed_selection' >= 0 => ed_selection' \in ed_scroll'..ed_scroll' + 2
        /\ ed_selection' = -1 => ed_scroll' = 0
    <2>1. ed_top' \in Nat
      BY RpnConstants
    <2> QED
      BY <2>1, ViewIsVisible
  <1>3. EdTypeOK'
    BY <1>1, <1>2 DEF EdInv, EdTypeOK, Cells
  <1>4. SelectionVisible'
    BY <1>1, <1>2, Zenon DEF SelectionVisible, IsList
  <1>5. ToolDataAsTyped'
    BY <1>1, OnRpnPage DEF OnRpnPage, EdInv, ToolDataAsTyped
  <1>6. BufferIsTyped'
    BY <1>1, <1>2 DEF BufferIsTyped
  <1> QED
    BY <1>3, <1>4, <1>5, <1>6 DEF EdInv

LEMMA RpnView ==
  ASSUME EdInv, ed_page = "rpn"
  PROVE  View(ed_selection, ed_scroll, ed_top) /\ ed_top \in 0..RpnDepth /\ ed_top \in Nat
  BY RpnConstants DEF EdInv, EdTypeOK, SelectionVisible, BufferIsTyped, View

LEMMA AcceptKeeps ==
  ASSUME EdInv, RpnAccept
  PROVE  /\ ed_stack' \in Cells /\ ed_top' \in 0..RpnDepth /\ ed_top' >= ed_top /\ ed_top' \in Nat
         /\ ed_editing' = FALSE /\ ed_text' \in Nat \cup {NoText}
  BY AcceptedInRange, RpnConstants DEF RpnAccept

LEMMA TurnKeeps == ASSUME EdInv, RpnLeft \/ RpnRight PROVE EdInv'
  <1>1. /\ ed_page = "rpn" /\ OnRpnPage /\ RpnAccept
    BY DEF RpnLeft, RpnRight, OnRpnPage
  <1>2. /\ ed_stack' \in Cells /\ ed_top' \in 0..RpnDepth /\ ed_top' >= ed_top /\ ed_top' \in Nat
        /\ ed_editing' \in BOOLEAN /\ ~ed_editing' /\ ed_text' \in Nat \cup {NoText}
    BY <1>1, AcceptKeeps
  <1>3. View(ed_selection, ed_scroll, ed_top')
    BY <1>1, <1>2, RpnView, Views
  <1>4. \/ UNCHANGED <<ed_selection, ed_scroll>>
        \/ /\ ed_selection < ed_top' - 1 /\ ed_selection' = ed_selection + 1
           /\ ed_scroll' = Ahead(ed_selection + 1, ed_scroll)
        \/ /\ ed_selection >= 0 /\ ed_selection' = ed_selection - 1
           /\ ed_scroll' = Back(ed_selection - 1, ed_scroll)
    BY DEF RpnLeft, RpnRight, Ahead, Back
  <1>5. View(ed_selection', ed_scroll', ed_top')
    BY <1>2, <1>3, <1>4, Views
  <1> QED
    BY <1>1, <1>2, <1>5, CalculatorKeeps

LEMMA HomeKeeps ==
  ASSUME EdInv, OnRpnPage, RpnHome, ed_stack' \in Cells, ed_top' \in 0..RpnDepth,
         ed_editing' \in BOOLEAN, ed_text' \in Nat \cup {NoText},
         ed_editing' => ed_text' \in RpnTexts \cup {NoText}
  PROVE  EdInv'
  <1>1. ed_top' \in Nat
    BY RpnConstants
  <1>2. View(ed_selection', ed_scroll', ed_top')
    BY <1>1, Views DEF RpnHome
  <1> QED
    BY <1>2, CalculatorKeeps

LEMMA ButtonKeeps == ASSUME EdInv, RpnButton PROVE EdInv'
  <1>1. OnRpnPage /\ RpnHome /\ ed_editing' = TRUE /\ ed_text' = ed_stack[ed_selection]
    BY DEF RpnButton
  <1>2. ed_stack' \in Cells /\ ed_top' \in 0..RpnDepth
    BY AcceptedInRange DEF RpnButton
  <1>3. ed_selection \in 0..RpnDepth - 1
    <2>1. ed_selection \in -1..ed_top - 1 /\ ed_top \in 0..RpnDepth /\ ed_selection >= 0
      BY RpnView, ViewIsVisible DEF RpnButton, OnRpnPage
    <2> QED
      BY <2>1, RpnConstants
  <1>4. ed_stack[ed_selection] \in RpnTexts /\ RpnTexts \subseteq Nat
    BY <1>3, RpnConstants DEF EdInv, EdTypeOK
  <1> QED
    BY <1>1, <1>2, <1>4, HomeKeeps

LEMMA KeyKeeps == ASSUME EdInv, RpnKey PROVE EdInv'
  <1>1. /\ ed_page = "rpn" /\ OnRpnPage /\ ed_editing' \in BOOLEAN /\ ed_text' \in RpnTexts
        /\ ed_stack' = ed_stack /\ ed_top' = ed_top /\ (UNCHANGED <<ed_selection, ed_scroll>> \/ RpnHome)
    BY DEF RpnKey, OnRpnPage
  <1>2. ed_stack' \in Cells /\ ed_top' \in 0..RpnDepth /\ ed_text' \in Nat \cup {NoText} /\ ed_text' \in RpnTexts \cup {NoText}
    BY <1>1, AcceptedInRange, RpnConstants
  <1>3. CASE RpnHome
    BY <1>1, <1>2, <1>3, HomeKeeps
  <1>4. CASE UNCHANGED <<ed_selection, ed_scroll>>
    <2>1. View(ed_selection', ed_scroll', ed_top')
      BY <1>1, <1>4, RpnView
    <2> QED
      BY <1>1, <1>2, <2>1, CalculatorKeeps
  <1> QED
    BY <1>1, <1>3, <1>4

LEMMA DigitKeeps == ASSUME EdInv, RpnDeleteDigit PROVE EdInv'
  <1>1. /\ ed_page = "rpn" /\ OnRpnPage /\ ed_text' \in RpnTexts \cup {NoText}
        /\ ed_stack' = ed_stack /\ ed_top' = ed_top /\ UNCHANGED <<ed_selection, ed_scroll>> /\ ed_editing' = ed_editing
    BY DEF RpnDeleteDigit, OnRpnPage
  <1>2. ed_stack' \in Cells /\ ed_top' \in 0..RpnDepth /\ ed_text' \in Nat \cup {NoText}
    BY <1>1, AcceptedInRange, RpnConstants
  <1>3. ed_editing' \in BOOLEAN
    BY <1>1 DEF EdInv, EdTypeOK
  <1>4. View(ed_selection', ed_scroll', ed_top')
    BY <1>1, RpnView
  <1> QED
    BY <1>1, <1>2, <1>3, <1>4, CalculatorKeeps

LEMMA OperateKeeps == ASSUME EdInv, RpnOperate PROVE EdInv'
  <1>1. OnRpnPage /\ RpnHome /\ ed_editing' \in BOOLEAN /\ ~ed_editing' /\ ed_text' \in Nat \cup {NoText}
    BY AcceptedInRange DEF RpnOperate
  <1>2. ed_stack' \in Cells /\ ed_top' \in 0..RpnDepth
    <2>1. AcceptedCells \in Cells /\ AcceptedTop \in 0..RpnDepth
      BY AcceptedInRange
    <2>2. CASE AcceptedTop = 0
      BY <2>1, <2>2 DEF RpnOperate
    <2>3. CASE AcceptedTop # 0
      <3>1. PICK v \in Results(AcceptedCells[1], AcceptedCells[0]) :
              IF AcceptedTop > 1
              THEN ed_stack' = DroppedCells([AcceptedCells EXCEPT ![0] = v], AcceptedTop, 1) /\ ed_top' = AcceptedTop - 1
              ELSE ed_stack' = [AcceptedCells EXCEPT ![0] = v] /\ ed_top' = AcceptedTop
        BY <2>3 DEF RpnOperate
      <3>2. AcceptedCells[0] \in RpnTexts /\ AcceptedCells[1] \in RpnTexts
        BY <2>1, RpnConstants DEF Cells
      <3>3. v \in RpnTexts
        BY <3>2, ResultsInRange
      <3>4. [AcceptedCells EXCEPT ![0] = v] \in Cells
        BY <2>1, <3>3 DEF Cells
      <3>5. AcceptedTop \in 1..RpnDepth /\ (AcceptedTop > 1 => AcceptedTop - 1 \in 0..RpnDepth) /\ 1 \in Nat
        BY <2>1, <2>3, RpnConstants
      <3> QED
        BY <2>1, <3>1, <3>4, <3>5, DroppedInRange
    <2> QED
      BY <2>2, <2>3
  <1> QED
    BY <1>1, <1>2, HomeKeeps

LEMMA EnterKeeps == ASSUME EdInv, RpnEnter PROVE EdInv'
  <1>1. ed_page = "rpn" /\ OnRpnPage /\ UNCHANGED <<ed_selection, ed_scroll>>
    BY DEF RpnEnter, OnRpnPage
  <1>2. /\ ed_stack' \in Cells /\ ed_top' \in 0..RpnDepth /\ ed_top' >= ed_top /\ ed_text' \in Nat \cup {NoText}
        /\ ed_editing' \in BOOLEAN /\ ~ed_editing'
    <2>1. CASE ed_editing
      BY <2>1, AcceptKeeps DEF RpnEnter
    <2>2. CASE ~ed_editing
      <3>1. ed_text' = ed_text /\ ed_editing' = ed_editing
        BY <2>2 DEF RpnEnter
      <3>2. ed_text \in Nat \cup {NoText} /\ ed_editing \in BOOLEAN /\ ed_stack \in Cells /\ ed_top \in 0..RpnDepth
        BY DEF EdInv, EdTypeOK, Cells
      <3>3. ed_stack[0] \in RpnTexts
        BY <3>2, RpnConstants DEF Cells
      <3>4. CASE UNCHANGED <<ed_stack, ed_top>>
        BY <2>2, <3>1, <3>2, <3>4
      <3>5. CASE ed_stack' = PushedCells(ed_stack, ed_top, ed_stack[0]) /\ ed_top' = PushedTop(ed_top)
        <4>1. ed_stack' \in Cells /\ ed_top' \in 1..RpnDepth /\ ed_top' >= ed_top
          BY <3>2, <3>3, <3>5, PushedInRange
        <4> QED
          BY <2>2, <3>1, <3>2, <4>1
      <3> QED
        BY <2>2, <3>4, <3>5 DEF RpnEnter
    <2> QED
      BY <2>1, <2>2 DEF EdInv, EdTypeOK
  <1>3. View(ed_selection', ed_scroll', ed_top')
    <2>1. ed_top' \in Nat /\ ed_selection' = ed_selection /\ ed_scroll' = ed_scroll
      BY <1>1, <1>2, RpnConstants
    <2> QED
      BY <1>1, <1>2, <2>1, RpnView, Views
  <1> QED
    BY <1>1, <1>2, <1>3, CalculatorKeeps

LEMMA DropKeeps == ASSUME EdInv, RpnDrop PROVE EdInv'
  <1> DEFINE level == IF ed_selection > 0 THEN ed_selection ELSE 0
             t == IF ed_selection >= ed_top - 1 THEN (ed_top - 1) - 1 ELSE ed_selection
  <1>1. /\ ed_page = "rpn" /\ OnRpnPage /\ ed_top > 0 /\ ed_top' = ed_top - 1 /\ ed_editing' = ed_editing /\ ~ed_editing
        /\ ed_text' = ed_text /\ ed_stack' = DroppedCells(ed_stack, ed_top, level)
        /\ ed_selection' = t /\ ed_scroll' = Back(t, ed_scroll)
    BY DEF RpnDrop, OnRpnPage, Back
  <1>2. ed_stack \in Cells /\ ed_text \in Nat \cup {NoText} /\ ed_editing \in BOOLEAN
    BY DEF EdInv, EdTypeOK, Cells
  <1>3. /\ View(ed_selection, ed_scroll, ed_top) /\ ed_top \in 1..RpnDepth /\ ed_top \in Nat /\ ed_selection \in Int
        /\ ed_top - 1 \in 0..RpnDepth
    BY <1>1, RpnView, ViewIsVisible, RpnConstants
  <1>4. ed_stack' \in Cells /\ ed_top' \in 0..RpnDepth
    <2>1. level \in Nat
      BY <1>3
    <2> HIDE DEF level
    <2> QED
      BY <1>1, <1>2, <1>3, <2>1, DroppedInRange
  <1>5. View(ed_selection', ed_scroll', ed_top')
    BY <1>1, <1>3, Views
  <1> HIDE DEF t, level
  <1> QED
    BY <1>1, <1>2, <1>4, <1>5, CalculatorKeeps

LEMMA PopKeeps == ASSUME EdInv, RpnPop PROVE EdInv'
  <1>1. /\ ed_page = "status" /\ ed_page' = "status" /\ ed_top > 0 /\ ed_top' = ed_top - 1
        /\ ed_stack' = DroppedCells(ed_stack, ed_top, 0)
        /\ UNCHANGED <<ed_selection, ed_scroll, ed_text, ed_values, ed_saved, ed_tools, ed_typed, ed_editing, ed_files>>
    BY DEF RpnPop, ed_form
  <1>2. ed_stack' \in Cells /\ ed_top' \in 0..RpnDepth
    <2>1. ed_stack \in Cells /\ ed_top \in 0..RpnDepth /\ ed_top > 0
      BY <1>1 DEF EdInv, EdTypeOK, Cells
    <2>2. ed_top \in 1..RpnDepth /\ 0 \in Nat /\ ed_top - 1 \in 0..RpnDepth
      BY <2>1, RpnConstants
    <2> QED
      BY <1>1, <2>1, <2>2, DroppedInRange
  <1>3. EdTypeOK'
    BY <1>1, <1>2 DEF EdInv, EdTypeOK, Cells
  <1>4. SelectionVisible'
    BY <1>1 DEF SelectionVisible, IsList
  <1>5. ToolDataAsTyped'
    BY <1>1 DEF EdInv, ToolDataAsTyped
  <1>6. BufferIsTyped'
    BY <1>1 DEF EdInv, BufferIsTyped
  <1> QED
    BY <1>3, <1>4, <1>5, <1>6 DEF EdInv

LEMMA EdInitInv == EdInit => EdInv
  <1> SUFFICES ASSUME EdInit PROVE EdInv
    OBVIOUS
  <1>1. ed_tools \in [ToolEntries -> Nat]
    <2>1. EdLengths \subseteq Nat /\ {0} \subseteq Nat
      BY EdAssumption
    <2>2. ed_tools \in [ToolEntries -> EdLengths] \/ ed_tools \in [ToolEntries -> {0}]
      BY DEF EdInit
    <2> QED
      BY <2>1, <2>2
  <1>2. \A e \in ToolEntries : ToolText(ed_tools[e]) \in Int
    BY <1>1, ToolTexts DEF NoText
  <1>3. ed_typed \in [form : [FormNumbers -> Int], tools : [ToolEntries -> Int]]
    <2>1. ed_typed = [form |-> ed_saved, tools |-> [i \in ToolEntries |-> ToolText(ed_tools[i])]]
      BY DEF EdInit
    <2>2. ed_saved \in [FormNumbers -> Int]
      BY DEF EdInit
    <2>3. [i \in ToolEntries |-> ToolText(ed_tools[i])] \in [ToolEntries -> Int]
      BY <1>2
    <2> QED
      BY <2>1, <2>2, <2>3
  <1>4. ed_stack \in [0..RpnDepth - 1 -> RpnTexts] /\ ed_top \in 0..RpnDepth
    BY RpnConstants DEF EdInit
  <1>5. ed_saved \in [FormNumbers -> Nat] /\ ed_values \in [FormNumbers -> [value : Nat, valid : BOOLEAN]]
    BY DEF EdInit
  <1>6. ed_page = "status" /\ ed_selection = 0 /\ ed_scroll = 0 /\ ed_text = NoText /\ ed_files = 0
    BY DEF EdInit
  <1>7. ed_editing \in BOOLEAN /\ ~ed_editing
    BY Zenon DEF EdInit
  <1>8. EdTypeOK
    BY <1>1, <1>3, <1>4, <1>5, <1>6, <1>7 DEF EdTypeOK
  <1>9. ToolDataAsTyped
    BY DEF EdInit, ToolDataAsTyped
  <1>10. SelectionVisible /\ BufferIsTyped
    BY <1>6, <1>7 DEF SelectionVisible, IsList, BufferIsTyped
  <1> QED
    BY <1>8, <1>9, <1>10 DEF EdInv

LEMMA EdStepInv == EdInv /\ [EdNext]_edVars => EdInv'
  <1>1. ASSUME EdInv, EdStep PROVE EdInv'
    BY <1>1, OpenKeeps, LeaveKeeps, MenuKeeps, DirectoryKeeps, FormKeeps, EditKeeps, SaveFormKeeps, ToolsKeep,
       TurnKeeps, ButtonKeeps, KeyKeeps, OperateKeeps, EnterKeeps, DigitKeeps, DropKeeps, PopKeeps DEF EdStep
  <1>2. ASSUME EdInv, UNCHANGED edVars PROVE EdInv'
    BY <1>2 DEF edVars, ed_form, ed_rpn, EdInv, EdTypeOK, SelectionVisible, IsList, EndOf, ToolDataAsTyped,
       BufferIsTyped, ShownValue
  <1> QED
    BY <1>1, <1>2 DEF EdNext

\* The selected entry is one that can be selected and one of those on the
\* display, whatever list is turned through; lengths and diameters of all tools
\* are what was typed for them (UISupport.cpp).
THEOREM SelectedIsVisible == EdSpec => []EdInv
  BY EdInitInv, EdStepInv, PTL DEF EdSpec

\* A form saves what was typed last at each of its entries: its function is
\* called with the last entry selected, which is no number, so that no text is
\* left in the edit buffer (UISupport.cpp, UIFormPage).
THEOREM FormSavesWhatWasTyped == EdSpec => TypedIsSaved
  <1>1. ASSUME EdInv, [EdNext]_edVars, ed_saved' # ed_saved, NEW i \in FormNumbers, ed_typed.form[i] # NoText
        PROVE  ed_saved'[i] = ed_typed.form[i]
    <2>1. EdSaveForm
      BY <1>1 DEF EdNext, EdStep, edVars, ed_form, OpenPage, LeavePage, MenuLeft, MenuRight, DirectoryLeft,
         DirectoryRight, FormLeft, FormRight, EditValue, ToolLeft, ToolRight, EditTool, OnListPage, RpnLeft,
         RpnRight, RpnButton, RpnKey, RpnOperate, RpnEnter, RpnDeleteDigit, RpnDrop, RpnPop, OnRpnPage
    <2>2. i # ed_selection
      <3>1. ed_selection = Len(EdForm) - 1
        BY <2>1 DEF EdSaveForm
      <3>2. EdForm[Len(EdForm)] = "end" /\ EdForm[i + 1] = "number" /\ (Len(EdForm) - 1) + 1 = Len(EdForm)
        BY EdAssumption, Lists DEF FormNumbers
      <3> QED
        BY <3>1, <3>2
    <2>3. ed_typed.form[i] = ShownValue(i)
      BY <1>1, <2>1, <2>2 DEF EdInv, BufferIsTyped, EdSaveForm
    <2>4. ed_saved'[i] = ed_values[i].value
      BY <2>1 DEF EdSaveForm
    <2> QED
      BY <1>1, <2>3, <2>4 DEF ShownValue
  <1>2. EdInv /\ [EdNext]_edVars =>
          [ed_saved' # ed_saved =>
             \A i \in FormNumbers : ed_typed.form[i] # NoText => ed_saved'[i] = ed_typed.form[i]]_edVars
    BY <1>1
  <1> QED
    BY <1>2, SelectedIsVisible, PTL DEF EdSpec, TypedIsSaved

-----------------------------------------------------------------------------
(* The cells below the top, as the sequence that the page shows.           *)

Shown(c, t) == [i \in 1..t |-> c[i - 1]]

LEMMA ShownIsSeq ==
  ASSUME NEW c \in Cells, NEW t \in 0..RpnDepth
  PROVE  /\ Shown(c, t) \in Seq(RpnTexts) /\ Len(Shown(c, t)) = t /\ t \in Nat
         /\ \A i \in 1..t : Shown(c, t)[i] = c[i - 1] /\ c[i - 1] \in RpnTexts
  <1>1. \A i \in 1..t : c[i - 1] \in RpnTexts
    <2>1. ASSUME NEW i \in 1..t PROVE i - 1 \in 0..RpnDepth - 1
      BY RpnConstants
    <2> QED
      BY <2>1 DEF Cells
  <1>2. t \in Nat
    BY RpnConstants
  <1>3. Shown(c, t) \in [1..t -> RpnTexts]
    BY <1>1 DEF Shown
  <1>4. Shown(c, t) \in Seq(RpnTexts) /\ Len(Shown(c, t)) = t
    BY <1>2, <1>3, SeqDef
  <1> QED
    BY <1>1, <1>2, <1>4 DEF Shown

LEMMA PushIsPush ==
  ASSUME NEW c \in Cells, NEW t \in 0..RpnDepth, NEW v \in RpnTexts
  PROVE  CalculatorStack!RpnPushed(Shown(c, t), v) = Shown(PushedCells(c, t, v), PushedTop(t))
  <1> DEFINE s == Shown(c, t)
             d == PushedCells(c, t, v)
             n == PushedTop(t)
             u == <<v>> \o s
  <1>1. /\ s \in Seq(RpnTexts) /\ Len(s) = t /\ t \in Nat
        /\ \A i \in 1..t : s[i] = c[i - 1]
    BY ShownIsSeq
  <1>2. d \in Cells /\ n \in 0..RpnDepth /\ n \in 1..t + 1 /\ n = (IF t < RpnDepth THEN t + 1 ELSE RpnDepth)
    BY PushedInRange, RpnConstants DEF PushedTop
  <1>3. /\ Shown(d, n) \in Seq(RpnTexts) /\ Len(Shown(d, n)) = n
        /\ \A i \in 1..n : Shown(d, n)[i] = d[i - 1]
    BY <1>2, ShownIsSeq
  <1>4. /\ u \in Seq(RpnTexts) /\ Len(u) = t + 1 /\ \A i \in 1..t + 1 : u[i] = IF i = 1 THEN v ELSE c[i - 2]
    <2>1. <<v>> \in Seq(RpnTexts) /\ Len(<<v>>) = 1 /\ <<v>>[1] = v
      OBVIOUS
    <2> HIDE DEF s
    <2>2. /\ u \in Seq(RpnTexts) /\ Len(u) = 1 + t
          /\ \A i \in 1..1 + t : u[i] = IF i <= 1 THEN <<v>>[i] ELSE s[i - 1]
      BY <1>1, <2>1, ConcatProperties
    <2>3. ASSUME NEW i \in 1..t + 1 PROVE u[i] = IF i = 1 THEN v ELSE c[i - 2]
      <3>1. u[i] = IF i <= 1 THEN <<v>>[i] ELSE s[i - 1]
        BY <1>1, <2>2
      <3>2. i # 1 => i - 1 \in 1..t /\ (i - 1) - 1 = i - 2
        BY <1>1
      <3> HIDE DEF u
      <3> QED
        BY <1>1, <2>1, <3>1, <3>2
    <2> QED
      BY <1>1, <2>2, <2>3
  <1>5. CalculatorStack!RpnPushed(s, v) = SubSeq(u, 1, n)
    BY <1>1, <1>2 DEF CalculatorStack!RpnPushed
  <1> HIDE DEF s, n, u, d
  <1>6. /\ SubSeq(u, 1, n) \in Seq(RpnTexts) /\ Len(SubSeq(u, 1, n)) = n
        /\ \A i \in 1..n : SubSeq(u, 1, n)[i] = u[i]
    <2>1. \A i \in 1..n : u[i] \in RpnTexts
      BY <1>1, <1>2, <1>4, ElementOfSeq
    <2>2. n \in Nat /\ n >= 1 /\ 1 \in Int /\ n - 1 + 1 = n
      BY <1>1, <1>2
    <2>3. /\ SubSeq(u, 1, n) \in Seq(RpnTexts) /\ Len(SubSeq(u, 1, n)) = n - 1 + 1
          /\ \A i \in 1..n - 1 + 1 : SubSeq(u, 1, n)[i] = u[1 + i - 1]
      BY <2>1, <2>2, SubSeqProperties
    <2> QED
      BY <2>2, <2>3
  <1>7. ASSUME NEW i \in 1..n PROVE u[i] = d[i - 1]
    <2>1. i \in 1..t + 1 /\ i - 1 \in 0..RpnDepth - 1 /\ DOMAIN c = 0..RpnDepth - 1
      BY <1>1, <1>2, RpnConstants DEF Cells
    <2>2. d[i - 1] = IF i - 1 = 0 THEN v
                     ELSE IF i - 1 <= (IF t < RpnDepth THEN t ELSE RpnDepth - 1) THEN c[(i - 1) - 1] ELSE c[i - 1]
      BY <2>1 DEF d, PushedCells
    <2>3. i - 1 <= (IF t < RpnDepth THEN t ELSE RpnDepth - 1) /\ (i - 1) - 1 = i - 2
      BY <1>1, <1>2, RpnConstants
    <2> QED
      BY <1>4, <2>1, <2>2, <2>3
  <1> QED
    BY <1>3, <1>5, <1>6, <1>7, SeqEqual DEF s, n, d

LEMMA DropIsRemoval ==
  ASSUME NEW c \in Cells, NEW t \in 1..RpnDepth, NEW l \in 0..t - 1
  PROVE  RemoveAt(Shown(c, t), l + 1) = Shown(DroppedCells(c, t, l), t - 1)
  <1> DEFINE s == Shown(c, t)
             d == DroppedCells(c, t, l)
             a == SubSeq(s, 1, (l + 1) - 1)
             b == SubSeq(s, (l + 1) + 1, t)
  <1>0. t \in Nat /\ l \in Nat /\ t \in 0..RpnDepth /\ t - 1 \in 0..RpnDepth /\ DOMAIN c = 0..RpnDepth - 1
    BY RpnConstants DEF Cells
  <1>1. /\ s \in Seq(RpnTexts) /\ Len(s) = t
        /\ \A i \in 1..t : s[i] = c[i - 1] /\ s[i] \in RpnTexts
    BY <1>0, ShownIsSeq
  <1>2. d \in Cells
    BY <1>0, DroppedInRange
  <1>3. /\ Shown(d, t - 1) \in Seq(RpnTexts) /\ Len(Shown(d, t - 1)) = t - 1
        /\ \A i \in 1..t - 1 : Shown(d, t - 1)[i] = d[i - 1]
    BY <1>0, <1>2, ShownIsSeq
  <1>4. RemoveAt(s, l + 1) = a \o b
    BY <1>1 DEF RemoveAt
  <1> HIDE DEF s
  <1>5. a \in Seq(RpnTexts) /\ Len(a) = l /\ \A i \in 1..l : a[i] = c[i - 1]
    <2>1. (l + 1) - 1 = l /\ (\A i \in 1..l : s[i] \in RpnTexts) /\ l - 1 + 1 = l /\ 1 \in Int /\ l \in Int
      BY <1>0, <1>1
    <2>2. /\ SubSeq(s, 1, l) \in Seq(RpnTexts) /\ Len(SubSeq(s, 1, l)) = (IF 1 <= l THEN l - 1 + 1 ELSE 0)
          /\ \A i \in 1..l - 1 + 1 : SubSeq(s, 1, l)[i] = s[1 + i - 1]
      BY <2>1, SubSeqProperties
    <2>3. \A i \in 1..l : 1 + i - 1 = i /\ i \in 1..t
      BY <1>0
    <2>4. a = SubSeq(s, 1, l)
      BY <2>1
    <2> HIDE DEF a
    <2> QED
      BY <1>0, <1>1, <2>1, <2>2, <2>3, <2>4
  <1>6. b \in Seq(RpnTexts) /\ Len(b) = t - l - 1 /\ \A i \in 1..t - l - 1 : b[i] = c[l + i]
    <2>1. (l + 1) + 1 = l + 2 /\ (\A i \in l + 2..t : s[i] \in RpnTexts) /\ l + 2 \in Int /\ t \in Int
      BY <1>0, <1>1
    <2>2. /\ SubSeq(s, l + 2, t) \in Seq(RpnTexts)
          /\ Len(SubSeq(s, l + 2, t)) = (IF l + 2 <= t THEN t - (l + 2) + 1 ELSE 0)
          /\ \A i \in 1..t - (l + 2) + 1 : SubSeq(s, l + 2, t)[i] = s[l + 2 + i - 1]
      BY <2>1, SubSeqProperties
    <2>3. b = SubSeq(s, l + 2, t)
      BY <2>1
    <2>4. t - (l + 2) + 1 = t - l - 1 /\ (IF l + 2 <= t THEN t - (l + 2) + 1 ELSE 0) = t - l - 1
      BY <1>0
    <2>5. \A i \in 1..t - l - 1 : l + 2 + i - 1 \in 1..t /\ (l + 2 + i - 1) - 1 = l + i
      BY <1>0
    <2> HIDE DEF b
    <2> QED
      BY <1>1, <2>2, <2>3, <2>4, <2>5
  <1> HIDE DEF a, b, d
  <1>7. /\ a \o b \in Seq(RpnTexts) /\ Len(a \o b) = t - 1
        /\ \A i \in 1..t - 1 : (a \o b)[i] = IF i <= l THEN a[i] ELSE b[i - l]
    <2>1. /\ a \o b \in Seq(RpnTexts) /\ Len(a \o b) = Len(a) + Len(b)
          /\ \A i \in 1..Len(a) + Len(b) : (a \o b)[i] = IF i <= Len(a) THEN a[i] ELSE b[i - Len(a)]
      BY <1>5, <1>6, ConcatProperties
    <2>2. Len(a) + Len(b) = t - 1 /\ Len(a) = l
      BY <1>0, <1>5, <1>6
    <2> QED
      BY <2>1, <2>2
  <1>8. ASSUME NEW i \in 1..t - 1 PROVE (a \o b)[i] = d[i - 1]
    <2>1. i - 1 \in 0..RpnDepth - 1 /\ i - 1 < t - 1 /\ (i - 1) + 1 = i /\ (l <= i - 1 <=> ~(i <= l))
      BY <1>0, RpnConstants
    <2>2. d[i - 1] = IF l <= i - 1 /\ i - 1 < t - 1 THEN c[(i - 1) + 1] ELSE c[i - 1]
      BY <1>0, <2>1 DEF d, DroppedCells
    <2>3. CASE i <= l
      <3>1. i \in 1..l
        BY <1>0, <2>3
      <3> QED
        BY <1>5, <1>7, <2>1, <2>2, <2>3, <3>1
    <2>4. CASE ~(i <= l)
      <3>1. i - l \in 1..t - l - 1 /\ l + (i - l) = i
        BY <1>0, <2>4
      <3> QED
        BY <1>6, <1>7, <2>1, <2>2, <2>4, <3>1
    <2> QED
      BY <2>3, <2>4
  <1>9. a \o b = Shown(d, t - 1)
    <2>1. Len(a \o b) = Len(Shown(d, t - 1)) /\ \A i \in 1..Len(a \o b) : (a \o b)[i] = Shown(d, t - 1)[i]
      BY <1>3, <1>7, <1>8
    <2> QED
      BY <1>3, <1>7, <2>1, SeqEqual
  <1> QED
    BY <1>4, <1>9 DEF s, d

LEMMA OperationIsOperation ==
  ASSUME NEW c \in Cells, NEW t \in 2..RpnDepth, NEW v \in Results(c[1], c[0])
  PROVE  Shown(DroppedCells([c EXCEPT ![0] = v], t, 1), t - 1) \in CalculatorStack!RpnOperated(Shown(c, t))
  <1> DEFINE e == [c EXCEPT ![0] = v]
             s == Shown(c, t)
             r == Shown(e, t)
  <1>0. t \in Nat /\ t \in 1..RpnDepth /\ t \in 0..RpnDepth /\ 1 \in 0..t - 1 /\ 1 + 1 = 2 /\ t >= 2
    BY RpnConstants
  <1>1. v \in RpnTexts /\ e \in Cells /\ e[0] = v /\ \A i \in 0..RpnDepth - 1 : i # 0 => e[i] = c[i]
    <2>1. c[0] \in RpnTexts /\ c[1] \in RpnTexts
      BY RpnConstants DEF Cells
    <2>2. v \in RpnTexts
      BY <2>1, ResultsInRange
    <2> QED
      BY <2>2, RpnConstants DEF Cells
  <1> HIDE DEF e
  <1>2. s \in Seq(RpnTexts) /\ Len(s) = t /\ \A i \in 1..t : s[i] = c[i - 1] /\ s[i] \in RpnTexts
    BY <1>0, ShownIsSeq
  <1>3. r \in Seq(RpnTexts) /\ Len(r) = t /\ \A i \in 1..t : r[i] = e[i - 1] /\ r[i] \in RpnTexts
    BY <1>0, <1>1, ShownIsSeq
  <1>4. RemoveAt(r, 2) = Shown(DroppedCells(e, t, 1), t - 1)
    <2>1. RemoveAt(r, 1 + 1) = Shown(DroppedCells(e, t, 1), t - 1)
      BY <1>0, <1>1, DropIsRemoval
    <2> QED
      BY <1>0, <2>1
  <1> HIDE DEF s, r
  <1>5. RemoveAt(r, 2) = SubSeq(r, 1, 1) \o SubSeq(r, 3, t)
    BY <1>3 DEF RemoveAt
  <1>6. SubSeq(r, 1, 1) = <<v>>
    <2>1. r[1] = v /\ \A i \in 1..1 : r[i] \in RpnTexts
      BY <1>0, <1>1, <1>3
    <2>2. SubSeq(r, 1, 1) \in Seq(RpnTexts) /\ Len(SubSeq(r, 1, 1)) = 1 /\ SubSeq(r, 1, 1)[1] = r[1]
      BY <2>1, SubSeqProperties
    <2>3. <<v>> \in Seq(RpnTexts) /\ Len(<<v>>) = 1 /\ <<v>>[1] = v
      BY <1>1
    <2>4. \A i \in 1..Len(SubSeq(r, 1, 1)) : SubSeq(r, 1, 1)[i] = <<v>>[i]
      BY <2>1, <2>2, <2>3
    <2> QED
      BY <2>2, <2>3, <2>4, SeqEqual
  <1>7. SubSeq(r, 3, t) = SubSeq(s, 3, t)
    <2>1. \A i \in 3..t : i \in 1..t /\ r[i] = s[i] /\ r[i] \in RpnTexts /\ s[i] \in RpnTexts
      <3>1. ASSUME NEW i \in 3..t PROVE i \in 1..t /\ i - 1 # 0 /\ i - 1 \in 0..RpnDepth - 1
        BY <1>0, RpnConstants
      <3> QED
        BY <1>1, <1>2, <1>3, <3>1
    <2>2. 3 \in Int /\ t \in Int
      BY <1>0
    <2>3. /\ SubSeq(r, 3, t) \in Seq(RpnTexts) /\ Len(SubSeq(r, 3, t)) = (IF 3 <= t THEN t - 3 + 1 ELSE 0)
          /\ \A i \in 1..t - 3 + 1 : SubSeq(r, 3, t)[i] = r[3 + i - 1]
      BY <2>1, <2>2, SubSeqProperties
    <2>4. /\ SubSeq(s, 3, t) \in Seq(RpnTexts) /\ Len(SubSeq(s, 3, t)) = (IF 3 <= t THEN t - 3 + 1 ELSE 0)
          /\ \A i \in 1..t - 3 + 1 : SubSeq(s, 3, t)[i] = s[3 + i - 1]
      BY <2>1, <2>2, SubSeqProperties
    <2>5. /\ (IF 3 <= t THEN t - 3 + 1 ELSE 0) = t - 3 + 1
          /\ \A i \in 1..t - 3 + 1 : 3 + i - 1 \in 3..t
      BY <1>0
    <2>6. \A i \in 1..Len(SubSeq(r, 3, t)) : SubSeq(r, 3, t)[i] = SubSeq(s, 3, t)[i]
      BY <2>1, <2>3, <2>4, <2>5
    <2> QED
      BY <2>3, <2>4, <2>6, SeqEqual
  <1>8. s[2] = c[1] /\ s[1] = c[0]
    BY <1>0, <1>2
  <1>9. v \in {CalculatorStack!RpnAdd(s[2], s[1]), CalculatorStack!RpnSubtract(s[2], s[1])}
    BY <1>8 DEF Results, CalculatorStack!RpnAdd, CalculatorStack!RpnSubtract
  <1>10. <<v>> \o SubSeq(s, 3, t) \in CalculatorStack!RpnOperated(s)
    BY <1>0, <1>2, <1>9 DEF CalculatorStack!RpnOperated
  <1> QED
    BY <1>4, <1>5, <1>6, <1>7, <1>10 DEF e, s

LEMMA SingleIsOperated ==
  ASSUME NEW c \in Cells, NEW v \in RpnTexts
  PROVE  Shown([c EXCEPT ![0] = v], 1) \in CalculatorStack!RpnOperated(Shown(c, 1))
  <1>1. [c EXCEPT ![0] = v] \in Cells /\ [c EXCEPT ![0] = v][0] = v /\ 1 \in 0..RpnDepth
    BY RpnConstants DEF Cells
  <1> DEFINE e == [c EXCEPT ![0] = v]
  <1> HIDE DEF e
  <1>2. Shown(e, 1) \in Seq(RpnTexts) /\ Len(Shown(e, 1)) = 1 /\ Shown(e, 1)[1] = v
    <2>1. e \in Cells /\ e[0] = v /\ 1 \in 1..1 /\ 1 - 1 = 0
      BY <1>1 DEF e
    <2>2. /\ Shown(e, 1) \in Seq(RpnTexts) /\ Len(Shown(e, 1)) = 1
          /\ \A i \in 1..1 : Shown(e, 1)[i] = e[i - 1]
      BY <1>1, <2>1, ShownIsSeq
    <2>3. Shown(e, 1)[1] = e[1 - 1]
      BY <2>1, <2>2
    <2> QED
      BY <2>1, <2>2, <2>3
  <1>3. <<v>> \in Seq(RpnTexts) /\ Len(<<v>>) = 1 /\ <<v>>[1] = v
    OBVIOUS
  <1>4. Shown(e, 1) = <<v>>
    <2>1. \A i \in 1..Len(Shown(e, 1)) : Shown(e, 1)[i] = <<v>>[i]
      BY <1>2, <1>3
    <2> QED
      BY <1>2, <1>3, <2>1, SeqEqual
  <1>5. Len(Shown(c, 1)) = 1
    BY <1>1, ShownIsSeq
  <1> QED
    BY <1>4, <1>5 DEF e, CalculatorStack!RpnOperated, CalculatorStack!RpnValues, RpnTexts

\* What the number that is being typed makes of the stack.
LEMMA AcceptedIsPushed ==
  ASSUME EdInv
  PROVE  Shown(AcceptedCells, AcceptedTop) =
           IF Typed THEN CalculatorStack!RpnPushed(RpnShown, ed_text) ELSE RpnShown
  <1>1. RpnShown = Shown(ed_stack, ed_top)
    BY DEF RpnShown, Shown
  <1>2. ed_stack \in Cells /\ ed_top \in 0..RpnDepth /\ (Typed => ed_text \in RpnTexts)
    BY AcceptedInRange
  <1> QED
    BY <1>1, <1>2, PushIsPush DEF AcceptedCells, AcceptedTop

LEMMA CalculatorSteps ==
  EdInv /\ [EdNext]_edVars => [CalculatorStack!RpnNext]_RpnShown
  <1> SUFFICES ASSUME EdInv, [EdNext]_edVars PROVE CalculatorStack!RpnNext \/ RpnShown' = RpnShown
    OBVIOUS
  <1>0. /\ RpnShown = Shown(ed_stack, ed_top) /\ RpnShown' = Shown(ed_stack', ed_top')
        /\ ed_stack \in Cells /\ ed_top \in 0..RpnDepth
        /\ CalculatorStack!RpnValues = RpnTexts
    BY AcceptedInRange DEF RpnShown, Shown, CalculatorStack!RpnValues, RpnTexts
  <1>1. CASE UNCHANGED <<ed_stack, ed_top>>
    BY <1>0, <1>1
  <1>2. ASSUME ed_stack' = PushedCells(ed_stack, ed_top, ed_stack[0]), ed_top' = PushedTop(ed_top)
        PROVE  CalculatorStack!RpnNext
    <2>1. ed_stack[0] \in RpnTexts
      BY <1>0, RpnConstants DEF Cells
    <2>2. RpnShown' = CalculatorStack!RpnPushed(RpnShown, ed_stack[0])
      BY <1>0, <1>2, <2>1, PushIsPush
    <2> QED
      BY <1>0, <2>1, <2>2 DEF CalculatorStack!RpnNext
  <1>3. ASSUME ed_stack' = AcceptedCells, ed_top' = AcceptedTop
        PROVE  CalculatorStack!RpnNext \/ RpnShown' = RpnShown
    <2>1. RpnShown' = IF Typed THEN CalculatorStack!RpnPushed(RpnShown, ed_text) ELSE RpnShown
      BY <1>0, <1>3, AcceptedIsPushed
    <2> QED
      BY <1>0, <2>1, AcceptedInRange DEF CalculatorStack!RpnNext
  <1>4. ASSUME NEW l \in 0..ed_top - 1, ed_stack' = DroppedCells(ed_stack, ed_top, l), ed_top' = ed_top - 1
        PROVE  CalculatorStack!RpnNext
    <2>1. ed_top \in 1..RpnDepth /\ l + 1 \in 1..ed_top
      BY <1>0, RpnConstants
    <2>2. RpnShown' = RemoveAt(RpnShown, l + 1)
      BY <1>0, <1>4, <2>1, DropIsRemoval
    <2>3. DOMAIN RpnShown = 1..ed_top
      BY DEF RpnShown
    <2>4. \E i \in DOMAIN RpnShown : RpnShown' = RemoveAt(RpnShown, i)
      BY <2>1, <2>2, <2>3, Zenon
    <2> QED
      BY <2>4 DEF CalculatorStack!RpnNext, CalculatorStack!RemoveAt, RemoveAt
  <1>5. ASSUME RpnOperate PROVE CalculatorStack!RpnNext \/ RpnShown' = RpnShown
    <2>1. AcceptedCells \in Cells /\ AcceptedTop \in 0..RpnDepth /\ (Typed => ed_text \in RpnTexts)
      BY AcceptedInRange
    <2>2. CASE AcceptedTop = 0
      BY <1>3, <1>5, <2>2 DEF RpnOperate
    <2>3. CASE AcceptedTop # 0
      <3>1. PICK v \in Results(AcceptedCells[1], AcceptedCells[0]) :
              IF AcceptedTop > 1
              THEN ed_stack' = DroppedCells([AcceptedCells EXCEPT ![0] = v], AcceptedTop, 1) /\ ed_top' = AcceptedTop - 1
              ELSE ed_stack' = [AcceptedCells EXCEPT ![0] = v] /\ ed_top' = AcceptedTop
        BY <1>5, <2>3 DEF RpnOperate
      <3>2. v \in RpnTexts
        <4>1. AcceptedCells[0] \in RpnTexts /\ AcceptedCells[1] \in RpnTexts
          BY <2>1, RpnConstants DEF Cells
        <4> QED
          BY <4>1, ResultsInRange
      <3>3. RpnShown' \in CalculatorStack!RpnOperated(Shown(AcceptedCells, AcceptedTop))
        <4>1. CASE AcceptedTop > 1
          <5>1. AcceptedTop \in 2..RpnDepth
            BY <2>1, <4>1, RpnConstants
          <5> QED
            BY <1>0, <2>1, <3>1, <4>1, <5>1, OperationIsOperation
        <4>2. CASE ~(AcceptedTop > 1)
          <5>1. AcceptedTop = 1
            BY <2>1, <2>3, <4>2, RpnConstants
          <5> QED
            BY <1>0, <2>1, <3>1, <3>2, <4>2, <5>1, SingleIsOperated
        <4> QED
          BY <4>1, <4>2
      <3> QED
        BY <1>0, <2>1, <3>3, AcceptedIsPushed DEF CalculatorStack!RpnNext
    <2> QED
      BY <2>2, <2>3
  <1>6. CASE RpnLeft \/ RpnRight
    BY <1>3, <1>6 DEF RpnLeft, RpnRight, RpnAccept
  <1>7. CASE RpnEnter
    BY <1>1, <1>2, <1>3, <1>7 DEF RpnEnter, RpnAccept
  <1>8. CASE RpnDrop
    <2>1. ed_page = "rpn" /\ ed_top > 0
      BY <1>8 DEF RpnDrop, OnRpnPage
    <2>2. View(ed_selection, ed_scroll, ed_top) /\ ed_top \in Nat
      BY <2>1, RpnView
    <2>3. (IF ed_selection > 0 THEN ed_selection ELSE 0) \in 0..ed_top - 1
      BY <2>1, <2>2 DEF View
    <2> QED
      BY <1>4, <1>8, <2>3 DEF RpnDrop
  <1>9. CASE RpnPop
    <2>1. 0 \in 0..ed_top - 1
      BY <1>0, <1>9, RpnConstants DEF RpnPop
    <2> QED
      BY <1>4, <1>9, <2>1 DEF RpnPop
  <1>10. CASE \/ \E page \in EdPages : OpenPage(page)
              \/ LeavePage \/ MenuLeft \/ MenuRight \/ DirectoryLeft \/ DirectoryRight \/ FormLeft \/ FormRight
              \/ EditValue \/ EdSaveForm \/ ToolLeft \/ ToolRight \/ EditTool
              \/ RpnButton \/ RpnKey \/ RpnDeleteDigit \/ UNCHANGED edVars
    BY <1>1, <1>10 DEF OpenPage, LeavePage, MenuLeft, MenuRight, DirectoryLeft, DirectoryRight, FormLeft,
       FormRight, EditValue, EdSaveForm, ToolLeft, ToolRight, EditTool, OnListPage, RpnButton, RpnKey,
       RpnDeleteDigit, edVars, ed_rpn
  <1> QED
    BY <1>5, <1>6, <1>7, <1>8, <1>9, <1>10 DEF EdNext, EdStep

\* The list of the calculator is a stack of numbers, whatever the page does with
\* the cells of its array (UISupport.cpp, UIRPNPage).
THEOREM CalculatorIsStack == EdSpec => CalculatorIsAStack
  <1>1. EdInit => CalculatorStack!RpnInit
    <2> SUFFICES ASSUME EdInit PROVE RpnShown = <<>>
      BY DEF CalculatorStack!RpnInit
    <2>1. ed_top = 0 /\ ed_stack \in Cells
      BY EdInitInv DEF EdInit, EdInv, EdTypeOK, Cells
    <2>2. RpnShown = Shown(ed_stack, 0) /\ 0 \in 0..RpnDepth
      BY <2>1, RpnConstants DEF RpnShown, Shown
    <2>3. RpnShown \in Seq(RpnTexts) /\ Len(RpnShown) = 0
      BY <2>1, <2>2, ShownIsSeq
    <2> QED
      BY <2>3, EmptySeq
  <1> QED
    BY <1>1, CalculatorSteps, SelectedIsVisible, PTL DEF EdSpec, CalculatorIsAStack, CalculatorStack!RpnSpec

\* What is selected is visible and no separator, what was typed is stored and
\* saved, and the calculator's list is a stack (UISupport.cpp).
THEOREM EditorsAreSafe == EdSpec => EdSafe
  BY SelectedIsVisible, FormSavesWhatWasTyped, CalculatorIsStack, PTL DEF EdSafe

-----------------------------------------------------------------------------
(* Input.                                                                  *)

KeyStates == {"IDLE", "PRESSED", "HOLD", "RELEASED"}
ListedKeys == [code : KeyCodes \cup {NoKey.code}, changed : BOOLEAN, state : KeyStates]

\* One step of a key: it is only ever reported as pressed coming from IDLE, an
\* open key moves on, a closed one stays until it was seen open.
LEMMA KeyStep ==
  ASSUME NEW key \in ListedKeys, NEW button \in BOOLEAN, NEW next \in NextKeyState(key, button)
  PROVE  /\ next \in ListedKeys /\ next.code = key.code
         /\ next.changed /\ next.state = "PRESSED" => key.state = "IDLE"
         /\ key.state = "IDLE" /\ button => next.changed /\ next.state = "PRESSED"
         /\ key.state \in {"PRESSED", "HOLD"} /\ button => next.state \in {"PRESSED", "HOLD"}
         /\ key.state = "PRESSED" /\ ~button => next.state \in {"HOLD", "RELEASED"}
         /\ key.state = "HOLD" /\ ~button => next.state = "RELEASED"
         /\ key.state = "RELEASED" => next.state = "IDLE"
  BY DEF NextKeyState, ListedKeys, KeyStates

LEMMA ScannedKey ==
  ASSUME InTypeOK, NEW i \in 1..LIST_MAX, NEW next \in Scanned(i)
  PROVE  /\ next \in ListedKeys
         /\ i \in Listed => next \in NextKeyState(in_keys[i], in_keys[i].code \in in_down)
         /\ i \notin Listed =>
              next = NoKey \/ (next.code \in in_down /\ next.changed /\ next.state = "PRESSED")
  <1>1. in_keys[i] \in ListedKeys
    BY DEF InTypeOK, ListedKeys, KeyStates
  <1>2. NoKey \in ListedKeys
    BY DEF NoKey, ListedKeys, KeyStates
  <1>3. CASE i \in Listed
    <2>1. next \in NextKeyState(in_keys[i], in_keys[i].code \in in_down)
      BY <1>3 DEF Scanned
    <2> DEFINE button == in_keys[i].code \in in_down
    <2>2. button \in BOOLEAN
      OBVIOUS
    <2>3. next \in NextKeyState(in_keys[i], button)
      BY <2>1
    <2> HIDE DEF button
    <2>4. next \in ListedKeys
      BY <1>1, <2>2, <2>3, KeyStep
    <2> QED
      BY <1>3, <2>1, <2>4
  <1>4. CASE i \notin Listed /\ next # NoKey
    <2>1. PICK key \in Taking(i) : next \in NextKeyState([NoKey EXCEPT !.code = key], TRUE)
      BY <1>4 DEF Scanned
    <2>2. key \in in_down /\ key \in KeyCodes
      BY DEF Taking, New, InTypeOK
    <2>3. [NoKey EXCEPT !.code = key] \in ListedKeys
      BY <2>2, <1>2 DEF NoKey, ListedKeys, KeyStates
    <2>4. [NoKey EXCEPT !.code = key].state = "IDLE" /\ [NoKey EXCEPT !.code = key].code = key
      BY DEF NoKey
    <2> DEFINE fresh == [NoKey EXCEPT !.code = key]
    <2>5. fresh \in ListedKeys /\ fresh.state = "IDLE" /\ fresh.code = key
      BY <2>3, <2>4
    <2>6. next \in NextKeyState(fresh, TRUE)
      BY <2>1
    <2> HIDE DEF fresh
    <2>7. next \in ListedKeys /\ next.code = key /\ next.changed /\ next.state = "PRESSED"
      BY <2>5, <2>6, KeyStep
    <2> QED
      BY <1>4, <2>2, <2>7
  <1> QED
    BY <1>2, <1>3, <1>4

\* An empty list takes the least key that is down to its first place.
LEMMA LeastOf ==
  ASSUME NEW S, S \subseteq Nat, S # {}
  PROVE  \E x \in S : \A y \in S : x <= y
  <1> DEFINE R == {p \in Nat \X Nat : p[1] < p[2]}
  <1>1. IsWellFoundedOn(R, Nat)
    BY NatLessThanWellFounded DEF OpToRel
  <1>2. \A x, y \in Nat : x < y => <<x, y>> \in R
    OBVIOUS
  <1> HIDE DEF R
  <1>3. \E x \in S : \A y \in S : ~(<<y, x>> \in R)
    BY <1>1, WFMin
  <1>4. ASSUME NEW x \in S, NEW y \in S, ~(<<y, x>> \in R) PROVE x <= y
    BY <1>2, <1>4
  <1> QED
    BY <1>3, <1>4

LEMMA FirstOfEmptyList ==
  ASSUME InTypeOK, Listed = {}, in_down # {}, NEW next \in Scanned(1)
  PROVE  next.code \in in_down /\ next.changed /\ next.state = "PRESSED"
  <1>1. New = in_down /\ New \subseteq Nat /\ New # {}
    BY InAssumption DEF New, InTypeOK
  <1>2. PICK key \in New : \A other \in New : key <= other
    BY <1>1, LeastOf
  <1>3. {other \in New : other < key} = {}
    <2>1. ASSUME NEW other \in New PROVE ~(other < key)
      <3>1. other \in Nat /\ key \in Nat /\ key <= other
        BY <1>1, <1>2
      <3> QED
        BY <3>1
    <2> QED
      BY <2>1
  <1>4. {i \in Free : i < 1} = {}
    BY InAssumption DEF Free
  <1>5. Rank(New, key) = Rank(Free, 1)
    BY <1>3, <1>4 DEF Rank
  <1>6. key \in Taking(1)
    BY <1>5 DEF Taking
  <1>7. 1 \in 1..LIST_MAX
    BY InAssumption
  <1>8. PICK taken \in Taking(1) : next \in NextKeyState([NoKey EXCEPT !.code = taken], TRUE)
    BY <1>6 DEF Scanned
  <1>9. taken \in in_down /\ taken \in KeyCodes
    BY DEF Taking, New, InTypeOK
  <1> DEFINE fresh == [NoKey EXCEPT !.code = taken]
  <1>10. fresh \in ListedKeys /\ fresh.state = "IDLE" /\ fresh.code = taken
    BY <1>9 DEF NoKey, ListedKeys, KeyStates
  <1>11. next \in NextKeyState(fresh, TRUE)
    BY <1>8
  <1> HIDE DEF fresh
  <1> QED
    BY <1>9, <1>10, <1>11, KeyStep

InputsTaken ==
  KeyReportedOnce /\ LoneKeyReported /\ ShiftedOnce /\ PressHandledOnce /\ InInv

LEMMA InputsStartSound == InInit => InputsTaken
  <1> SUFFICES ASSUME InInit PROVE InputsTaken
    OBVIOUS
  <1>1. NoKey \in ListedKeys /\ NoKey.state = "IDLE"
    BY DEF NoKey, ListedKeys, KeyStates
  <1>2. in_keys \in [1..LIST_MAX -> ListedKeys]
    BY <1>1 DEF InInit
  <1>3. in_seen \in [twice : BOOLEAN, missed : BOOLEAN, quiet : 0..3, shifted : Nat,
                    handled : [Buttons -> 0..2], waited : BOOLEAN]
    BY DEF InInit
  <1>4. in_turned \in 0..3
    BY DEF InInit
  <1>5. InTypeOK
    <2>1. /\ in_phase \in Nat /\ in_wait \in {NoHandler, "key"} \cup Buttons
          /\ in_down \subseteq KeyCodes /\ in_told \subseteq KeyCodes /\ in_shift \in BOOLEAN
      BY DEF InInit
    <2>2. in_encoder \in 0..3 /\ in_drift \in 0..7
      BY <1>4 DEF InInit
    <2>3. /\ in_pressed \subseteq Buttons /\ in_previous \subseteq Buttons
          /\ in_pins \subseteq ControlPins /\ in_previousPin \subseteq ControlPins /\ in_exec \subseteq ControlPins
      BY DEF InInit
    <2> QED
      BY <1>2, <1>3, <1>4, <2>1, <2>2, <2>3 DEF InTypeOK, ListedKeys, KeyStates
  <1>6. KeyReportedOnce /\ LoneKeyReported /\ ShiftedOnce /\ PressHandledOnce
    BY DEF InInit, KeyReportedOnce, LoneKeyReported, ShiftedOnce, PressHandledOnce
  <1>7. ToldIsFirst /\ ShiftIsUnused /\ HandledIsKept
    BY DEF InInit, ToldIsFirst, ShiftIsUnused, HandledIsKept
  <1>8. ListEmpties
    BY <1>1 DEF InInit, ListEmpties
  <1> QED
    BY <1>5, <1>6, <1>7, <1>8 DEF InputsTaken, InInv

\* The list after a scan.
LEMMA ScanKeepsList ==
  ASSUME InputsTaken, NEW keys \in UpdatedLists
  PROVE  /\ keys \in [1..LIST_MAX -> ListedKeys]
         /\ \A key \in in_told \cap in_down : keys[1].code = key /\ keys[1].state \in {"PRESSED", "HOLD"}
         /\ GotKey(keys) # NoKey.code =>
              in_told = {} /\ keys[1].code = GotKey(keys) /\ keys[1].state = "PRESSED"
         /\ in_down = {} =>
              \A i \in 1..LIST_MAX :
                /\ keys[i].state # "PRESSED"
                /\ keys[i].state = "HOLD" => in_keys[i].state = "PRESSED"
                /\ keys[i].state = "RELEASED" => in_keys[i].state \in {"PRESSED", "HOLD"}
         /\ in_down # {} /\ in_seen.quiet = 3 => GotKey(keys) # NoKey.code
  <1>1. InTypeOK /\ ToldIsFirst /\ ListEmpties /\ 1 \in 1..LIST_MAX
    BY InAssumption DEF InputsTaken, InInv
  <1>2. \A i \in 1..LIST_MAX : keys[i] \in Scanned(i)
    BY DEF UpdatedLists
  <1>3. keys \in [1..LIST_MAX -> ListedKeys]
    BY <1>1, <1>2, ScannedKey DEF UpdatedLists
  <1>4. ASSUME NEW key \in in_told \cap in_down
        PROVE  keys[1].code = key /\ keys[1].state \in {"PRESSED", "HOLD"}
    <2>1. in_keys[1] \in ListedKeys /\ in_keys[1].code = key /\ in_keys[1].state \in {"PRESSED", "HOLD"}
      BY <1>1 DEF InTypeOK, ListedKeys, KeyStates, ToldIsFirst
    <2>2. 1 \in Listed
      BY <1>1, <2>1 DEF Listed
    <2> DEFINE button == in_keys[1].code \in in_down
    <2>3. button \in BOOLEAN /\ button
      BY <2>1
    <2>4. keys[1] \in NextKeyState(in_keys[1], button)
      BY <1>1, <1>2, <2>2, ScannedKey
    <2> HIDE DEF button
    <2>5. button \in BOOLEAN
      BY <2>3
    <2>6. keys[1].code = in_keys[1].code
      BY <2>1, <2>4, <2>5, KeyStep
    <2>7. in_keys[1].state \in {"PRESSED", "HOLD"} /\ button => keys[1].state \in {"PRESSED", "HOLD"}
      BY <2>1, <2>4, <2>5, KeyStep
    <2> QED
      BY <2>1, <2>3, <2>6, <2>7
  <1>5. ASSUME GotKey(keys) # NoKey.code
        PROVE  in_told = {} /\ keys[1].code = GotKey(keys) /\ keys[1].state = "PRESSED"
    <2>1. keys[1].changed /\ keys[1].state = "PRESSED" /\ keys[1].code = GotKey(keys)
      BY <1>5 DEF GotKey
    <2>2. 1 \notin Listed
      <3> SUFFICES ASSUME 1 \in Listed PROVE FALSE
        OBVIOUS
      <3> DEFINE button == in_keys[1].code \in in_down
      <3>1. in_keys[1] \in ListedKeys /\ in_keys[1].state # "IDLE"
        BY <1>1 DEF InTypeOK, ListedKeys, KeyStates, Listed
      <3>2. keys[1] \in NextKeyState(in_keys[1], button) /\ button \in BOOLEAN
        BY <1>1, <1>2, ScannedKey
      <3> HIDE DEF button
      <3> QED
        BY <2>1, <3>1, <3>2, KeyStep
    <2> QED
      BY <1>1, <2>1, <2>2 DEF Listed, ToldIsFirst
  <1>6. ASSUME in_down = {}, NEW i \in 1..LIST_MAX
        PROVE  /\ keys[i].state # "PRESSED"
               /\ keys[i].state = "HOLD" => in_keys[i].state = "PRESSED"
               /\ keys[i].state = "RELEASED" => in_keys[i].state \in {"PRESSED", "HOLD"}
    <2>1. CASE i \in Listed
      <3>1. in_keys[i] \in ListedKeys /\ in_keys[i].state # "IDLE"
        BY <1>1, <2>1 DEF InTypeOK, ListedKeys, KeyStates, Listed
      <3>2. in_keys[i].state \in {"PRESSED", "HOLD", "RELEASED"}
        BY <3>1 DEF ListedKeys, KeyStates
      <3>3. keys[i] \in NextKeyState(in_keys[i], FALSE)
        <4>1. (in_keys[i].code \in in_down) = FALSE
          BY <1>6
        <4>2. keys[i] \in NextKeyState(in_keys[i], in_keys[i].code \in in_down)
          BY <1>1, <1>2, <2>1, ScannedKey
        <4> QED
          BY <4>1, <4>2
      <3> QED
        BY <3>1, <3>2, <3>3, KeyStep
    <2>2. CASE i \notin Listed
      <3>1. keys[i] = NoKey
        BY <1>1, <1>2, <1>6, <2>2, ScannedKey
      <3> QED
        BY <3>1 DEF NoKey
    <2> QED
      BY <2>1, <2>2
  <1>7. ASSUME in_down # {}, in_seen.quiet = 3
        PROVE  GotKey(keys) # NoKey.code
    <2>1. Listed = {}
      BY <1>1, <1>7 DEF ListEmpties, Listed
    <2>2. keys[1].code \in in_down /\ keys[1].changed /\ keys[1].state = "PRESSED"
      BY <1>1, <1>2, <1>7, <2>1, FirstOfEmptyList
    <2>3. in_down \subseteq Nat
      BY <1>1, InAssumption DEF InTypeOK
    <2> QED
      BY <2>2, <2>3 DEF GotKey, NoKey
  <1> QED
    BY <1>3, <1>4, <1>5, <1>6, <1>7

-----------------------------------------------------------------------------

OthersTyped ==
  /\ in_phase \in Nat /\ in_wait \in {NoHandler, "key"} \cup Buttons
  /\ in_turned \in 0..3 /\ in_encoder \in 0..3 /\ in_drift \in 0..7
  /\ in_pins \subseteq ControlPins /\ in_previousPin \subseteq ControlPins /\ in_exec \subseteq ControlPins

LEMMA KeySeenKeeps ==
  ASSUME InputsTaken, in_keys' \in UpdatedLists, KeySeen(GotKey(in_keys')),
         OthersTyped', UNCHANGED <<in_down, in_buttons>>,
         in_shift' = (IF GotKey(in_keys') = NoKey.code THEN in_shift
                      ELSE IF GotKey(in_keys') = ShiftKey THEN ~in_shift ELSE FALSE)
  PROVE  InputsTaken'
  <1> DEFINE key == GotKey(in_keys')
             keys == in_keys'
             quiet == IF in_down # {} THEN 0 ELSE IF in_seen.quiet < 3 THEN in_seen.quiet + 1 ELSE in_seen.quiet
             shifted == IF key = ShiftKey THEN 0
                        ELSE IF key # NoKey.code /\ in_shift THEN in_seen.shifted + 1 ELSE in_seen.shifted
  <1>1. keys \in UpdatedLists
    OBVIOUS
  <1> HIDE DEF keys
  <1>2. /\ keys \in [1..LIST_MAX -> ListedKeys]
        /\ \A k \in in_told \cap in_down : keys[1].code = k /\ keys[1].state \in {"PRESSED", "HOLD"}
        /\ GotKey(keys) # NoKey.code =>
              in_told = {} /\ keys[1].code = GotKey(keys) /\ keys[1].state = "PRESSED"
        /\ in_down = {} =>
              \A i \in 1..LIST_MAX :
                /\ keys[i].state # "PRESSED"
                /\ keys[i].state = "HOLD" => in_keys[i].state = "PRESSED"
                /\ keys[i].state = "RELEASED" => in_keys[i].state \in {"PRESSED", "HOLD"}
        /\ in_down # {} /\ in_seen.quiet = 3 => GotKey(keys) # NoKey.code
    BY <1>1, ScanKeepsList
  <1>3. GotKey(keys) = key
    BY DEF keys
  <1>4. InTypeOK /\ ListEmpties /\ ToldIsFirst /\ ShiftIsUnused /\ HandledIsKept
    BY DEF InputsTaken, InInv
  <1>5. in_down \subseteq KeyCodes /\ NoKey.code \notin KeyCodes
    BY <1>4, InAssumption DEF InTypeOK, NoKey
  <1>6. key \notin in_told
    BY <1>2, <1>3, <1>4, <1>5 DEF InTypeOK
  <1>7. ~(in_down # {} /\ in_seen.quiet = 3 /\ key = NoKey.code)
    BY <1>2, <1>3
  <1>8. /\ in_seen' = [in_seen EXCEPT !.twice = in_seen.twice \/ key \in in_told, !.quiet = quiet,
                       !.missed = in_seen.missed \/ (in_down # {} /\ in_seen.quiet = 3 /\ key = NoKey.code),
                       !.shifted = shifted]
        /\ in_told' = (in_told \cup {key}) \cap in_down
    BY DEF KeySeen
  <1>9. in_seen' = [in_seen EXCEPT !.twice = FALSE, !.quiet = quiet, !.missed = FALSE, !.shifted = shifted]
    BY <1>6, <1>7, <1>8 DEF InputsTaken, KeyReportedOnce, LoneKeyReported
  <1>10. quiet \in 0..3 /\ shifted \in Nat /\ shifted <= 1
    BY <1>4 DEF InTypeOK, InputsTaken, ShiftedOnce, ShiftIsUnused
  <1>11. in_shift' \in BOOLEAN /\ (in_shift' => shifted = 0)
    BY <1>4 DEF InTypeOK, ShiftIsUnused
  <1>12. in_told' \subseteq KeyCodes
    BY <1>5, <1>8
  <1> HIDE DEF quiet, shifted, key
  <1>13. /\ in_seen' \in [twice : BOOLEAN, missed : BOOLEAN, quiet : 0..3, shifted : Nat,
                          handled : [Buttons -> 0..2], waited : BOOLEAN]
         /\ ~in_seen'.twice /\ ~in_seen'.missed /\ in_seen'.quiet = quiet /\ in_seen'.shifted = shifted
         /\ in_seen'.handled = in_seen.handled /\ in_seen'.waited = in_seen.waited
    BY <1>4, <1>9, <1>10 DEF InTypeOK
  <1>14. InTypeOK'
    BY <1>2, <1>4, <1>11, <1>12, <1>13 DEF InTypeOK, OthersTyped, ListedKeys, KeyStates, keys, in_buttons
  <1>15. KeyReportedOnce' /\ LoneKeyReported' /\ ShiftedOnce'
    BY <1>10, <1>13 DEF KeyReportedOnce, LoneKeyReported, ShiftedOnce
  <1>16. PressHandledOnce' /\ HandledIsKept'
    BY <1>4, <1>13 DEF InputsTaken, PressHandledOnce, HandledIsKept, in_buttons
  <1>17. ShiftIsUnused'
    BY <1>11, <1>13 DEF ShiftIsUnused
  <1>18. ToldIsFirst'
    <2>1. ASSUME NEW k \in in_told' PROVE keys[1].code = k /\ keys[1].state \in {"PRESSED", "HOLD"}
      BY <1>2, <1>3, <1>5, <1>8, <2>1
    <2> QED
      BY <2>1 DEF ToldIsFirst, keys
  <1>19. ListEmpties'
    <2>1. ASSUME NEW i \in 1..LIST_MAX
          PROVE  /\ quiet >= 1 => keys[i].state # "PRESSED"
                 /\ quiet >= 2 => keys[i].state # "HOLD"
                 /\ quiet = 3 => keys[i].state = "IDLE"
      <3>1. keys[i].state \in KeyStates
        BY <1>2 DEF ListedKeys
      <3>2. in_seen.quiet \in 0..3
        BY <1>4 DEF InTypeOK
      <3>3. /\ in_seen.quiet >= 1 => in_keys[i].state # "PRESSED"
            /\ in_seen.quiet >= 2 => in_keys[i].state # "HOLD"
        BY <1>4 DEF ListEmpties
      <3>4. CASE in_down = {}
        BY <1>2, <3>1, <3>2, <3>3, <3>4 DEF quiet, KeyStates
      <3>5. CASE in_down # {}
        BY <3>5 DEF quiet
      <3> QED
        BY <3>4, <3>5
    <2> QED
      BY <1>13, <2>1 DEF ListEmpties, keys
  <1> QED
    BY <1>14, <1>15, <1>16, <1>17, <1>18, <1>19 DEF InputsTaken, InInv

\* What the other polls and actions change: nothing, or the buttons.
LEMMA KeypadKept ==
  ASSUME InputsTaken, OthersTyped', UNCHANGED <<in_keys, in_told, in_buttons, in_seen>>,
         in_down' \subseteq KeyCodes, in_shift' \in BOOLEAN, in_shift' => in_shift
  PROVE  InputsTaken'
  <1>1. InTypeOK'
    BY DEF InputsTaken, InInv, InTypeOK, OthersTyped, in_buttons
  <1> QED
    BY <1>1 DEF InputsTaken, InInv, KeyReportedOnce, LoneKeyReported, ShiftedOnce, PressHandledOnce,
                ToldIsFirst, ListEmpties, ShiftIsUnused, HandledIsKept, in_buttons

LEMMA ButtonsKept ==
  ASSUME InputsTaken, OthersTyped', UNCHANGED in_keypad,
         in_pressed' \subseteq Buttons, in_previous' \subseteq Buttons,
         NEW handled \in [Buttons -> 0..2], NEW waited \in BOOLEAN,
         in_seen' = [in_seen EXCEPT !.handled = handled, !.waited = waited],
         \A button \in Buttons :
           /\ handled[button] <= 1 \/ (button = "button1" /\ waited)
           /\ handled[button] > 0 =>
                /\ button \in in_pressed'
                /\ button \in in_previous' \/ (button = "button1" /\ waited)
  PROVE  InputsTaken'
  <1>1. InTypeOK
    BY DEF InputsTaken, InInv
  <1>2. /\ in_seen' \in [twice : BOOLEAN, missed : BOOLEAN, quiet : 0..3, shifted : Nat,
                        handled : [Buttons -> 0..2], waited : BOOLEAN]
        /\ in_seen'.twice = in_seen.twice /\ in_seen'.missed = in_seen.missed
        /\ in_seen'.quiet = in_seen.quiet /\ in_seen'.shifted = in_seen.shifted
        /\ in_seen'.handled = handled /\ in_seen'.waited = waited
    BY <1>1 DEF InTypeOK
  <1>3. InTypeOK'
    BY <1>1, <1>2 DEF InTypeOK, OthersTyped, in_keypad
  <1>4. PressHandledOnce' /\ HandledIsKept'
    BY <1>2 DEF PressHandledOnce, HandledIsKept
  <1> QED
    BY <1>2, <1>3, <1>4 DEF InputsTaken, InInv, KeyReportedOnce, LoneKeyReported, ShiftedOnce,
                ToldIsFirst, ListEmpties, ShiftIsUnused, in_keypad

LEMMA EncoderPolled ==
  ASSUME InputsTaken, PollUIEncoder
  PROVE  in_turned' \in 0..3 /\ in_encoder' \in 0..3 /\ in_drift' \in 0..7
  <1>1. in_turned \in 0..3 /\ in_encoder \in 0..3 /\ in_drift \in 0..7
    BY DEF InputsTaken, InInv, InTypeOK
  <1>2. Steps(in_encoder, in_turned) \in {-1, 0, 1} /\ Turned(in_encoder, in_turned) \in {-1, 0, 1, 2}
    BY DEF Steps, Turned
  <1>3. (in_drift + Steps(in_encoder, in_turned) - Turned(in_encoder, in_turned)) % 8 \in 0..7
    BY <1>1, <1>2
  <1> QED
    BY <1>1, <1>3 DEF PollUIEncoder

LEMMA KeypadPollKeeps == ASSUME InputsTaken, PollUIEncoder, PollKeypad PROVE InputsTaken'
  <1>1. OthersTyped'
    BY EncoderPolled, InAssumption
    DEF PollKeypad, OthersTyped, InputsTaken, InInv, InTypeOK, NextPhase, in_buttons, in_control
  <1>2. in_shift' = (IF GotKey(in_keys') = NoKey.code THEN in_shift
                     ELSE IF GotKey(in_keys') = ShiftKey THEN ~in_shift ELSE FALSE)
    <2> DEFINE key == GotKey(in_keys')
    <2>1. in_shift \in BOOLEAN
      BY DEF InputsTaken, InInv, InTypeOK
    <2>2. NoKey.code # ShiftKey
      BY InAssumption DEF NoKey
    <2>3. /\ key = NoKey.code => in_shift' = in_shift
          /\ key # NoKey.code /\ key = ShiftKey => in_shift' = ~in_shift
          /\ key # NoKey.code /\ key # ShiftKey => in_shift' = FALSE \/ (~in_shift /\ in_shift' = in_shift)
      <3>1. ASSUME key = NoKey.code PROVE in_shift' = in_shift
        BY <2>2, <3>1 DEF PollKeypad
      <3>2. ASSUME key # NoKey.code, key = ShiftKey PROVE in_shift' = ~in_shift
        BY <3>2 DEF PollKeypad
      <3>3. ASSUME key # NoKey.code, key # ShiftKey
            PROVE  in_shift' = FALSE \/ (~in_shift /\ in_shift' = in_shift)
        BY <3>3 DEF PollKeypad
      <3> QED
        BY <3>1, <3>2, <3>3
    <2> HIDE DEF key
    <2>4. ~in_shift => in_shift = FALSE
      BY <2>1, Zenon
    <2>5. key # NoKey.code /\ key # ShiftKey => in_shift' = FALSE
      BY <2>3, <2>4, Zenon
    <2>6. in_shift' = (IF key = NoKey.code THEN in_shift ELSE IF key = ShiftKey THEN ~in_shift ELSE FALSE)
      BY <2>3, <2>5, Zenon
    <2> QED
      BY <2>6 DEF key
  <1> QED
    BY <1>1, <1>2, KeySeenKeeps DEF PollKeypad, in_buttons

LEMMA ButtonPollKeeps == ASSUME InputsTaken, PollUIEncoder, PollButton PROVE InputsTaken'
  <1>1. OthersTyped'
    BY EncoderPolled, InAssumption
    DEF PollButton, OthersTyped, InputsTaken, InInv, InTypeOK, NextPhase, in_control, Buttons, NoHandler
  <1> DEFINE button == ButtonOf(in_phase)
             more == IF in_seen.handled[button] < 2 THEN in_seen.handled[button] + 1
                     ELSE in_seen.handled[button]
             handled == IF button \in in_pressed \ in_previous
                        THEN [in_seen.handled EXCEPT ![button] = more] ELSE in_seen.handled
  <1>2. InTypeOK /\ PressHandledOnce /\ HandledIsKept
    BY DEF InputsTaken, InInv
  <1>3. button \in Buttons /\ (button = "button1" \/ button = "button2")
    BY DEF ButtonOf, Buttons
  <1>4. handled \in [Buttons -> 0..2]
    BY <1>2, <1>3 DEF InTypeOK
  <1> HIDE DEF button
  <1>5. \E waited \in BOOLEAN :
          /\ in_seen' = [in_seen EXCEPT !.handled = handled, !.waited = waited]
          /\ \/ waited = in_seen.waited /\ (button \in in_pressed => button \in in_previous')
             \/ waited /\ button = "button1"
          /\ in_seen.waited => waited
    <2>1. CASE button \in in_pressed \ in_previous /\ in_previous' = in_previous \cup {button}
               /\ Handled(button)
      <3>1. in_seen' = [in_seen EXCEPT !.handled = handled, !.waited = in_seen.waited]
        BY <1>2, <2>1 DEF Handled, InTypeOK
      <3>2. button \in in_previous' /\ in_seen.waited \in BOOLEAN
        BY <1>2, <2>1 DEF InTypeOK
      <3> QED
        BY <3>1, <3>2
    <2>2. CASE /\ button \in in_pressed \ in_previous /\ button = "button1"
               /\ in_seen' = [in_seen EXCEPT !.handled[button] = more, !.waited = TRUE]
      <3>1. in_seen' = [in_seen EXCEPT !.handled = handled, !.waited = TRUE]
        BY <1>2, <2>2 DEF InTypeOK
      <3> QED
        BY <2>2, <3>1
    <2>3. CASE button \notin in_pressed \ in_previous /\ UNCHANGED in_seen
               /\ in_previous' = IF button \in in_pressed THEN in_previous ELSE in_previous \ {button}
      <3>1. in_seen' = [in_seen EXCEPT !.handled = handled, !.waited = in_seen.waited]
        BY <1>2, <2>3 DEF InTypeOK
      <3>2. (button \in in_pressed => button \in in_previous') /\ in_seen.waited \in BOOLEAN
        BY <1>2, <2>3 DEF InTypeOK
      <3> QED
        BY <3>1, <3>2
    <2> QED
      BY <2>1, <2>2, <2>3 DEF PollButton, button
  <1>6. in_previous' \subseteq Buttons /\ in_pressed' = in_pressed /\ UNCHANGED in_keypad
    BY <1>2, <1>3 DEF PollButton, InTypeOK, button
  <1>7. \A b \in Buttons \ {button} : b \in in_previous => b \in in_previous'
    BY DEF PollButton, button
  <1>8. PICK waited \in BOOLEAN :
          /\ in_seen' = [in_seen EXCEPT !.handled = handled, !.waited = waited]
          /\ \/ waited = in_seen.waited /\ (button \in in_pressed => button \in in_previous')
             \/ waited /\ button = "button1"
          /\ in_seen.waited => waited
    BY <1>5
  <1>11. in_seen.waited => waited
    BY <1>8
  <1>12. button \in in_pressed => button \in in_previous' \/ (button = "button1" /\ waited)
    BY <1>8
  <1>13. ASSUME NEW b \in Buttons
        PROVE  /\ handled[b] <= 1 \/ (b = "button1" /\ waited)
               /\ handled[b] > 0 =>
                    /\ b \in in_pressed
                    /\ b \in in_previous' \/ (b = "button1" /\ waited)
    <2>1. in_seen.handled[b] \in 0..2
      BY <1>2 DEF InTypeOK
    <2>2. /\ in_seen.handled[b] <= 1 \/ (b = "button1" /\ in_seen.waited)
          /\ in_seen.handled[b] > 0 =>
               b \in in_pressed /\ (b \in in_previous \/ (b = "button1" /\ in_seen.waited))
      BY <1>2 DEF PressHandledOnce, HandledIsKept
    <2>3. CASE b # button
      BY <1>7, <1>8, <2>1, <2>2, <2>3 DEF handled
    <2>4. CASE b = button
      <3>1. CASE button \in in_pressed \ in_previous
        <4>1. handled[button] = more
          BY <1>2, <1>3, <3>1 DEF handled, InTypeOK
        <4>2. in_seen.handled[b] = 0 \/ (b = "button1" /\ waited)
          BY <1>11, <2>1, <2>2, <2>4, <3>1
        <4>3. in_seen.handled[b] = 0 => handled[b] = 1
          BY <2>4, <4>1
        <4>4. b \in in_pressed /\ (b \in in_previous' \/ (b = "button1" /\ waited))
          BY <1>12, <2>4, <3>1
        <4> QED
          BY <4>2, <4>3, <4>4
      <3>2. CASE button \notin in_pressed \ in_previous
        <4>1. handled[b] = in_seen.handled[b]
          BY <3>2 DEF handled
        <4> QED
          BY <1>11, <1>12, <2>2, <2>4, <4>1
      <3> QED
        BY <3>1, <3>2
    <2> QED
      BY <2>3, <2>4
  <1> HIDE DEF handled, more
  <1>10. in_pressed' \subseteq Buttons
    BY <1>2, <1>6 DEF InTypeOK
  <1> QED
    BY <1>1, <1>4, <1>6, <1>8, <1>10, <1>13, ButtonsKept

LEMMA OtherPollKeeps ==
  ASSUME InputsTaken, PollUIEncoder, system_poll_control_pins \/ OtherPhase
  PROVE  InputsTaken'
  <1>1. OthersTyped'
    BY EncoderPolled, InAssumption
    DEF system_poll_control_pins, OtherPhase, OthersTyped, InputsTaken, InInv, InTypeOK, NextPhase, in_control
  <1>2. /\ UNCHANGED <<in_keypad, in_buttons, in_seen>>
        /\ in_down' \subseteq KeyCodes /\ in_shift' \in BOOLEAN /\ (in_shift' => in_shift)
    BY DEF system_poll_control_pins, OtherPhase, in_keypad, InputsTaken, InInv, InTypeOK
  <1> QED
    BY <1>1, <1>2, KeypadKept DEF in_keypad

LEMMA HandlerReturnsKeeps == ASSUME InputsTaken, HandlerReturns PROVE InputsTaken'
  <1>1. InTypeOK /\ PressHandledOnce /\ HandledIsKept
    BY DEF InputsTaken, InInv
  <1>2. InTypeOK'
    <2>1. in_phase' \in Nat /\ in_wait' \in {NoHandler, "key"} \cup Buttons
      BY <1>1, InAssumption DEF HandlerReturns, InTypeOK, NextPhase
    <2>2. in_shift' \in BOOLEAN
      BY <1>1 DEF HandlerReturns, InTypeOK
    <2>3. in_previous' \subseteq Buttons
      BY <1>1 DEF HandlerReturns, InTypeOK
    <2> QED
      BY <1>1, <2>1, <2>2, <2>3 DEF HandlerReturns, InTypeOK, in_turns, in_control
  <1>3. in_previous \subseteq in_previous' /\ (in_shift' => in_shift)
    BY <1>1 DEF HandlerReturns, InTypeOK
  <1> QED
    BY <1>2, <1>3 DEF HandlerReturns, InputsTaken, InInv, KeyReportedOnce, LoneKeyReported, ShiftedOnce,
       PressHandledOnce, ToldIsFirst, ListEmpties, ShiftIsUnused, HandledIsKept

LEMMA OperatorKeeps ==
  ASSUME InputsTaken, Key \/ Button \/ Turn \/ Switch \/ Serve
  PROVE  InputsTaken'
  <1>1. InTypeOK
    BY DEF InputsTaken, InInv
  <1>2. CASE Key \/ Turn \/ Switch \/ Serve
    <2>1. OthersTyped'
      BY <1>1, <1>2 DEF Key, Turn, Switch, Serve, OthersTyped, InTypeOK, Switched, in_turns, in_control
    <2>2. /\ UNCHANGED <<in_keys, in_told, in_buttons, in_seen, in_shift>>
          /\ in_down' \subseteq KeyCodes
      BY <1>1, <1>2 DEF Key, Turn, Switch, Serve, InTypeOK, Switched, in_keypad
    <2>3. in_shift' \in BOOLEAN /\ (in_shift' => in_shift)
      BY <1>1, <2>2 DEF InTypeOK
    <2> QED
      BY <2>1, <2>2, <2>3, KeypadKept
  <1>3. CASE Button
    <2>1. PICK button \in Buttons :
            /\ in_pressed' = Switched(in_pressed, button)
            /\ in_seen' = IF button \in in_pressed
                          THEN [in_seen EXCEPT !.handled[button] = 0,
                                               !.waited = @ /\ button # "button1"]
                          ELSE in_seen
      BY <1>3 DEF Button
    <2>2. UNCHANGED <<in_phase, in_wait, in_keypad, in_turns, in_previous, in_control>>
      BY <1>3 DEF Button
    <2>3. OthersTyped'
      BY <1>1, <2>2 DEF OthersTyped, InTypeOK, in_turns, in_control
    <2> DEFINE released == button \in in_pressed
               handled == IF released THEN [in_seen.handled EXCEPT ![button] = 0] ELSE in_seen.handled
               waited == IF released THEN in_seen.waited /\ button # "button1" ELSE in_seen.waited
    <2>4. handled \in [Buttons -> 0..2] /\ waited \in BOOLEAN
      <3>1. in_seen.handled \in [Buttons -> 0..2] /\ in_seen.waited \in BOOLEAN
        BY <1>1 DEF InTypeOK
      <3>2. handled \in [Buttons -> 0..2]
        BY <3>1
      <3>3. waited \in BOOLEAN
        BY <3>1, Zenon
      <3> QED
        BY <3>2, <3>3
    <2>5. in_seen' = [in_seen EXCEPT !.handled = handled, !.waited = waited]
      BY <1>1, <2>1 DEF InTypeOK
    <2>6. in_pressed' \subseteq Buttons /\ in_previous' \subseteq Buttons
      BY <1>1, <2>1, <2>2 DEF InTypeOK, Switched
    <2>7. ASSUME NEW b \in Buttons
          PROVE  /\ handled[b] <= 1 \/ (b = "button1" /\ waited)
                 /\ handled[b] > 0 =>
                      /\ b \in in_pressed'
                      /\ b \in in_previous' \/ (b = "button1" /\ waited)
      BY <1>1, <2>1, <2>2 DEF InTypeOK, InputsTaken, InInv, PressHandledOnce, HandledIsKept, Switched
    <2> HIDE DEF handled, waited
    <2> QED
      BY <2>2, <2>3, <2>4, <2>5, <2>6, <2>7, ButtonsKept
  <1> QED
    BY <1>2, <1>3

\* Every key is reported once, a lone one by the first scan that finds it, a
\* shift is for one key and a button is handled once: Keypad_grbl.cpp and
\* UITask(), whichever handler waits, for every keypad and list.
THEOREM InputsTakenOnce == InSpec => []InputsTaken
  <1>1. ASSUME InputsTaken, [InNext]_inVars PROVE InputsTaken'
    <2>1. CASE UNCHANGED inVars
      <3>1. OthersTyped'
        BY <1>1, <2>1 DEF inVars, OthersTyped, InputsTaken, InInv, InTypeOK, in_turns, in_control
      <3>2. /\ UNCHANGED <<in_keys, in_told, in_buttons, in_seen>>
            /\ in_down' \subseteq KeyCodes /\ in_shift' \in BOOLEAN /\ (in_shift' => in_shift)
        BY <1>1, <2>1 DEF inVars, in_keypad, InputsTaken, InInv, InTypeOK
      <3> QED
        BY <1>1, <3>1, <3>2, KeypadKept
    <2>2. CASE InNext
      BY <1>1, <2>2, KeypadPollKeeps, ButtonPollKeeps, OtherPollKeeps, HandlerReturnsKeeps, OperatorKeeps
      DEF InNext, UITask
    <2> QED
      BY <1>1, <2>1, <2>2
  <1> QED
    BY <1>1, InputsStartSound, PTL DEF InSpec

\* The steps of the encoder are the ones it was turned, or two are lost.
THEOREM StepsAreTheTurned == InSpec => EncoderCounts
  <1>1. ASSUME InputsTaken, [InNext]_inVars
        PROVE  [in_drift' - in_drift \in {0, -2, 6}]_inVars
    <2>1. in_turned \in 0..3 /\ in_encoder \in 0..3 /\ in_drift \in 0..7
      BY <1>1 DEF InputsTaken, InInv, InTypeOK
    <2>2. CASE PollUIEncoder
      <3>1. Steps(in_encoder, in_turned) - Turned(in_encoder, in_turned) \in {0, -2}
        BY <2>1 DEF Steps, Turned, Gray, Left, Right
      <3>2. Steps(in_encoder, in_turned) \in Int /\ Turned(in_encoder, in_turned) \in Int
        BY <2>1 DEF Steps, Turned, Gray, Left, Right
      <3>3. in_drift' = (in_drift + Steps(in_encoder, in_turned) - Turned(in_encoder, in_turned)) % 8
        BY <2>2 DEF PollUIEncoder
      <3>4. PICK more \in {0, -2} : in_drift' = (in_drift + more) % 8
        BY <2>1, <3>1, <3>2, <3>3
      <3>5. \A d \in 0..7, m \in {0, -2} : ((d + m) % 8) - d \in {0, -2, 6}
        OBVIOUS
      <3>6. ((in_drift + more) % 8) - in_drift \in {0, -2, 6}
        BY <2>1, <3>5
      <3>7. in_drift' - in_drift \in {0, -2, 6}
        BY <3>4, <3>6
      <3> QED
        BY <3>7
    <2>3. CASE UNCHANGED in_drift
      BY <2>1, <2>3
    <2>4. UITask => PollUIEncoder
      BY DEF UITask
    <2>5. HandlerReturns \/ Key \/ Button \/ Turn \/ Switch \/ Serve => UNCHANGED in_drift
      BY Zenon DEF HandlerReturns, Key, Button, Turn, Switch, Serve, in_turns
    <2>6. UNCHANGED inVars => UNCHANGED in_drift
      BY Zenon DEF inVars, in_turns
    <2>7. PollUIEncoder \/ UNCHANGED in_drift
      BY <1>1, <2>4, <2>5, <2>6, Zenon DEF InNext
    <2> QED
      BY <2>2, <2>3, <2>7
  <1> QED
    BY <1>1, InputsTakenOnce, PTL DEF InSpec, EncoderCounts

THEOREM InputsAreSafe == InSpec => InSafe
  <1>1. InputsTaken =>
          KeyReportedOnce /\ LoneKeyReported /\ ShiftedOnce /\ PressHandledOnce /\ InInv
    BY DEF InputsTaken
  <1> QED
    BY <1>1, InputsTakenOnce, StepsAreTheTurned, PTL DEF InSafe

-----------------------------------------------------------------------------
(* Display: where the texts lie, facts about the table of fields.          *)

\* The rows 0, 2, 1 and 3 follow one another in the display.
LEMMA RowIs ==
  ASSUME NEW name, NEW x \in Nat, NEW w \in Nat
  PROVE  /\ Field(name, x, 0, w) = [name |-> name, start |-> x, width |-> w]
         /\ Field(name, x, 1, w) = [name |-> name, start |-> 40 + x, width |-> w]
         /\ Field(name, x, 2, w) = [name |-> name, start |-> 20 + x, width |-> w]
         /\ Field(name, x, 3, w) = [name |-> name, start |-> 60 + x, width |-> w]
  <1> DEFINE rows == <<0, 2, 1, 3>>
  <1>1. rows[0 + 1] = 0 /\ rows[1 + 1] = 2 /\ rows[2 + 1] = 1 /\ rows[3 + 1] = 3
    OBVIOUS
  <1> HIDE DEF rows
  <1>2. DdramAddress(x, 0) = x /\ DdramAddress(x, 1) = 40 + x /\ DdramAddress(x, 2) = 20 + x
        /\ DdramAddress(x, 3) = 60 + x
    BY <1>1 DEF DdramAddress, rows
  <1> QED
    BY <1>2 DEF Field

LEMMA PartsAre == \A c \in Parts : c \in Int /\ c >= 0 /\ c < 80
  BY DEF Parts

LEMMA LowerIs == \A c : c \in LowerRows <=> c \in Parts /\ c >= 20
  <1>1. Field("row", 0, 0, 20) = [name |-> "row", start |-> 0, width |-> 20]
    BY RowIs
  <1>2. \A c \in Parts : c \in Under(Field("row", 0, 0, 20)) <=> c < 20
    BY <1>1, PartsAre DEF Under
  <1> QED
    BY <1>2, PartsAre DEF LowerRows

\* The places of a field, from the column a to before the column b.
Lies(f, a, b) == Under(f) = {c \in Parts : c >= a /\ c < b}

LEMMA FieldLies ==
  ASSUME NEW name, NEW x \in Nat, NEW w \in Nat
  PROVE  /\ Lies(Field(name, x, 0, w), x, x + w)
         /\ Lies(Field(name, x, 1, w), 40 + x, 40 + x + w)
         /\ Lies(Field(name, x, 2, w), 20 + x, 20 + x + w)
         /\ Lies(Field(name, x, 3, w), 60 + x, 60 + x + w)
  BY RowIs, PartsAre DEF Lies, Under

LEMMA PositionLies ==
  /\ Lies(PositionFields[1], 40, 50) /\ Lies(PositionFields[2], 20, 30)
  /\ Lies(PositionFields[3], 60, 70) /\ Lies(PositionFields[4], 70, 80)
  /\ Len(PositionFields) = 4
  <1>1. Lies(PositionFields[1], 40 + 0, 40 + 0 + 10)
    BY FieldLies DEF PositionFields
  <1>2. Lies(PositionFields[2], 20 + 0, 20 + 0 + 10)
    BY FieldLies DEF PositionFields
  <1>3. Lies(PositionFields[3], 60 + 0, 60 + 0 + 10)
    BY FieldLies DEF PositionFields
  <1>4. Lies(PositionFields[4], 60 + 10, 60 + 10 + 10)
    BY FieldLies DEF PositionFields
  <1>5. Len(PositionFields) = 4
    BY DEF PositionFields
  <1> QED
    BY <1>1, <1>2, <1>3, <1>4, <1>5

LEMMA GCodeLies ==
  /\ Lies(GCodeFields[1], 40, 50) /\ Lies(GCodeFields[2], 50, 60) /\ Lies(GCodeFields[3], 20, 26)
  /\ Lies(GCodeFields[4], 26, 30) /\ Lies(GCodeFields[5], 30, 34) /\ Lies(GCodeFields[6], 34, 37)
  /\ Lies(GCodeFields[7], 37, 40) /\ Lies(GCodeFields[8], 60, 66) /\ Lies(GCodeFields[9], 66, 70)
  /\ Lies(GCodeFields[10], 70, 74) /\ Lies(GCodeFields[11], 74, 80)
  /\ Len(GCodeFields) = 11
  <1>1. Lies(GCodeFields[1], 40 + 0, 40 + 0 + 10) /\ Lies(GCodeFields[2], 40 + 10, 40 + 10 + 10)
    BY FieldLies DEF GCodeFields
  <1>2. Lies(GCodeFields[3], 20 + 0, 20 + 0 + 6) /\ Lies(GCodeFields[4], 20 + 6, 20 + 6 + 4)
    BY FieldLies DEF GCodeFields
  <1>3. Lies(GCodeFields[5], 20 + 10, 20 + 10 + 4) /\ Lies(GCodeFields[6], 20 + 14, 20 + 14 + 3)
    BY FieldLies DEF GCodeFields
  <1>4. Lies(GCodeFields[7], 20 + 17, 20 + 17 + 3) /\ Lies(GCodeFields[8], 60 + 0, 60 + 0 + 6)
    BY FieldLies DEF GCodeFields
  <1>5. Lies(GCodeFields[9], 60 + 6, 60 + 6 + 4) /\ Lies(GCodeFields[10], 60 + 10, 60 + 10 + 4)
    BY FieldLies DEF GCodeFields
  <1>6. Lies(GCodeFields[11], 60 + 14, 60 + 14 + 6) /\ Len(GCodeFields) = 11
    BY FieldLies DEF GCodeFields
  <1> QED
    BY <1>1, <1>2, <1>3, <1>4, <1>5, <1>6

LEMMA OverrideLies ==
  /\ Lies(OverrideFields[1], 49, 60) /\ Lies(OverrideFields[2], 29, 40) /\ Lies(OverrideFields[3], 69, 80)
  /\ Len(OverrideFields) = 3
  <1>1. Lies(OverrideFields[1], 40 + 9, 40 + 9 + 11) /\ Lies(OverrideFields[2], 20 + 9, 20 + 9 + 11)
    BY FieldLies DEF OverrideFields
  <1>2. Lies(OverrideFields[3], 60 + 9, 60 + 9 + 11) /\ Len(OverrideFields) = 3
    BY FieldLies DEF OverrideFields
  <1> QED
    BY <1>1, <1>2

LEMMA VelocityLies ==
  Lies(VelocityFields[1], 54, 60) /\ Lies(VelocityFields[2], 34, 40) /\ Len(VelocityFields) = 2
  /\ VelocityFields[1] = Rpm /\ VelocityFields[2] = Velocity
  <1>1. Lies(Rpm, 40 + 14, 40 + 14 + 6) /\ Lies(Velocity, 20 + 14, 20 + 14 + 6)
    BY FieldLies DEF Rpm, Velocity
  <1> QED
    BY <1>1 DEF VelocityFields

LEMMA BlanksLie ==
  /\ \A c \in LowerRows : (c >= 50 /\ c < 60) \/ (c >= 30 /\ c < 40) => \E f \in Blanks[1] : c \in Under(f)
  /\ \A c \in LowerRows : (c < 29 \/ (c >= 40 /\ c < 49) \/ (c >= 60 /\ c < 69)) => \E f \in Blanks[3] : c \in Under(f)
  /\ \A c \in LowerRows : \E f \in Blanks[4] : c \in Under(f)
  <1> DEFINE b1 == Field("blank", 10, 1, 10)
             b2 == Field("blank", 10, 2, 10)
             l(row) == Field("label", 0, row, 9)
             w(row) == Field("label", 0, row, 20)
             b3 == Field("blank", 0, 3, 20)
  <1>1. b1 \in Blanks[1] /\ b2 \in Blanks[1]
    BY DEF Blanks
  <1>2. l(1) \in Blanks[3] /\ l(2) \in Blanks[3] /\ l(3) \in Blanks[3]
    BY DEF Blanks
  <1>3. w(1) \in Blanks[4] /\ w(2) \in Blanks[4] /\ b3 \in Blanks[4]
    BY DEF Blanks
  <1>4. Lies(b1, 40 + 10, 40 + 10 + 10) /\ Lies(b2, 20 + 10, 20 + 10 + 10) /\ Lies(b3, 60 + 0, 60 + 0 + 20)
    BY FieldLies
  <1>5. Lies(l(1), 40 + 0, 40 + 0 + 9) /\ Lies(l(2), 20 + 0, 20 + 0 + 9) /\ Lies(l(3), 60 + 0, 60 + 0 + 9)
    BY FieldLies
  <1>6. Lies(w(1), 40 + 0, 40 + 0 + 20) /\ Lies(w(2), 20 + 0, 20 + 0 + 20)
    BY FieldLies
  <1>7. \A c \in LowerRows : c \in Parts /\ c \in Int /\ c >= 20 /\ c < 80
    BY LowerIs, PartsAre
  <1> HIDE DEF b1, b2, b3, l, w
  <1>8. ASSUME NEW c \in LowerRows, (c >= 50 /\ c < 60) \/ (c >= 30 /\ c < 40)
        PROVE  \E f \in Blanks[1] : c \in Under(f)
    <2>1. c \in Under(b1) \/ c \in Under(b2)
      BY <1>4, <1>7, <1>8 DEF Lies
    <2> QED
      BY <1>1, <2>1
  <1>9. ASSUME NEW c \in LowerRows, c < 29 \/ (c >= 40 /\ c < 49) \/ (c >= 60 /\ c < 69)
        PROVE  \E f \in Blanks[3] : c \in Under(f)
    <2>1. c \in Under(l(1)) \/ c \in Under(l(2)) \/ c \in Under(l(3))
      BY <1>5, <1>7, <1>9 DEF Lies
    <2> QED
      BY <1>2, <2>1
  <1>10. ASSUME NEW c \in LowerRows PROVE \E f \in Blanks[4] : c \in Under(f)
    <2>1. c \in Under(w(1)) \/ c \in Under(w(2)) \/ c \in Under(b3)
      BY <1>4, <1>6, <1>7 DEF Lies
    <2> QED
      BY <1>3, <2>1
  <1> QED
    BY <1>8, <1>9, <1>10

\* Every part of the lower rows has a text of the page, or, but on the second page, is cleared.
LEMMA PageIsCovered ==
  ASSUME NEW i \in 1 .. 4, NEW c \in LowerRows
  PROVE  \/ \E f \in InSequence(FieldsOf[i]) : i # 4 /\ c \in Under(f)
         \/ i # 2 /\ \E f \in Blanks[i] : c \in Under(f)
  <1>1. c \in Parts /\ c \in Int /\ c >= 20 /\ c < 80
    BY LowerIs, PartsAre
  <1>2. CASE i = 1
    <2>1. CASE (c >= 50 /\ c < 60) \/ (c >= 30 /\ c < 40)
      BY <1>2, <2>1, BlanksLie
    <2>2. CASE ~((c >= 50 /\ c < 60) \/ (c >= 30 /\ c < 40))
      <3>1. \E k \in 1 .. 4 : c \in Under(PositionFields[k])
        BY <1>1, <2>2, PositionLies DEF Lies
      <3>2. PICK k \in 1 .. 4 : c \in Under(PositionFields[k])
        BY <3>1
      <3>3. FieldsOf[i] = PositionFields /\ k \in DOMAIN PositionFields
        BY <1>2 DEF FieldsOf, PositionFields
      <3> QED
        BY <1>2, <3>2, <3>3 DEF InSequence
    <2> QED
      BY <2>1, <2>2
  <1>3. CASE i = 2
    <2>1. \E k \in 1 .. 11 : c \in Under(GCodeFields[k])
      BY <1>1, GCodeLies DEF Lies
    <2>2. PICK k \in 1 .. 11 : c \in Under(GCodeFields[k])
      BY <2>1
    <2>3. FieldsOf[i] = GCodeFields /\ k \in DOMAIN GCodeFields
      BY <1>3 DEF FieldsOf, GCodeFields
    <2> QED
      BY <1>3, <2>2, <2>3 DEF InSequence
  <1>4. CASE i = 3
    <2>1. CASE c < 29 \/ (c >= 40 /\ c < 49) \/ (c >= 60 /\ c < 69)
      BY <1>4, <2>1, BlanksLie
    <2>2. CASE ~(c < 29 \/ (c >= 40 /\ c < 49) \/ (c >= 60 /\ c < 69))
      <3>1. \E k \in 1 .. 3 : c \in Under(OverrideFields[k])
        BY <1>1, <2>2, OverrideLies DEF Lies
      <3>2. PICK k \in 1 .. 3 : c \in Under(OverrideFields[k])
        BY <3>1
      <3>3. FieldsOf[i] = OverrideFields /\ k \in DOMAIN OverrideFields
        BY <1>4 DEF FieldsOf, OverrideFields
      <3> QED
        BY <1>4, <3>2, <3>3 DEF InSequence
    <2> QED
      BY <2>1, <2>2
  <1>5. CASE i = 4
    BY <1>5, BlanksLie
  <1> QED
    BY <1>2, <1>3, <1>4, <1>5

\* Where fields and blanks lie: the page in the lower rows, the status line in the first one.
LEMMA FieldsAreLow ==
  ASSUME NEW i \in 1 .. 4, NEW f \in InSequence(FieldsOf[i])
  PROVE  Under(f) \subseteq LowerRows /\ f \in AllFields
  <1>1. f \in AllFields
    BY DEF AllFields
  <1>2. PICK k \in DOMAIN FieldsOf[i] : f = FieldsOf[i][k]
    BY DEF InSequence
  <1>3. \E a \in 20 .. 80, b \in 20 .. 80 : Lies(f, a, b)
    <2>1. CASE i = 1
      <3>1. FieldsOf[i] = PositionFields /\ k \in {1, 2, 3, 4}
        BY <1>2, <2>1 DEF FieldsOf, PositionFields
      <3> QED
        BY <1>2, <3>1, PositionLies
    <2>2. CASE i = 2
      <3>1. FieldsOf[i] = GCodeFields /\ k \in {1, 2, 3, 4, 5, 6, 7, 8, 9, 10, 11}
        BY <1>2, <2>2 DEF FieldsOf, GCodeFields
      <3> QED
        BY <1>2, <3>1, GCodeLies
    <2>3. CASE i = 3
      <3>1. FieldsOf[i] = OverrideFields /\ k \in {1, 2, 3}
        BY <1>2, <2>3 DEF FieldsOf, OverrideFields
      <3> QED
        BY <1>2, <3>1, OverrideLies
    <2>4. CASE i = 4
      <3>1. FieldsOf[i] = VelocityFields /\ k \in {1, 2}
        BY <1>2, <2>4 DEF FieldsOf, VelocityFields
      <3> QED
        BY <1>2, <3>1, VelocityLies
    <2> QED
      BY <2>1, <2>2, <2>3, <2>4
  <1> QED
    BY <1>1, <1>3, LowerIs, PartsAre DEF Lies

LEMMA StatusLineIsHigh ==
  ASSUME NEW f \in {FileField, StateField, CoolantField, RunField, JogField}
  PROVE  Under(f) \cap LowerRows = {} /\ f \in AllFields /\ Under(f) \subseteq Parts
  <1>1. f \in AllFields
    BY DEF AllFields
  <1>2. \E a \in 0 .. 20, b \in 0 .. 20 : Lies(f, a, b)
    <2>1. Lies(FileField, 0, 0 + 9) /\ Lies(StateField, 9, 9 + 8) /\ Lies(CoolantField, 17, 17 + 1)
          /\ Lies(RunField, 18, 18 + 1) /\ Lies(JogField, 0, 0 + 19)
      BY FieldLies DEF FileField, StateField, CoolantField, RunField, JogField
    <2> QED
      BY <2>1
  <1> QED
    BY <1>1, <1>2, LowerIs, PartsAre DEF Lies

LEMMA BlanksAreLow ==
  ASSUME NEW f \in Blanks[1]
  PROVE  Under(f) \subseteq LowerRows
  <1>1. \E a \in 20 .. 80, b \in 20 .. 80 : Lies(f, a, b)
    <2>1. f = Field("blank", 10, 1, 10) \/ f = Field("blank", 10, 2, 10)
      BY DEF Blanks
    <2>2. Lies(Field("blank", 10, 1, 10), 40 + 10, 40 + 10 + 10)
          /\ Lies(Field("blank", 10, 2, 10), 20 + 10, 20 + 10 + 10)
      BY FieldLies
    <2> QED
      BY <2>1, <2>2
  <1> QED
    BY <1>1, LowerIs, PartsAre DEF Lies

\* What is drawn by name is one of the fields that lie there.
LEMMA NamesAre ==
  ASSUME NEW F, NEW c
  PROVE  /\ c \in DOMAIN NamesIn(F) <=> \E f \in F : c \in Under(f)
         /\ c \in DOMAIN NamesIn(F) => NamesIn(F)[c] \in {f.name : f \in {g \in F : c \in Under(g)}}
  <1>1. c \in DOMAIN NamesIn(F) <=> \E f \in F : c \in Under(f)
    BY DEF NamesIn
  <1>2. ASSUME \E f \in F : c \in Under(f)
        PROVE  NamesIn(F)[c] \in {f.name : f \in {g \in F : c \in Under(g)}}
    <2> DEFINE g == CHOOSE f \in F : c \in Under(f)
    <2>1. g \in F /\ c \in Under(g)
      BY <1>2
    <2>2. NamesIn(F)[c] = g.name
      BY <1>1, <1>2 DEF NamesIn
    <2> HIDE DEF g
    <2> QED
      BY <2>1, <2>2
  <1> QED
    BY <1>1, <1>2

\* What a place may show: each text that the page has there.
LEMMA ExpectedIs ==
  ASSUME NEW i \in 1 .. 4, NEW c \in LowerRows
  PROVE  /\ \A f \in InSequence(FieldsOf[i]) : c \in Under(f) => f.name \in Expected[i][c]
         /\ i # 2 => \A f \in Blanks[i] : c \in Under(f) => f.name \in Expected[i][c]
  <1> DEFINE texts == {f.name : f \in {g \in InSequence(FieldsOf[i]) : c \in Under(g)}}
             cleared == {f.name : f \in {g \in Blanks[i] : c \in Under(g)}}
  <1>1. Expected[i][c] = texts \cup (IF i = 2 THEN {} ELSE cleared)
    BY DEF Expected
  <1>2. \A f \in InSequence(FieldsOf[i]) : c \in Under(f) => f.name \in texts
    OBVIOUS
  <1>3. \A f \in Blanks[i] : c \in Under(f) => f.name \in cleared
    OBVIOUS
  <1> QED
    BY <1>1, <1>2, <1>3

\* The lower rows show the i-th page.
PageShows(screen, i) == \A c \in LowerRows : screen[c].field \in Expected[i][c]

LEMMA DrawIs ==
  ASSUME NEW f \in AllFields, NEW screen, NEW text, NEW c \in Parts
  PROVE  Draw(screen, f, text)[c] = IF c \in Under(f) THEN text ELSE screen[c]
  BY DEF Draw, PartsOf

\* A value that is drawn at its own place keeps the page, and the line of the jog page.
LEMMA DrawShows ==
  ASSUME NEW i \in 1 .. 4, NEW f \in InSequence(FieldsOf[i]), NEW screen, NEW text,
         text.field = f.name, PageShows(screen, i)
  PROVE  /\ PageShows(Draw(screen, f, text), i)
         /\ \A c \in PartsOf[JogField] : Draw(screen, f, text)[c] = screen[c]
  <1>1. f \in AllFields /\ Under(f) \subseteq LowerRows
    BY FieldsAreLow
  <1>2. ASSUME NEW c \in LowerRows PROVE Draw(screen, f, text)[c].field \in Expected[i][c]
    <2>1. c \in Parts
      BY LowerIs
    <2>2. Draw(screen, f, text)[c] = IF c \in Under(f) THEN text ELSE screen[c]
      BY <1>1, <2>1, DrawIs
    <2>3. c \in Under(f) => f.name \in Expected[i][c]
      BY ExpectedIs
    <2> QED
      BY <2>2, <2>3 DEF PageShows
  <1>3. ASSUME NEW c \in PartsOf[JogField] PROVE Draw(screen, f, text)[c] = screen[c]
    <2>1. JogField \in AllFields /\ Under(JogField) \cap LowerRows = {} /\ Under(JogField) \subseteq Parts
      BY StatusLineIsHigh
    <2>2. c \in Under(JogField)
      BY <2>1 DEF PartsOf
    <2>3. c \in Parts /\ c \notin Under(f)
      BY <1>1, <2>1, <2>2
    <2> QED
      BY <1>1, <2>3, DrawIs
  <1> QED
    BY <1>2, <1>3 DEF PageShows

\* The status line and the line of the jog page leave the lower rows alone.
LEMMA HighDrawIs ==
  ASSUME NEW f \in {FileField, StateField, CoolantField, RunField, JogField}, NEW screen, NEW text,
         NEW c \in LowerRows
  PROVE  Draw(screen, f, text)[c] = screen[c]
  <1>1. f \in AllFields /\ Under(f) \cap LowerRows = {}
    BY StatusLineIsHigh
  <1>2. c \in Parts /\ c \notin Under(f)
    BY <1>1, LowerIs
  <1> QED
    BY <1>1, <1>2, DrawIs

LEMMA LinesLeaveRows ==
  ASSUME NEW screen, NEW c \in LowerRows
  PROVE  /\ DrawRest(screen)[c] = screen[c]
         /\ JogLine(screen)[c] = screen[c]
  <1>1. JogLine(screen)[c] = screen[c]
    BY HighDrawIs DEF JogLine
  <1>2. Draw(screen, StateField, Text(StateField, dp_state))[c] = screen[c]
    BY HighDrawIs
  <1>3. DrawRest(screen)[c] = Draw(screen, StateField, Text(StateField, dp_state))[c]
    BY HighDrawIs DEF DrawRest
  <1> QED
    BY <1>1, <1>2, <1>3

LEMMA JogLineIsDrawn ==
  ASSUME NEW screen
  PROVE  \A c \in PartsOf[JogField] : JogLine(screen)[c].field = "jog"
  <1>1. JogField \in AllFields /\ Under(JogField) \subseteq Parts
    BY StatusLineIsHigh
  <1>2. PartsOf[JogField] = Under(JogField)
    BY <1>1 DEF PartsOf
  <1>3. Text(JogField, 0).field = "jog"
    BY DEF Text, JogField, Field
  <1>4. \A c \in Under(JogField) : JogLine(screen)[c] = Text(JogField, 0)
    BY <1>1, DrawIs DEF JogLine
  <1> QED
    BY <1>2, <1>3, <1>4

-----------------------------------------------------------------------------
(* The rounds: every value is drawn by the step after the one that renders it. *)
LEMMA RoundsAre ==
  /\ \A i \in 1 .. 3 :
       /\ Len(FieldsOf[i]) \in 1 .. 11
       /\ DOMAIN FieldsOf[i] = 1 .. Len(FieldsOf[i])
       /\ StepsOf[i] = RenderAndDraw(FieldsOf[i])
  /\ StepsOf[4] = VelocitySteps
  <1>1. \A i \in 1 .. 3 : StepsOf[i] = RenderAndDraw(FieldsOf[i])
    BY DEF StepsOf
  <1>2. StepsOf[4] = VelocitySteps
    BY DEF StepsOf
  <1>3. ASSUME NEW i \in 1 .. 3
        PROVE  /\ DOMAIN FieldsOf[i] = 1 .. Len(FieldsOf[i]) /\ Len(FieldsOf[i]) \in 1 .. 11
    <2>1. CASE i = 1
      BY <2>1 DEF FieldsOf, PositionFields, Field
    <2>2. CASE i = 2
      BY <2>2 DEF FieldsOf, GCodeFields, Field
    <2>3. CASE i = 3
      BY <2>3 DEF FieldsOf, OverrideFields, Field
    <2> QED
      BY <2>1, <2>2, <2>3
  <1> QED
    BY <1>1, <1>2, <1>3 DEF InSequence

LEMMA RenderAndDrawIs ==
  ASSUME NEW fields, NEW n \in Nat, n = Len(fields), NEW q \in 1 .. 2 * n
  PROVE  /\ Len(RenderAndDraw(fields)) = 2 * n
         /\ RenderAndDraw(fields)[q] = <<IF q % 2 = 1 THEN "render" ELSE "draw", fields[(q + 1) \div 2]>>
  <1> DEFINE step(i) == <<IF i % 2 = 1 THEN "render" ELSE "draw", fields[(i + 1) \div 2]>>
  <1>1. RenderAndDraw(fields) = [i \in 1 .. 2 * n |-> step(i)]
    BY DEF RenderAndDraw
  <1> HIDE DEF step
  <1>2. 2 * n \in Nat
    OBVIOUS
  <1>3. DOMAIN RenderAndDraw(fields) = 1 .. 2 * n
    BY <1>1
  <1>4. Len(RenderAndDraw(fields)) = 2 * n
    <2>1. RenderAndDraw(fields) \in Seq({step(i) : i \in 1 .. 2 * n})
      BY <1>1, <1>2, IsASeq
    <2> QED
      BY <1>2, <1>3, <2>1, LenProperties
  <1>5. RenderAndDraw(fields)[q] = step(q)
    BY <1>1
  <1> QED
    BY <1>4, <1>5 DEF step

\* The kinds of steps, and the step that follows one.
StepKinds == {"render", "draw", "measure", "divide"}
IsStep(i, p) ==
  LET step == StepsOf[i][p + 1] IN
  /\ step[1] \in StepKinds /\ step[2] \in InSequence(FieldsOf[i])
  /\ step[1] = "render" => p + 1 < Len(StepsOf[i]) /\ StepsOf[i][p + 2] = <<"draw", step[2]>>
  /\ step[1] # "render" /\ p + 1 < Len(StepsOf[i]) => StepsOf[i][p + 2][1] # "draw"

LEMMA StepsAre ==
  ASSUME NEW i \in 1 .. 4, NEW p \in Nat, p < Len(StepsOf[i])
  PROVE  IsStep(i, p)
  <1>1. CASE i \in 1 .. 3
    <2> DEFINE fields == FieldsOf[i]
               n == Len(fields)
    <2>1. n \in 1 .. 11 /\ DOMAIN fields = 1 .. n /\ StepsOf[i] = RenderAndDraw(fields)
      BY <1>1, RoundsAre
    <2>0. n = Len(fields) /\ n \in Nat
      BY <2>1
    <2> HIDE DEF fields, n
    <2>2. Len(StepsOf[i]) = 2 * n
      <3>1. 1 \in 1 .. 2 * n
        BY <2>1
      <3>2. Len(RenderAndDraw(fields)) = 2 * n
        BY <2>0, <3>1, RenderAndDrawIs
      <3> QED
        BY <2>1, <3>2
    <2>3. \A q \in 1 .. 2 * n :
            StepsOf[i][q] = <<IF q % 2 = 1 THEN "render" ELSE "draw", fields[(q + 1) \div 2]>>
      BY <2>0, <2>1, RenderAndDrawIs
    <2>4. p + 1 \in 1 .. 2 * n
      BY <2>1, <2>2
    <2>5. (p + 1 + 1) \div 2 \in 1 .. n
      BY <2>1, <2>4
    <2>6. StepsOf[i][p + 1][2] \in InSequence(fields)
      <3>1. StepsOf[i][p + 1][2] = fields[(p + 1 + 1) \div 2]
        BY <2>3, <2>4
      <3>2. (p + 1 + 1) \div 2 \in DOMAIN fields
        BY <2>1, <2>5
      <3> QED
        BY <3>1, <3>2 DEF InSequence
    <2>7. CASE (p + 1) % 2 = 1
      <3>1. p + 2 \in 1 .. 2 * n /\ (p + 2) % 2 # 1 /\ (p + 2 + 1) \div 2 = (p + 1 + 1) \div 2
        BY <2>1, <2>4, <2>7
      <3>2. StepsOf[i][p + 1] = <<"render", fields[(p + 1 + 1) \div 2]>>
        BY <2>3, <2>4, <2>7
      <3>3. StepsOf[i][p + 2] = <<"draw", fields[(p + 1 + 1) \div 2]>>
        BY <2>3, <3>1
      <3>4. p + 1 < Len(StepsOf[i])
        BY <2>1, <2>2, <3>1
      <3> QED
        BY <2>6, <3>2, <3>3, <3>4 DEF IsStep, StepKinds, fields
    <2>8. CASE (p + 1) % 2 # 1
      <3>1. StepsOf[i][p + 1] = <<"draw", fields[(p + 1 + 1) \div 2]>>
        BY <2>3, <2>4, <2>8
      <3>2. ASSUME p + 1 < Len(StepsOf[i]) PROVE StepsOf[i][p + 2][1] # "draw"
        <4>1. p + 2 \in 1 .. 2 * n /\ (p + 2) % 2 = 1
          BY <2>1, <2>2, <2>8, <3>2
        <4> QED
          BY <2>3, <4>1
      <3> QED
        BY <2>6, <3>1, <3>2 DEF IsStep, StepKinds, fields
    <2> QED
      BY <2>7, <2>8
  <1>2. CASE i = 4
    <2>1. StepsOf[i] = VelocitySteps /\ InSequence(FieldsOf[i]) = {Rpm, Velocity}
      <3>1. FieldsOf[i] = VelocityFields
        BY <1>2 DEF FieldsOf
      <3>2. DOMAIN VelocityFields = {1, 2}
        BY DEF VelocityFields
      <3> QED
        BY <1>2, <3>1, <3>2, RoundsAre, VelocityLies DEF InSequence
    <2>2. Len(VelocitySteps) = 6
          /\ VelocitySteps[1] = <<"render", Rpm>> /\ VelocitySteps[2] = <<"draw", Rpm>>
          /\ VelocitySteps[3] = <<"measure", Velocity>> /\ VelocitySteps[4] = <<"divide", Velocity>>
          /\ VelocitySteps[5] = <<"render", Velocity>> /\ VelocitySteps[6] = <<"draw", Velocity>>
      BY DEF VelocitySteps
    <2>3. p \in {0, 1, 2, 3, 4, 5}
      BY <2>1, <2>2
    <2>4. CASE p = 0
      BY <2>1, <2>2, <2>4 DEF IsStep, StepKinds
    <2>5. CASE p = 1
      BY <2>1, <2>2, <2>5 DEF IsStep, StepKinds
    <2>6. CASE p = 2
      BY <2>1, <2>2, <2>6 DEF IsStep, StepKinds
    <2>7. CASE p = 3
      BY <2>1, <2>2, <2>7 DEF IsStep, StepKinds
    <2>8. CASE p = 4
      BY <2>1, <2>2, <2>8 DEF IsStep, StepKinds
    <2>9. CASE p = 5
      BY <2>1, <2>2, <2>9 DEF IsStep, StepKinds
    <2> QED
      BY <2>3, <2>4, <2>5, <2>6, <2>7, <2>8, <2>9
  <1> QED
    BY <1>1, <1>2

\* A round begins by rendering, and is shorter than what an override may leave in its counter.
LEMMA RoundsBegin ==
  ASSUME NEW i \in 1 .. 4
  PROVE  Len(StepsOf[i]) \in 1 .. 22 /\ StepsOf[i][1][1] # "draw"
  <1>1. CASE i \in 1 .. 3
    <2> DEFINE n == Len(FieldsOf[i])
    <2>1. n \in 1 .. 11 /\ StepsOf[i] = RenderAndDraw(FieldsOf[i])
      BY <1>1, RoundsAre
    <2> HIDE DEF n
    <2>2. n \in Nat /\ 1 \in 1 .. 2 * n /\ 2 * n \in 1 .. 22 /\ 1 % 2 = 1
      BY <2>1
    <2>3. n = Len(FieldsOf[i])
      BY DEF n
    <2>4. Len(StepsOf[i]) = 2 * n
          /\ StepsOf[i][1] = <<IF 1 % 2 = 1 THEN "render" ELSE "draw", FieldsOf[i][(1 + 1) \div 2]>>
      BY <2>1, <2>2, <2>3, RenderAndDrawIs
    <2>5. StepsOf[i][1][1] = "render"
      BY <2>2, <2>4
    <2> QED
      BY <2>2, <2>4, <2>5
  <1>2. CASE i = 4
    BY <1>2, RoundsAre DEF VelocitySteps
  <1> QED
    BY <1>1, <1>2

-----------------------------------------------------------------------------
(* A page, and a step of its round.                                        *)

\* What is drawn all at once is drawn over what was there.
LEMMA DrawAllIs ==
  ASSUME NEW F, NEW names, names = NamesIn(F), NEW screen, NEW value, NEW c \in Parts
  PROVE  /\ (\E f \in F : c \in Under(f)) => DrawAll(screen, names, value)[c].field = names[c]
         /\ ~(\E f \in F : c \in Under(f)) => DrawAll(screen, names, value)[c] = screen[c]
  <1>1. c \in DOMAIN names <=> \E f \in F : c \in Under(f)
    BY NamesAre
  <1>2. DrawAll(screen, names, value)[c]
        = IF c \in DOMAIN names THEN [field |-> names[c], value |-> value] ELSE screen[c]
    BY DEF DrawAll
  <1>3. [field |-> names[c], value |-> value].field = names[c]
    OBVIOUS
  <1> QED
    BY <1>1, <1>2, <1>3

LEMMA ClearedShows ==
  ASSUME NEW i \in 1 .. 4, i # 2, NEW screen, NEW value, NEW c \in LowerRows,
         \E f \in Blanks[i] : c \in Under(f)
  PROVE  DrawAll(screen, BlanksOf[i], value)[c].field \in Expected[i][c]
  <1>1. BlanksOf[i] = NamesIn(Blanks[i]) /\ c \in Parts
    BY LowerIs DEF BlanksOf
  <1> DEFINE names == BlanksOf[i]
             F == Blanks[i]
  <1>2. names = NamesIn(F) /\ \E f \in F : c \in Under(f)
    BY <1>1
  <1> HIDE DEF names, F
  <1>3. DrawAll(screen, names, value)[c].field = names[c]
    BY <1>1, <1>2, DrawAllIs
  <1>4. \E f \in F : c \in Under(f) /\ names[c] = f.name
    BY <1>2, NamesAre
  <1> QED
    BY <1>3, <1>4, ExpectedIs DEF names, F

\* A page that is drawn afresh shows nothing of the page before.
LEMMA FreshPageShows ==
  ASSUME NEW i \in 1 .. 4, NEW screen, NEW value, NEW shown,
         shown = IF i = 4 THEN DrawAll(screen, BlanksOf[i], 0)
                 ELSE DrawAll(DrawAll(screen, BlanksOf[i], 0), NamesOf[i], value)
  PROVE  PageShows(shown, i)
  <1> DEFINE blanked == DrawAll(screen, BlanksOf[i], 0)
  <1> SUFFICES ASSUME NEW c \in LowerRows PROVE shown[c].field \in Expected[i][c]
    BY DEF PageShows
  <1>1. c \in Parts /\ NamesOf[i] = NamesIn(InSequence(FieldsOf[i]))
    BY LowerIs DEF NamesOf
  <1>2. CASE i # 4 /\ \E f \in InSequence(FieldsOf[i]) : c \in Under(f)
    <2> DEFINE names == NamesOf[i]
               F == InSequence(FieldsOf[i])
    <2> HIDE DEF blanked, names, F
    <2>1. names = NamesIn(F) /\ (\E f \in F : c \in Under(f)) /\ shown = DrawAll(blanked, names, value)
      BY <1>1, <1>2 DEF blanked, names, F
    <2>2. shown[c].field = names[c]
      BY <1>1, <2>1, DrawAllIs
    <2>3. \E f \in F : c \in Under(f) /\ names[c] = f.name
      BY <2>1, NamesAre
    <2> QED
      BY <2>2, <2>3, ExpectedIs DEF F
  <1>3. CASE ~(i # 4 /\ \E f \in InSequence(FieldsOf[i]) : c \in Under(f))
    <2>1. i # 2 /\ \E f \in Blanks[i] : c \in Under(f)
      BY <1>3, PageIsCovered
    <2>2. blanked[c].field \in Expected[i][c]
      BY <2>1, ClearedShows
    <2>3. shown[c] = blanked[c]
      <3>1. CASE i = 4
        BY <3>1
      <3>2. CASE i # 4
        <4> DEFINE names == NamesOf[i]
                   F == InSequence(FieldsOf[i])
        <4> HIDE DEF blanked, names, F
        <4>1. names = NamesIn(F) /\ ~(\E f \in F : c \in Under(f)) /\ shown = DrawAll(blanked, names, value)
          BY <1>1, <1>3, <3>2 DEF blanked, names, F
        <4> QED
          BY <1>1, <4>1, DrawAllIs
      <3> QED
        BY <3>1, <3>2
    <2> QED
      BY <2>2, <2>3
  <1> QED
    BY <1>2, <1>3

\* The position page leaves the line of the jog page alone.
LEMMA PositionLeavesLine ==
  ASSUME NEW screen, NEW value, NEW c \in PartsOf[JogField]
  PROVE  DrawAll(DrawAll(screen, BlanksOf[1], 0), NamesOf[1], value)[c] = screen[c]
  <1>1. c \in Parts /\ c \notin LowerRows
    <2>1. JogField \in AllFields /\ Under(JogField) \cap LowerRows = {} /\ Under(JogField) \subseteq Parts
      BY StatusLineIsHigh
    <2> QED
      BY <2>1 DEF PartsOf
  <1>2. ~\E f \in Blanks[1] : c \in Under(f)
    BY <1>1, BlanksAreLow
  <1>3. ~\E f \in InSequence(FieldsOf[1]) : c \in Under(f)
    BY <1>1, FieldsAreLow
  <1> DEFINE cleared == BlanksOf[1]
             names == NamesOf[1]
             blanked == DrawAll(screen, cleared, 0)
  <1>4. cleared = NamesIn(Blanks[1]) /\ names = NamesIn(InSequence(FieldsOf[1]))
    BY DEF BlanksOf, NamesOf
  <1> HIDE DEF cleared, names
  <1>5. blanked[c] = screen[c]
    BY <1>1, <1>2, <1>4, DrawAllIs
  <1> HIDE DEF blanked
  <1>6. DrawAll(blanked, names, value)[c] = blanked[c]
    BY <1>1, <1>3, <1>4, DrawAllIs
  <1> QED
    BY <1>5, <1>6 DEF blanked, cleared, names

\* The next step draws nothing that was not rendered, if it begins a round or there is none.
LEMMA FreshRound ==
  ASSUME NEW i \in 1 .. 4
  PROVE  (dp_phase' \in {0, Overrun} => NextIsRendered(i)') /\ (dp_phase \in {0, Overrun} => NextIsRendered(i))
  <1>1. Len(StepsOf[i]) \in 1 .. 22 /\ StepsOf[i][1][1] # "draw"
    BY RoundsBegin
  <1>2. ASSUME NEW p, p \in {0, Overrun}
        PROVE  ~(p < Len(StepsOf[i]) /\ StepsOf[i][p + 1][1] = "draw")
    <2>1. CASE p = 0
      <3>1. p + 1 = 1
        BY <2>1
      <3> QED
        BY <1>1, <3>1
    <2>2. CASE p = 41
      <3> DEFINE n == Len(StepsOf[i])
      <3>1. n \in 1 .. 22
        BY <1>1
      <3> HIDE DEF n
      <3>2. ~(p < n)
        BY <2>2, <3>1
      <3> QED
        BY <3>2 DEF n
    <2> QED
      BY <1>2, <2>1, <2>2 DEF Overrun
  <1> QED
    BY <1>2 DEF NextIsRendered

\* displayPositionDRO() and the like show the page and begin its round.
LEMMA DisplayShows ==
  ASSUME NEW subPage \in 0 .. 3, NEW screen, DisplayDro(screen, subPage)
  PROVE  /\ PageShows(dp_screen', subPage + 1) /\ NextIsRendered(subPage + 1)' /\ dp_phase' \in Nat
         /\ subPage = 0 => \A c \in PartsOf[JogField] : dp_screen'[c] = screen[c]
  <1> DEFINE i == subPage + 1
  <1>1. i \in 1 .. 4 /\ (subPage = 3 <=> i = 4)
    OBVIOUS
  <1>2. dp_phase' \in {0, Overrun}
    BY DEF DisplayDro, PhaseAfterRendering
  <1>3. dp_screen' = IF i = 4 THEN DrawAll(screen, BlanksOf[i], 0)
                     ELSE DrawAll(DrawAll(screen, BlanksOf[i], 0), NamesOf[i], dp_values)
    BY <1>1 DEF DisplayDro
  <1> HIDE DEF i
  <1>4. PageShows(dp_screen', i)
    BY <1>1, <1>3, FreshPageShows
  <1>5. NextIsRendered(i)' /\ dp_phase' \in Nat
    BY <1>1, <1>2, FreshRound DEF Overrun
  <1>6. ASSUME subPage = 0 PROVE \A c \in PartsOf[JogField] : dp_screen'[c] = screen[c]
    <2>1. i = 1
      BY <1>6 DEF i
    <2> QED
      BY <1>3, <2>1, PositionLeavesLine
  <1> QED
    BY <1>4, <1>5, <1>6 DEF i

\* A step of the round of a page keeps the page and what the next step expects.
LEMMA UpdateShows ==
  ASSUME NEW subPage \in 0 .. 3, UpdateDro(subPage), dp_phase \in Nat,
         PageShows(dp_screen, subPage + 1), NextIsRendered(subPage + 1)
  PROVE  /\ PageShows(dp_screen', subPage + 1) /\ NextIsRendered(subPage + 1)' /\ dp_phase' \in Nat
         /\ \A c \in PartsOf[JogField] : dp_screen'[c] = dp_screen[c]
  <1> DEFINE i == subPage + 1
             count == Len(StepsOf[i])
             step == StepsOf[i][dp_phase + 1]
             next == StepsOf[i][dp_phase + 2]
  <1>0. i = subPage + 1
    OBVIOUS
  <1>1. i \in 1 .. 4 /\ count \in 1 .. 22
    BY RoundsBegin
  <1>2. dp_phase < count => DoStep(step, count)
    BY DEF UpdateDro
  <1>3. dp_phase >= count => dp_phase' = 0 /\ dp_screen' = dp_screen
    BY <1>1 DEF UpdateDro
  <1>4. PageShows(dp_screen, i) /\ (dp_phase < count /\ step[1] = "draw" => dp_buffer.field = step[2].name)
    BY DEF NextIsRendered
  <1>5. dp_phase < count =>
          /\ step[1] \in StepKinds /\ step[2] \in InSequence(FieldsOf[i])
          /\ step[1] = "render" => dp_phase + 1 < count /\ next = <<"draw", step[2]>>
          /\ step[1] # "render" /\ dp_phase + 1 < count => next[1] # "draw"
    BY <1>1, StepsAre DEF IsStep
  <1>6. ASSUME dp_phase' = dp_phase + 1, next[1] = "draw" => dp_buffer'.field = next[2].name
        PROVE  NextIsRendered(i)'
    <2>1. dp_phase' + 1 = dp_phase + 2
      BY <1>6
    <2>2. StepsOf[i][dp_phase' + 1] = next
      BY <2>1
    <2> QED
      BY <1>6, <2>2 DEF NextIsRendered
  <1> HIDE DEF i, count, step, next
  <1>7. CASE dp_phase >= count
    BY <1>0, <1>1, <1>3, <1>4, <1>7, FreshRound
  <1>8. CASE dp_phase < count /\ step[1] = "render"
    <2>1. Render(step[2], count)
      BY <1>2, <1>8 DEF DoStep
    <2>2. dp_screen' = dp_screen /\ dp_buffer'.field = step[2].name
      BY <2>1 DEF Render, Text
    <2>3. dp_phase' \in {0, dp_phase + 1}
      BY <1>1, <2>1 DEF Render, Advanced, PhaseAfterRendering, Overrun
    <2>4. dp_phase' = 0 => NextIsRendered(i)'
      BY <1>1, FreshRound
    <2>5. dp_phase' = dp_phase + 1 => NextIsRendered(i)'
      BY <1>5, <1>6, <1>8, <2>2
    <2> QED
      BY <1>0, <1>4, <2>2, <2>3, <2>4, <2>5
  <1>9. CASE dp_phase < count /\ step[1] = "draw"
    <2>1. DrawBuffer(step[2], count)
      BY <1>2, <1>9 DEF DoStep
    <2>2. dp_screen' = Draw(dp_screen, step[2], dp_buffer)
          /\ (dp_phase' = 0 \/ (dp_phase' = dp_phase + 1 /\ dp_phase + 1 < count))
      BY <1>1, <2>1 DEF DrawBuffer, Advanced
    <2>3. PageShows(dp_screen', i) /\ \A c \in PartsOf[JogField] : dp_screen'[c] = dp_screen[c]
      BY <1>1, <1>4, <1>5, <1>9, <2>2, DrawShows
    <2>4. dp_phase' = 0 => NextIsRendered(i)'
      BY <1>1, FreshRound
    <2>5. dp_phase' = dp_phase + 1 /\ dp_phase + 1 < count => NextIsRendered(i)'
      BY <1>5, <1>6, <1>9
    <2> QED
      BY <1>0, <2>2, <2>3, <2>4, <2>5
  <1>10. CASE dp_phase < count /\ step[1] \in {"measure", "divide"}
    <2>1. Measure(count) \/ Divide(count)
      BY <1>2, <1>10 DEF DoStep
    <2>2. dp_screen' = dp_screen
          /\ (dp_phase' = 0 \/ (dp_phase' = dp_phase + 1 /\ dp_phase + 1 < count))
      BY <1>1, <2>1 DEF Measure, Divide, Advanced
    <2>3. dp_phase' = 0 => NextIsRendered(i)'
      BY <1>1, FreshRound
    <2>4. dp_phase' = dp_phase + 1 /\ dp_phase + 1 < count => NextIsRendered(i)'
      BY <1>5, <1>6, <1>10
    <2> QED
      BY <1>0, <1>4, <2>2, <2>3, <2>4
  <1> QED
    BY <1>1, <1>5, <1>7, <1>8, <1>9, <1>10 DEF StepKinds

-----------------------------------------------------------------------------
LEMMA SameRound ==
  ASSUME NEW i \in 1 .. 4, UNCHANGED <<dp_phase, dp_buffer>>, NextIsRendered(i)
  PROVE  NextIsRendered(i)'
  BY DEF NextIsRendered

LEMMA StatusPageHolds ==
  ASSUME NEW subPage \in 0 .. 3, dp_page' = "status", dp_subPage' = subPage, dp_phase' \in Nat,
         PageShows(dp_screen', subPage + 1), NextIsRendered(subPage + 1)'
  PROVE  TextsInTheirPlaces'
  BY DEF TextsInTheirPlaces, PageShows, NextIsRendered

LEMMA JogPageHolds ==
  ASSUME dp_page' = "jog", dp_subPage' \in 0 .. 3, dp_phase' \in Nat, ~dp_rest',
         PageShows(dp_screen', 1), NextIsRendered(1)',
         \A c \in PartsOf[JogField] : dp_screen'[c].field = "jog"
  PROVE  TextsInTheirPlaces'
  BY DEF TextsInTheirPlaces, PageShows

LEMMA OtherPageHolds ==
  ASSUME dp_page' \in {"menu", "calculator"}, dp_subPage' \in 0 .. 3, dp_phase' \in Nat, ~dp_rest'
  PROVE  TextsInTheirPlaces'
  BY DEF TextsInTheirPlaces

LEMMA StatusPageIs ==
  ASSUME TextsInTheirPlaces, dp_page = "status", NEW subPage \in 0 .. 3, dp_subPage = subPage
  PROVE  PageShows(dp_screen, subPage + 1) /\ NextIsRendered(subPage + 1) /\ dp_phase \in Nat
  BY DEF TextsInTheirPlaces, PageShows, NextIsRendered

LEMMA JogPageIs ==
  ASSUME TextsInTheirPlaces, dp_page = "jog"
  PROVE  /\ PageShows(dp_screen, 1) /\ NextIsRendered(1) /\ dp_phase \in Nat /\ dp_subPage \in 0 .. 3
         /\ \A c \in PartsOf[JogField] : dp_screen[c].field = "jog"
  BY DEF TextsInTheirPlaces, PageShows

\* The display is cleared when it starts, and shows the position page and a status line.
LEMMA DpInitShows == DpInit => TextsInTheirPlaces
  <1> SUFFICES ASSUME DpInit PROVE TextsInTheirPlaces
    OBVIOUS
  <1> DEFINE blank == [c \in Parts |-> [field |-> "blank", value |-> 0]]
             names == NamesOf[1]
             page == DrawAll(blank, names, 0)
             lineFields == {FileField, StateField, CoolantField}
             line == NamesIn(lineFields)
             fields == InSequence(FieldsOf[1])
  <1>1. names = NamesIn(fields) /\ dp_screen = DrawAll(page, line, 0)
    BY DEF DpInit, NamesOf
  <1>2. ASSUME NEW c \in LowerRows PROVE dp_screen[c].field \in Expected[1][c]
    <2>1. c \in Parts /\ blank[c].field = "blank"
      BY LowerIs
    <2>2. ~\E f \in lineFields : c \in Under(f)
      BY StatusLineIsHigh
    <2> HIDE DEF blank, names, line, lineFields, fields, page
    <2>3. dp_screen[c] = page[c]
      <3>1. line = NamesIn(lineFields)
        BY DEF line
      <3> QED
        BY <1>1, <2>1, <2>2, <3>1, DrawAllIs
    <2>4. CASE \E f \in fields : c \in Under(f)
      <3>1. page[c].field = names[c]
        BY <1>1, <2>1, <2>4, DrawAllIs DEF page
      <3>2. \E f \in fields : c \in Under(f) /\ names[c] = f.name
        BY <1>1, <2>4, NamesAre
      <3> QED
        BY <2>3, <3>1, <3>2, ExpectedIs DEF fields
    <2>5. CASE ~\E f \in fields : c \in Under(f)
      <3>1. page[c] = blank[c]
        BY <1>1, <2>1, <2>5, DrawAllIs DEF page
      <3>2. \E f \in Blanks[1] : c \in Under(f)
        BY <2>5, PageIsCovered DEF fields
      <3>3. \A f \in Blanks[1] : f.name = "blank"
        BY DEF Blanks, Field
      <3> QED
        BY <2>1, <2>3, <3>1, <3>2, <3>3, ExpectedIs
    <2> QED
      BY <2>4, <2>5
  <1>3. NextIsRendered(1)
    BY FreshRound DEF DpInit
  <1> QED
    BY <1>2, <1>3 DEF DpInit, TextsInTheirPlaces

\* Update: one step of the page in view.
LEMMA UpdateHolds ==
  ASSUME TextsInTheirPlaces, Update
  PROVE  TextsInTheirPlaces'
  <1>1. CASE dp_page = "status" /\ dp_page' = dp_page /\ dp_subPage' = dp_subPage
    <2>1. PICK subPage \in 0 .. 3 : dp_subPage = subPage
      BY DEF TextsInTheirPlaces
    <2>2. PageShows(dp_screen, subPage + 1) /\ NextIsRendered(subPage + 1) /\ dp_phase \in Nat
      BY <1>1, <2>1, StatusPageIs
    <2>3. subPage + 1 \in 1 .. 4
      OBVIOUS
    <2>4. ASSUME UNCHANGED <<dp_phase, dp_buffer>>, \A c \in LowerRows : dp_screen'[c] = dp_screen[c]
          PROVE  TextsInTheirPlaces'
      <3>1. NextIsRendered(subPage + 1)' /\ PageShows(dp_screen', subPage + 1)
        BY <2>2, <2>3, <2>4, SameRound DEF PageShows
      <3> QED
        BY <1>1, <2>1, <2>2, <2>4, <3>1, StatusPageHolds
    <2>5. CASE RunIndicator
      <3>1. dp_screen' = Draw(dp_screen, RunField, Text(RunField, dp_state))
            /\ UNCHANGED <<dp_phase, dp_buffer>>
        BY <2>5 DEF RunIndicator, dp_dro
      <3> QED
        BY <2>4, <3>1, HighDrawIs
    <2>6. CASE StatusLine
      <3>1. dp_screen' = Draw(dp_screen, FileField, Text(FileField, FileValue))
            /\ UNCHANGED <<dp_phase, dp_buffer>>
        BY <2>6 DEF StatusLine, dp_dro
      <3> QED
        BY <2>4, <3>1, HighDrawIs
    <2>7. CASE RestOfStatusLine
      <3>1. dp_screen' = DrawRest(dp_screen) /\ UNCHANGED <<dp_phase, dp_buffer>>
        BY <2>7 DEF RestOfStatusLine, dp_dro
      <3> QED
        BY <2>4, <3>1, LinesLeaveRows
    <2>8. CASE StatusValue
      <3>1. UpdateDro(subPage)
        BY <2>1, <2>8 DEF StatusValue
      <3>2. PageShows(dp_screen', subPage + 1) /\ NextIsRendered(subPage + 1)' /\ dp_phase' \in Nat
        BY <2>2, <3>1, UpdateShows
      <3> QED
        BY <1>1, <2>1, <3>2, StatusPageHolds
    <2>9. ~JogValue
      BY <1>1 DEF JogValue
    <2> QED
      BY <2>5, <2>6, <2>7, <2>8, <2>9 DEF Update
  <1>2. CASE JogValue
    <2>1. dp_page = "jog" /\ dp_page' = "jog" /\ ~dp_rest /\ dp_rest' = dp_rest
          /\ dp_subPage' = dp_subPage /\ UpdateDro(0)
      BY <1>2 DEF JogValue, dp_line
    <2>2. PageShows(dp_screen, 0 + 1) /\ NextIsRendered(0 + 1) /\ dp_phase \in Nat
          /\ dp_subPage \in 0 .. 3 /\ \A c \in PartsOf[JogField] : dp_screen[c].field = "jog"
      BY <2>1, JogPageIs
    <2>3. PageShows(dp_screen', 0 + 1) /\ NextIsRendered(0 + 1)' /\ dp_phase' \in Nat
          /\ \A c \in PartsOf[JogField] : dp_screen'[c] = dp_screen[c]
      <3>1. 0 \in 0 .. 3
        OBVIOUS
      <3> QED
        BY <2>1, <2>2, <3>1, UpdateShows
    <2> QED
      BY <2>1, <2>2, <2>3, JogPageHolds
  <1>3. CASE RunIndicator \/ StatusLine \/ StatusValue
    BY <1>1, <1>3 DEF RunIndicator, StatusLine, StatusValue, StatusUpdate
  <1>4. CASE RestOfStatusLine
    <2>1. dp_rest /\ dp_page' = dp_page /\ dp_subPage' = dp_subPage
      BY <1>4 DEF RestOfStatusLine
    <2> QED
      BY <1>1, <2>1 DEF TextsInTheirPlaces
  <1> QED
    BY <1>2, <1>3, <1>4 DEF Update

\* A page that is entered, or whose sub page is turned, is drawn afresh.
LEMMA EnteredHolds ==
  ASSUME NEW subPage \in 0 .. 3, NEW screen, DisplayDro(screen, subPage),
         dp_page' = "status", dp_subPage' = subPage
  PROVE  TextsInTheirPlaces'
  BY DisplayShows, StatusPageHolds

LEMMA InputHolds ==
  ASSUME TextsInTheirPlaces, GoToStatus \/ GoToJog \/ GoToOther \/ RunFile \/ TurnEncoder \/ JogPageKey
  PROVE  TextsInTheirPlaces'
  <1>0. 0 \in 0 .. 3 /\ dp_subPage \in 0 .. 3 /\ dp_phase \in Nat
    BY DEF TextsInTheirPlaces
  <1>1. CASE GoToStatus
    <2>1. dp_page' = "status" /\ dp_subPage' = 0 /\ DisplayDro(DrawStatusLine(dp_screen), 0)
      BY <1>1 DEF GoToStatus, StatusPage
    <2> QED
      BY <1>0, <2>1, EnteredHolds
  <1>2. CASE GoToJog
    <2>1. dp_page' = "jog" /\ DisplayDro(JogLine(dp_screen), 0) /\ dp_subPage' = dp_subPage
          /\ ~dp_rest /\ dp_rest' = dp_rest
      BY <1>2 DEF GoToJog, DpJogPage, Input, dp_line
    <2>2. PageShows(dp_screen', 0 + 1) /\ NextIsRendered(0 + 1)' /\ dp_phase' \in Nat
          /\ \A c \in PartsOf[JogField] : dp_screen'[c] = JogLine(dp_screen)[c]
      BY <1>0, <2>1, DisplayShows
    <2>3. \A c \in PartsOf[JogField] : dp_screen'[c].field = "jog"
      BY <2>2, JogLineIsDrawn
    <2> QED
      BY <1>0, <2>1, <2>2, <2>3, JogPageHolds
  <1>3. CASE GoToOther
    <2>1. dp_page' \in {"menu", "calculator"} /\ dp_subPage' = dp_subPage /\ dp_phase' = dp_phase
          /\ ~dp_rest /\ dp_rest' = dp_rest
      BY <1>3 DEF GoToOther, OtherPage, Input, dp_line
    <2> QED
      BY <1>0, <2>1, OtherPageHolds
  <1>4. CASE RunFile
    <2> DEFINE screen == DrawRest(Draw(dp_screen, FileField, Text(FileField, 1)))
    <2>1. dp_page' = "status" /\ dp_subPage' = 0 /\ DisplayDro(screen, 0)
      BY <1>4 DEF RunFile
    <2> HIDE DEF screen
    <2> QED
      BY <1>0, <2>1, EnteredHolds
  <1>5. CASE TurnEncoder
    <2>1. PICK subPage \in {dp_subPage - 1, dp_subPage + 1} \cap 0 .. 3 :
            dp_subPage' = subPage /\ DisplayDro(DrawStatusLine(dp_screen), subPage)
      BY <1>5 DEF TurnEncoder
    <2>2. subPage \in 0 .. 3 /\ dp_page' = "status"
      BY <1>5, <2>1 DEF TurnEncoder
    <2> QED
      BY <2>1, <2>2, EnteredHolds
  <1>6. CASE JogPageKey
    <2>1. PICK axis, editing : DrawJogLine(axis, editing)
      BY <1>6 DEF JogPageKey
    <2>2. dp_page = "jog" /\ dp_page' = "jog" /\ ~dp_rest /\ dp_rest' = dp_rest /\ dp_subPage' = dp_subPage
      BY <1>6 DEF JogPageKey, Input, dp_line
    <2>3. PageShows(dp_screen, 1) /\ NextIsRendered(1)
      BY <2>2, JogPageIs
    <2>4. dp_screen' = JogLine(dp_screen) /\ (dp_phase' = 0 \/ UNCHANGED <<dp_phase, dp_buffer>>)
      BY <2>1 DEF DrawJogLine
    <2>5. PageShows(dp_screen', 1) /\ \A c \in PartsOf[JogField] : dp_screen'[c].field = "jog"
      BY <2>3, <2>4, LinesLeaveRows, JogLineIsDrawn DEF PageShows
    <2>6. NextIsRendered(1)' /\ dp_phase' \in Nat
      BY <1>0, <2>3, <2>4, FreshRound, SameRound
    <2> QED
      BY <1>0, <2>2, <2>5, <2>6, JogPageHolds
  <1> QED
    BY <1>1, <1>2, <1>3, <1>4, <1>5, <1>6

\* The machine changes nothing of what is shown.
LEMMA MachineHolds ==
  ASSUME TextsInTheirPlaces, UNCHANGED <<dp_page, dp_subPage, dp_dro, dp_screen, dp_rest>>
  PROVE  TextsInTheirPlaces'
  BY DEF TextsInTheirPlaces, NextIsRendered, dp_dro

\* No page shows the text of another one, or a value at the place of another one, whatever
\* was left in the buffer and in the counter of the values by the pages before, by the line
\* of the jog page or by the calculator (drawDROText, UISupport.cpp).
THEOREM EveryTextInItsPlace == DpSpec => []TextsInTheirPlaces
  <1>1. DpInit => TextsInTheirPlaces
    BY DpInitShows
  <1>2. TextsInTheirPlaces /\ [DpNext]_dpVars => TextsInTheirPlaces'
    <2> SUFFICES ASSUME TextsInTheirPlaces, [DpNext]_dpVars PROVE TextsInTheirPlaces'
      OBVIOUS
    <2>1. CASE Update
      BY <2>1, UpdateHolds
    <2>2. CASE GoToStatus \/ GoToJog \/ GoToOther \/ RunFile \/ TurnEncoder \/ JogPageKey
      BY <2>2, InputHolds
    <2>3. CASE ChangeValues \/ ChangeState \/ FileIsClosed \/ SDParseError
      BY <2>3, MachineHolds DEF ChangeValues, ChangeState, FileIsClosed, SDParseError, dp_line
    <2>4. CASE UNCHANGED dpVars
      BY <2>4, MachineHolds DEF dpVars, dp_line
    <2> QED
      BY <2>1, <2>2, <2>3, <2>4 DEF DpNext
  <1> QED
    BY <1>1, <1>2, PTL DEF DpSpec
=============================================================================
