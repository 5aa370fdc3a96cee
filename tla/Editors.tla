-------------------------------- MODULE Editors --------------------------------
(***************************************************************************)
(* The pages of the user interface that select from a list and edit values *)
(* (UISupport.cpp): menus, forms, the tool data, the files of the SD card  *)
(* and the calculator.  They share one edit buffer.  Each page is filled   *)
(* by its activate() and left by a key that every page has, and reads      *)
(* nothing of the others: a behaviour visits one of them again and again.  *)
(*                                                                         *)
(* A text in the edit buffer is the value it reads as, or NoText.  A key   *)
(* makes any other text of it, as long as there is room; how many digits   *)
(* fit is left out, except that the tool page shows six characters.        *)
(***************************************************************************)
EXTENDS Integers, Sequences, SequencesExt

CONSTANTS
  EdMenu,      \* the entries of the menu: "title", "entry", "separator", "end"
  EdForm,      \* the entries of the form: "number", "checkbox", "separator", "end"
  MAX_TOOL_NUMBER,
  EdFiles,     \* the numbers of files that a card may hold
  EdLengths,   \* tool data, in 1/1000 mm
  RpnDepth, RpnModulus

ASSUME EdAssumption ==
  /\ EdMenu \in Seq({"title", "entry", "separator", "end"}) /\ Len(EdMenu) > 2
  /\ \A i \in 1..Len(EdMenu) : /\ EdMenu[i] = "title" <=> i = 1
                               /\ EdMenu[i] = "end" <=> i = Len(EdMenu)
  /\ EdMenu[2] = "entry" /\ EdMenu[Len(EdMenu) - 1] = "entry"
  /\ EdForm \in Seq({"number", "checkbox", "separator", "end"}) /\ Len(EdForm) > 0
  /\ \A i \in 1..Len(EdForm) : EdForm[i] = "end" <=> i = Len(EdForm)
  /\ EdForm[1] # "separator"
  /\ \A list \in {EdMenu, EdForm} : \A i \in 1..Len(list) - 1 :
       list[i] = "separator" => list[i + 1] # "separator"
  /\ MAX_TOOL_NUMBER \in Nat /\ EdFiles \subseteq Nat /\ EdLengths \subseteq Nat
  /\ RpnDepth \in Nat \ {0, 1} /\ RpnModulus \in Nat \ {0}

VARIABLES
  ed_visits,                 \* the page that this behaviour visits
  ed_page,                   \* that, or "status"
  ed_selection, ed_scroll,   \* selectionOffset and scrollOffset of the page
  ed_text,                   \* editBuffer
  ed_values,                 \* activeFormValues, and whether each is valid
  ed_saved,                  \* what the form's function was called with last
  ed_tools,                  \* lengths and diameters in the EEPROM
  ed_typed,                  \* what the operator entered last, or was shown
  ed_stack, ed_top,          \* stack and stackTop
  ed_editing,                \* the calculator's line is being edited
  ed_files                   \* SD_directory_count

ed_form == <<ed_values, ed_saved>>
ed_rpn == <<ed_stack, ed_top, ed_editing>>
edVars == <<ed_visits, ed_page, ed_selection, ed_scroll, ed_text, ed_form, ed_tools, ed_typed,
            ed_rpn, ed_files>>

EdPages == {"menu", "form", "tools", "directory", "rpn"}
NoText == -1
FormEntries == 0..Len(EdForm) - 1
FormNumbers == {i \in FormEntries : EdForm[i + 1] = "number"}
FormTexts == {0, 1}
ToolEntries == 0..2 * MAX_TOOL_NUMBER + 1
RpnTexts == 0..RpnModulus - 1

\* sPrintFloat(editBuffer, 6, value / 1000.0, 3): what does not fit is cut off.
ToolText(v) ==
  CASE v = 0 -> NoText
    [] 0 < v /\ v < 100000 -> v
    [] 100000 <= v /\ v < 1000000 -> v - (v % 10)
    [] OTHER -> v - (v % 100)
\* stringToFloat() of an empty text is zero.
TextValue(text) == IF text = NoText THEN 0 ELSE text

\* The last line of a list, and the step over a separator.
EndOf(page) ==
  CASE page = "menu" -> Len(EdMenu) - 2
    [] page = "form" -> Len(EdForm) - 1
    [] page = "tools" -> 2 * MAX_TOOL_NUMBER
    [] OTHER -> ed_files - 1
IsSeparatorOfMenu(page, i) == page = "menu" /\ EdMenu[i + 1] = "separator"
IsSeparator(page, i) ==
  \/ page = "menu" /\ EdMenu[i + 1] = "separator"
  \/ page = "form" /\ EdForm[i + 1] = "separator"

\* loadEditBuffer(); the first one always shows the length.
TextOfLength(page, i, values, tools) ==
  CASE page = "form" -> IF i \in FormNumbers /\ values[i].valid THEN values[i].value ELSE NoText
    [] page = "tools" -> ToolText(tools[i - (i % 2)])
    [] OTHER -> NoText
TextOf(page, i, values, tools) ==
  CASE page = "form" -> IF i \in FormNumbers /\ values[i].valid THEN values[i].value ELSE NoText
    [] page = "tools" -> ToolText(tools[i])
    [] OTHER -> NoText

-----------------------------------------------------------------------------
(* Lists.                                                                  *)

IsList == ed_page \in {"menu", "form", "tools", "directory"}

AcceptNothing == UNCHANGED <<ed_values, ed_tools, ed_typed>>

\* acceptInput(): the text becomes the value of the entry, or the tool's.
AcceptValue ==
  /\ ed_values' = IF ed_selection \notin FormNumbers THEN ed_values
                  ELSE [ed_values EXCEPT ![ed_selection] =
                          IF ed_text = NoText THEN [@ EXCEPT !.valid = FALSE]
                          ELSE [value |-> ed_text, valid |-> TRUE]]
  /\ UNCHANGED <<ed_tools, ed_typed>>
AcceptTool ==
  /\ ed_tools' = [ed_tools EXCEPT ![ed_selection] = TextValue(ed_text)]
  /\ UNCHANGED <<ed_values, ed_typed>>

Stay == UNCHANGED <<ed_selection, ed_scroll, ed_text>>
Load == ed_text' = TextOf(ed_page, ed_selection', ed_values', ed_tools')
OnListPage(page) == ed_page = page /\ UNCHANGED <<ed_page, ed_saved, ed_rpn, ed_files>>

\* UIEncoderALeft() of the lists: over a separator, and the display follows.
GoUp(first) ==
  IF ed_selection = first THEN Stay
  ELSE /\ ed_selection' = ed_selection - (IF IsSeparator(ed_page, ed_selection - 1) THEN 2 ELSE 1)
       /\ ed_scroll' = IF ed_scroll > ed_selection' THEN ed_selection' ELSE ed_scroll
       /\ Load

\* UIEncoderARight(), and the enter key where it goes on to the next entry.
GoDown ==
  /\ ed_selection' = ed_selection + (IF IsSeparator(ed_page, ed_selection + 1) THEN 2 ELSE 1)
  /\ ed_scroll' = IF ed_selection' - ed_scroll > 2 THEN ed_selection' - 2 ELSE ed_scroll
  /\ Load
AtEnd == ed_selection >= EndOf(ed_page)

MenuLeft == OnListPage("menu") /\ GoUp(1) /\ AcceptNothing
MenuRight == OnListPage("menu") /\ AcceptNothing /\ IF AtEnd THEN Stay ELSE GoDown
DirectoryLeft == OnListPage("directory") /\ GoUp(0) /\ AcceptNothing
DirectoryRight ==
  /\ OnListPage("directory") /\ AcceptNothing
  /\ IF AtEnd THEN Stay
     ELSE /\ ed_selection' = ed_selection + 1
          /\ ed_scroll' = IF ed_selection' - ed_scroll > 2 THEN ed_scroll + 1 ELSE ed_scroll
          /\ UNCHANGED ed_text
FormLeft == OnListPage("form") /\ AcceptValue /\ GoUp(0)
FormRight == OnListPage("form") /\ IF AtEnd THEN Stay /\ AcceptNothing ELSE AcceptValue /\ GoDown
ToolLeft == OnListPage("tools") /\ AcceptTool /\ GoUp(0)
ToolRight == OnListPage("tools") /\ AcceptTool /\ IF AtEnd THEN Stay ELSE GoDown

\* keyPressed() and deleteKeyPressed().
Edit(texts) ==
  /\ ed_text' \in texts \ {ed_text}
  /\ ed_typed' = [ed_typed EXCEPT ![ed_page][ed_selection] = ed_text']
  /\ UNCHANGED <<ed_selection, ed_scroll, ed_values, ed_tools>>
EditValue == OnListPage("form") /\ ed_selection \in FormNumbers /\ Edit(FormTexts \cup {NoText})
EditTool == OnListPage("tools") /\ Edit({ToolText(v) : v \in EdLengths \cup {0}})

EdSaveFormAnywhere ==
  /\ ed_page = "form"
  /\ ed_saved' = [i \in FormNumbers |-> ed_values[i].value]
  /\ ed_page' = "status" /\ ed_selection' = 0 /\ ed_scroll' = 0 /\ ed_text' = NoText
  /\ UNCHANGED <<ed_values, ed_tools, ed_typed, ed_rpn, ed_files>>

\* The function of the form gets every value, the blank entries included.
EdSaveForm ==
  /\ ed_page = "form" /\ ed_selection = Len(EdForm) - 1
  /\ ed_saved' = [i \in FormNumbers |-> ed_values[i].value]
  /\ ed_page' = "status" /\ ed_selection' = 0 /\ ed_scroll' = 0 /\ ed_text' = NoText
  /\ UNCHANGED <<ed_values, ed_tools, ed_typed, ed_rpn, ed_files>>

-----------------------------------------------------------------------------
(* The calculator.  The cells of the stack above its top keep their values. *)

RpnShown == [i \in 1..ed_top |-> ed_stack[i - 1]]
OnRpnPage == ed_page = "rpn" /\ UNCHANGED <<ed_page, ed_form, ed_tools, ed_typed, ed_files>>
RpnHome == ed_scroll' = 0 /\ ed_selection' = -1

\* Shifted from the top on, so that every cell gets the first one.
PushedCellsUpwards(stack, top, v) ==
  [i \in DOMAIN stack |->
     IF i = 0 THEN v
     ELSE IF i <= (IF top < RpnDepth THEN top ELSE RpnDepth - 1) THEN stack[0] ELSE stack[i]]

PushedCells(stack, top, v) ==
  [i \in DOMAIN stack |->
     IF i = 0 THEN v
     ELSE IF i <= (IF top < RpnDepth THEN top ELSE RpnDepth - 1) THEN stack[i - 1] ELSE stack[i]]
PushedTop(top) == IF top < RpnDepth THEN top + 1 ELSE top
DroppedCells(stack, top, level) ==
  [i \in DOMAIN stack |-> IF level <= i /\ i < top - 1 THEN stack[i + 1] ELSE stack[i]]

\* acceptInput(): the text that is being edited is pushed.
Typed == ed_editing /\ ed_text # NoText
AcceptedCells == IF Typed THEN PushedCells(ed_stack, ed_top, ed_text) ELSE ed_stack
AcceptedTop == IF Typed THEN PushedTop(ed_top) ELSE ed_top
AcceptedText == IF ed_editing THEN NoText ELSE ed_text
RpnAccept ==
  /\ ed_stack' = AcceptedCells /\ ed_top' = AcceptedTop
  /\ ed_editing' = FALSE /\ ed_text' = AcceptedText

RpnLeft ==
  /\ OnRpnPage /\ RpnAccept
  /\ IF ed_selection < ed_top' - 1
     THEN /\ ed_selection' = ed_selection + 1
          /\ ed_scroll' = IF ed_selection' - ed_scroll > 2 THEN ed_selection' - 2 ELSE ed_scroll
     ELSE UNCHANGED <<ed_selection, ed_scroll>>

RpnRight ==
  /\ OnRpnPage /\ RpnAccept
  /\ IF ed_selection >= 0
     THEN /\ ed_selection' = ed_selection - 1
          /\ ed_scroll' = IF ed_scroll > ed_selection'
                          THEN (IF ed_selection' > 0 THEN ed_selection' ELSE 0) ELSE ed_scroll
     ELSE UNCHANGED <<ed_selection, ed_scroll>>

\* Button 1 edits a copy of the selected number.
RpnButton ==
  /\ OnRpnPage /\ ed_selection >= 0
  /\ ed_text' = ed_stack[ed_selection] /\ ed_editing' = TRUE /\ RpnHome
  /\ UNCHANGED <<ed_stack, ed_top>>

\* A digit changes the text or starts one; an axis key takes the position.
RpnKey ==
  /\ OnRpnPage /\ UNCHANGED <<ed_stack, ed_top>>
  /\ ed_text' \in RpnTexts /\ ed_editing' = TRUE
  /\ (ed_editing /\ UNCHANGED <<ed_selection, ed_scroll>>) \/ RpnHome

\* Add and subtract; multiply and divide take their numbers in the same way.
Results(a, b) == {(a + b) % RpnModulus, (a - b) % RpnModulus}
RpnOperate ==
  /\ OnRpnPage /\ RpnHome
  /\ ed_editing' = FALSE /\ ed_text' = AcceptedText
  /\ IF AcceptedTop = 0 THEN ed_stack' = AcceptedCells /\ ed_top' = AcceptedTop
     ELSE \E v \in Results(AcceptedCells[1], AcceptedCells[0]) :
            LET cells == [AcceptedCells EXCEPT ![0] = v] IN
            IF AcceptedTop > 1
            THEN ed_stack' = DroppedCells(cells, AcceptedTop, 1) /\ ed_top' = AcceptedTop - 1
            ELSE ed_stack' = cells /\ ed_top' = AcceptedTop

\* The enter key without a text doubles the top.
RpnEnter ==
  /\ OnRpnPage /\ UNCHANGED <<ed_selection, ed_scroll>>
  /\ IF ed_editing THEN RpnAccept
     ELSE /\ IF ed_top > 0 /\ ed_selection = -1
             THEN ed_stack' = PushedCells(ed_stack, ed_top, ed_stack[0]) /\ ed_top' = PushedTop(ed_top)
             ELSE UNCHANGED <<ed_stack, ed_top>>
          /\ UNCHANGED <<ed_editing, ed_text>>

RpnDeleteDigit ==
  /\ OnRpnPage /\ ed_editing /\ ed_text # NoText
  /\ ed_text' \in RpnTexts \cup {NoText}
  /\ UNCHANGED <<ed_stack, ed_top, ed_editing, ed_selection, ed_scroll>>

RpnDrop ==
  /\ OnRpnPage /\ ~ed_editing /\ ed_top > 0
  /\ LET level == IF ed_selection > 0 THEN ed_selection ELSE 0
     IN ed_stack' = DroppedCells(ed_stack, ed_top, level)
  /\ ed_top' = ed_top - 1
  /\ ed_selection' = IF ed_selection >= ed_top' THEN ed_top' - 1 ELSE ed_selection
  /\ ed_scroll' = IF ed_scroll > ed_selection'
                  THEN (IF ed_selection' > 0 THEN ed_selection' ELSE 0) ELSE ed_scroll
  /\ UNCHANGED <<ed_editing, ed_text>>

\* popValue(): the MDI page takes the top.
RpnPop ==
  /\ ed_page = "status" /\ ed_top > 0
  /\ ed_stack' = DroppedCells(ed_stack, ed_top, 0) /\ ed_top' = ed_top - 1
  /\ UNCHANGED <<ed_page, ed_selection, ed_scroll, ed_text, ed_form, ed_tools, ed_typed,
                 ed_editing, ed_files>>

-----------------------------------------------------------------------------

\* activate() of the page, after a form has been filled with the settings.
OpenPage(page) ==
  /\ page = ed_visits /\ ed_page = "status" /\ ed_page' = page
  /\ ed_selection' = CASE page = "menu" -> 1 [] page = "rpn" -> -1 [] OTHER -> 0
  /\ ed_scroll' = IF page = "menu" THEN 1 ELSE 0
  /\ ed_files' \in IF page = "directory" THEN EdFiles ELSE {0}
  /\ IF page = "form"
     THEN ed_values' = [i \in FormNumbers |-> [value |-> ed_saved[i], valid |-> TRUE]]
     ELSE UNCHANGED ed_values
  /\ ed_text' = TextOf(page, 0, ed_values', ed_tools)
  /\ ed_typed' = [form |-> ed_saved, tools |-> [i \in ToolEntries |-> ToolText(ed_tools[i])]]
  /\ UNCHANGED <<ed_saved, ed_tools, ed_rpn>>

\* A key that goes to another page.  What was typed last is dropped.
LeavePage ==
  /\ ed_page # "status" /\ ed_page' = "status"
  /\ ed_selection' = 0 /\ ed_scroll' = 0 /\ ed_text' = NoText
  /\ ed_typed' = IF ed_page = "tools"
                 THEN [ed_typed EXCEPT !.tools[ed_selection] = ToolText(ed_tools[ed_selection])]
                 ELSE ed_typed
  /\ ed_editing' = FALSE     \* off the page nothing reads it
  /\ UNCHANGED <<ed_form, ed_tools, ed_stack, ed_top, ed_files>>

EdInit ==
  /\ ed_visits \in EdPages
  /\ ed_page = "status" /\ ed_selection = 0 /\ ed_scroll = 0 /\ ed_text = NoText
  /\ ed_saved = [i \in FormNumbers |-> 0]
  /\ ed_values = [i \in FormNumbers |-> [value |-> 0, valid |-> FALSE]]
  /\ ed_tools \in IF ed_visits = "tools" THEN [ToolEntries -> EdLengths] ELSE [ToolEntries -> {0}]
  /\ ed_typed = [form |-> ed_saved, tools |-> [i \in ToolEntries |-> ToolText(ed_tools[i])]]
  /\ ed_stack = [i \in 0..RpnDepth - 1 |-> 0] /\ ed_top = 0 /\ ed_editing = FALSE
  /\ ed_files = 0

EdStep ==
  \/ \E page \in EdPages : OpenPage(page)
  \/ LeavePage
  \/ MenuLeft \/ MenuRight \/ DirectoryLeft \/ DirectoryRight
  \/ FormLeft \/ FormRight \/ EditValue \/ EdSaveForm
  \/ ToolLeft \/ ToolRight \/ EditTool
  \/ RpnLeft \/ RpnRight \/ RpnButton \/ RpnKey \/ RpnOperate \/ RpnEnter
  \/ RpnDeleteDigit \/ RpnDrop \/ RpnPop
EdNext == EdStep /\ UNCHANGED ed_visits
EdSpec == EdInit /\ [][EdNext]_edVars

-----------------------------------------------------------------------------
(* The properties.                                                         *)

\* The selected entry is one that can be selected, and one of the three that
\* the display shows, however the list is turned through and its separators
\* are stepped over.  In the calculator it is a number on the stack, or none.
SelectionVisible ==
  /\ IsList =>
       /\ ed_selection \in ed_scroll..ed_scroll + 2 /\ ed_scroll >= 0
       /\ ed_page = "form" => EdForm[ed_selection + 1] # "separator"
       /\ ed_selection = 0 \/ ed_selection <= EndOf(ed_page)
       /\ ed_page = "menu" => EdMenu[ed_selection + 1] = "entry"
  /\ ed_page = "rpn" =>
       /\ ed_selection \in -1..ed_top - 1 /\ ed_scroll >= 0
       /\ ed_selection >= 0 => ed_selection \in ed_scroll..ed_scroll + 2

\* What a form saves is what was typed last at each of its entries, or its old
\* value; entries that were left blank may be saved as anything.
TypedIsSaved == [][
  ed_saved' # ed_saved =>
    \A i \in FormNumbers : ed_typed.form[i] # NoText => ed_saved'[i] = ed_typed.form[i] ]_edVars

\* Lengths and diameters of all tools are, as far as the page shows them, what
\* was typed for them, on whatever way through the list.
ToolDataAsTyped ==
  \A e \in ToolEntries :
    ed_page # "tools" \/ e # ed_selection => ToolText(ed_tools[e]) = ed_typed.tools[e]

EdTypeOK ==
  /\ ed_page \in EdPages \cup {"status"} /\ ed_selection \in Int /\ ed_scroll \in Nat /\ ed_files \in Nat
  /\ ed_text \in Nat \cup {NoText} /\ ed_saved \in [FormNumbers -> Nat]
  /\ ed_values \in [FormNumbers -> [value : Nat, valid : BOOLEAN]]
  /\ ed_tools \in [ToolEntries -> Nat]
  /\ ed_typed \in [form : [FormNumbers -> Int], tools : [ToolEntries -> Int]]
  /\ ed_stack \in [0..RpnDepth - 1 -> RpnTexts] /\ ed_top \in 0..RpnDepth /\ ed_editing \in BOOLEAN

\* Why: the text in the edit buffer is what was typed for the selected entry,
\* every other entry has the value that was typed for it, and a list whose
\* selection is above its first number shows that one.
ShownValue(i) == IF ed_values[i].valid THEN ed_values[i].value ELSE NoText
BufferIsTyped ==
  /\ ed_page = "form" =>
       /\ ed_selection \in FormEntries
       /\ \A i \in FormNumbers :
            ed_typed.form[i] = IF i = ed_selection THEN ed_text ELSE ShownValue(i)
  /\ ed_page = "tools" =>
       /\ ed_selection \in ToolEntries /\ ed_text = ed_typed.tools[ed_selection]
       /\ ToolText(TextValue(ed_text)) = ed_text
  /\ ed_page = "rpn" => (ed_selection = -1 => ed_scroll = 0)
  /\ ed_editing => ed_page = "rpn" /\ ed_text \in RpnTexts \cup {NoText}

EdInv == EdTypeOK /\ SelectionVisible /\ ToolDataAsTyped /\ BufferIsTyped

\* The calculator's stack is one.
CalculatorStack == INSTANCE RpnStack WITH rpn <- RpnShown
CalculatorIsAStack == CalculatorStack!RpnSpec

\* What is selected is visible and no separator, what was typed is stored and
\* saved, and the calculator's list is a stack.
EdSafe == []EdInv /\ TypedIsSaved /\ CalculatorIsAStack
=============================================================================
