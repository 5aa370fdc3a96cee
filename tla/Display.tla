------------------------------- MODULE Display -------------------------------
(***************************************************************************)
(* What the status page and the jog page show (UISupport.cpp) on the 20x4  *)
(* display (LiquidCrystal_grbl.cpp).  A value is rendered into one buffer, *)
(* DROTextBuffer, by one call of the page's update(), and drawn from it by *)
(* the next one; which value is next is a counter, DROUpdatePhase, that    *)
(* all of these pages share.  Other pages write into the buffer, a page    *)
(* may be left between any two calls, and a reset from the serial interrupt*)
(* may close the file whose name is just being drawn.                      *)
(*                                                                         *)
(* The values change together: a text is the name of its field and how     *)
(* often the values had changed when it was rendered.                      *)
(***************************************************************************)
EXTENDS Integers, Sequences

CONSTANTS
  IndicatorPeriod,   \* calls of update() from one run indicator to the next
  VelocityPeriod,    \* calls of update() in the 300 ticks a velocity is measured over
  DpChanges,         \* bound: how often the values change
  DpInputs           \* bound: what the operator and the machine do

ASSUME DpAssumption ==
  {IndicatorPeriod, VelocityPeriod, DpChanges, DpInputs} \subseteq Nat

VARIABLES
  dp_page, dp_subPage,
  dp_phase,          \* DROUpdatePhase
  dp_buffer,         \* DROTextBuffer
  dp_screen,         \* what each part of the display shows
  dp_values,         \* how often the values have changed
  dp_run,            \* runIndicatorCounter
  dp_since,          \* calls of update() since the position was read for the velocity
  dp_delta, dp_velocity,  \* the values that the distance and the velocity are from
  dp_file,           \* SD_state is SD_state_Open
  dp_announced,      \* UIStatusNeedsUpdate() was called for its last change
  dp_flag,           \* UIStatusNeedsUpdateFlag
  dp_state,          \* what sys.state is to the status line
  dp_previous,       \* previousState
  dp_rest,           \* the status line is drawn up to the file
  dp_axis, dp_editing,    \* activeAxis and editingJogFeed of the jog page
  dp_adjacent,       \* the build has put DROUpdatePhase right behind DROTextBuffer
  dp_inputs

dp_dro == <<dp_phase, dp_buffer, dp_since, dp_delta, dp_velocity>>
dp_line == <<dp_flag, dp_previous, dp_rest>>
dp_machine == <<dp_values, dp_file, dp_announced, dp_state>>
dp_jog == <<dp_axis, dp_editing>>
dpVars == <<dp_page, dp_subPage, dp_dro, dp_screen, dp_run, dp_line, dp_machine, dp_jog,
            dp_adjacent, dp_inputs>>

(* The display.  It has one address after the other for rows 0 and 2 and for *)
(* rows 1 and 3: what runs over the end of row 1 appears in row 3.  A part   *)
(* is what lies between two columns at which some text starts or ends.       *)
DdramAddress(x, row) == 20 * <<0, 2, 1, 3>>[row + 1] + x
Parts == {20 * line + x : line \in 0..3, x \in {0, 6, 7, 9, 10, 14, 17, 18, 19}}
Field(name, x, row, width) == [name |-> name, start |-> DdramAddress(x, row), width |-> width]
Under(field) == {c \in Parts : c >= field.start /\ c < field.start + field.width}
Text(field, value) == [field |-> field.name, value |-> value]

(* What the pages draw *)
PositionFields == <<Field("X", 0, 1, 10), Field("Y", 0, 2, 10), Field("Z", 0, 3, 10),
                    Field("Ln", 10, 3, 10)>>
GCodeFields == <<Field("F", 0, 1, 10), Field("S", 10, 1, 10),
                 Field("motion", 0, 2, 6), Field("wcs", 6, 2, 4), Field("plane", 10, 2, 4),
                 Field("spindle", 14, 2, 3), Field("tool", 17, 2, 3),
                 Field("units", 0, 3, 6), Field("distance", 6, 3, 4), Field("feedmode", 10, 3, 4),
                 Field("coolant", 14, 3, 6)>>
OverrideFields == <<Field("rapid", 9, 1, 11), Field("feed", 9, 2, 11), Field("speed", 9, 3, 11)>>
Rpm == Field("rpm", 14, 1, 6)
Velocity == Field("velocity", 14, 2, 6)
VelocityFields == <<Rpm, Velocity>>
FieldsOf == <<PositionFields, GCodeFields, OverrideFields, VelocityFields>>
InSequence(fields) == {fields[i] : i \in DOMAIN fields}

Blanks ==
  <<{Field("blank", 10, 1, 10), Field("blank", 10, 2, 10)},
    {Field("blank", 20, 1, 7)},
    {Field("label", 0, row, 9) : row \in 1..3},
    {Field("label", 0, 1, 20), Field("label", 0, 2, 20), Field("blank", 0, 3, 20)}>>
FileField == Field("file", 0, 0, 9)
StateField == Field("state", 9, 0, 8)
CoolantField == Field("coolant sign", 17, 0, 1)
RunField == Field("run sign", 18, 0, 1)
JogField == Field("jog", 0, 0, 19)
Whole == {Field("page", 0, row, 20) : row \in 0..3}

\* The parts under a field and under all fields of a page, by name
AllFields == (UNION {InSequence(FieldsOf[i]) : i \in 1..4})
             \cup {FileField, StateField, CoolantField, RunField, JogField}
PartsOf == [f \in AllFields |-> Under(f)]
NamesIn(fields) ==
  [c \in UNION {Under(f) : f \in fields} |-> (CHOOSE f \in fields : c \in Under(f)).name]
NamesOf == [i \in 1..4 |-> NamesIn(InSequence(FieldsOf[i]))]
BlanksOf == [i \in 1..4 |-> NamesIn(Blanks[i])]
WholeNames == NamesIn(Whole)

Draw(screen, field, text) == [c \in Parts |-> IF c \in PartsOf[field] THEN text ELSE screen[c]]
DrawAll(screen, names, value) ==
  [c \in Parts |-> IF c \in DOMAIN names THEN [field |-> names[c], value |-> value] ELSE screen[c]]

FileValue == IF dp_file THEN 1 ELSE 0
DrawRest(screen) == Draw(Draw(screen, StateField, Text(StateField, dp_state)),
                         CoolantField, Text(CoolantField, 0))
DrawStatusLine(screen) == DrawRest(Draw(screen, FileField, Text(FileField, FileValue)))

\* The texts of an override have eleven characters, the buffer has ten.
Overrun == 41
PhaseAfterRendering(field, phase) ==
  IF dp_adjacent /\ field \in InSequence(OverrideFields) THEN Overrun ELSE phase

\* displayPositionDRO() and the like; the velocity starts from the present position.
DisplayDro(screen, subPage) ==
  LET blanked == DrawAll(screen, BlanksOf[subPage + 1], 0)
      last == FieldsOf[subPage + 1][Len(FieldsOf[subPage + 1])] IN
  IF subPage = 3
  THEN /\ dp_screen' = blanked
       /\ dp_since' = 0 /\ dp_phase' = 0 /\ UNCHANGED <<dp_buffer, dp_delta, dp_velocity>>
  ELSE /\ dp_screen' = DrawAll(blanked, NamesOf[subPage + 1], dp_values)
       /\ dp_buffer' = Text(last, dp_values)
       /\ dp_phase' = PhaseAfterRendering(last, 0)
       /\ UNCHANGED <<dp_since, dp_delta, dp_velocity>>

DpInit ==
  /\ dp_page = "status" /\ dp_subPage = 0
  /\ dp_phase = 0 /\ dp_buffer = Text(PositionFields[4], 0)
  /\ dp_screen = DrawAll(DrawAll([c \in Parts |-> [field |-> "blank", value |-> 0]], NamesOf[1], 0),
                         NamesIn({FileField, StateField, CoolantField}), 0)
  /\ dp_values = 0 /\ dp_file = FALSE /\ dp_announced = TRUE /\ dp_state = 0
  /\ dp_run = 0
  /\ dp_since = 0 /\ dp_delta = 0 /\ dp_velocity = 0
  /\ dp_flag = FALSE /\ dp_previous = 0 /\ dp_rest = FALSE
  /\ dp_axis = FALSE /\ dp_editing = FALSE
  /\ dp_adjacent \in BOOLEAN
  /\ dp_inputs = 0

-----------------------------------------------------------------------------
(* updatePositionDRO() and the like: one step of the round of a sub page. *)
RenderAndDraw(fields) ==
  [i \in 1..2 * Len(fields) |-> <<IF i % 2 = 1 THEN "render" ELSE "draw", fields[(i + 1) \div 2]>>]
VelocitySteps ==
  <<<<"render", Rpm>>, <<"draw", Rpm>>, <<"measure", Velocity>>, <<"divide", Velocity>>,
    <<"render", Velocity>>, <<"draw", Velocity>>>>
StepsOf == [i \in 1..4 |-> IF i = 4 THEN VelocitySteps ELSE RenderAndDraw(FieldsOf[i])]

Advanced(phase, count) == IF phase + 1 >= count THEN 0 ELSE phase + 1

Render(field, count) ==
  /\ dp_buffer' = Text(field, IF field = Velocity THEN dp_velocity ELSE dp_values)
  /\ dp_phase' = Advanced(PhaseAfterRendering(field, dp_phase), count)
  /\ UNCHANGED <<dp_screen, dp_delta, dp_velocity>>

DrawBuffer(field, count) ==
  /\ dp_screen' = Draw(dp_screen, field, dp_buffer)
  /\ dp_phase' = Advanced(dp_phase, count)
  /\ UNCHANGED <<dp_buffer, dp_delta, dp_velocity>>

\* calculateVelocityPhase1(): before 300 ticks have passed, the round starts again.
TimeToMeasure == dp_since >= VelocityPeriod
Measure(count) ==
  /\ dp_phase' = IF TimeToMeasure THEN Advanced(dp_phase, count) ELSE 0
  /\ dp_delta' = IF TimeToMeasure THEN dp_values ELSE dp_delta
  /\ UNCHANGED <<dp_screen, dp_buffer, dp_velocity>>

Divide(count) ==
  /\ dp_velocity' = dp_delta
  /\ dp_phase' = Advanced(dp_phase, count)
  /\ UNCHANGED <<dp_screen, dp_buffer, dp_delta>>

DoStep(step, count) ==
  CASE step[1] = "render" -> Render(step[2], count)
    [] step[1] = "draw" -> DrawBuffer(step[2], count)
    [] step[1] = "measure" -> Measure(count)
    [] step[1] = "divide" -> Divide(count)

\* A phase beyond the last one draws nothing and starts the next round.
UpdateDro(subPage) ==
  LET count == Len(StepsOf[subPage + 1]) IN
  IF dp_phase < count
  THEN DoStep(StepsOf[subPage + 1][dp_phase + 1], count)
  ELSE dp_phase' = 0 /\ UNCHANGED <<dp_screen, dp_buffer, dp_delta, dp_velocity>>

StatusUpdate == ~dp_rest /\ dp_page = "status"

\* StatusUIPage::update() draws one thing and returns: first the run indicator,
RunIndicator ==
  /\ StatusUpdate /\ dp_run = 0
  /\ dp_run' = IndicatorPeriod
  /\ dp_screen' = Draw(dp_screen, RunField, Text(RunField, dp_state))
  /\ UNCHANGED <<dp_page, dp_subPage, dp_dro, dp_line, dp_machine, dp_jog, dp_adjacent, dp_inputs>>

\* a status line that needs it, of which the file comes first,
StatusLine ==
  /\ StatusUpdate /\ dp_run > 0 /\ (dp_flag \/ dp_previous # dp_state)
  /\ dp_run' = dp_run - 1
  /\ dp_previous' = dp_state /\ dp_flag' = FALSE
  /\ dp_screen' = Draw(dp_screen, FileField, Text(FileField, FileValue))
  /\ dp_rest' = TRUE
  /\ UNCHANGED <<dp_page, dp_subPage, dp_dro, dp_machine, dp_jog, dp_adjacent, dp_inputs>>

\* Mutant: the request for a status line is cleared when the line has been drawn.
RestOfStatusLineClearsFlag ==
  /\ dp_rest /\ dp_rest' = FALSE
  /\ dp_screen' = DrawRest(dp_screen)
  /\ dp_flag' = FALSE
  /\ UNCHANGED <<dp_page, dp_subPage, dp_dro, dp_run, dp_previous, dp_machine, dp_jog,
                 dp_adjacent, dp_inputs>>

RestOfStatusLine ==
  /\ dp_rest /\ dp_rest' = FALSE
  /\ dp_screen' = DrawRest(dp_screen)
  /\ UNCHANGED <<dp_page, dp_subPage, dp_dro, dp_run, dp_flag, dp_previous, dp_machine, dp_jog,
                 dp_adjacent, dp_inputs>>

\* and then a value.  Time passes where it is read.
StatusValue ==
  /\ StatusUpdate /\ dp_run > 0 /\ ~(dp_flag \/ dp_previous # dp_state)
  /\ dp_run' = dp_run - 1
  /\ UpdateDro(dp_subPage)
  /\ dp_since' = IF dp_subPage # 3 THEN dp_since
                 ELSE IF dp_phase = 2 /\ TimeToMeasure THEN 0
                 ELSE IF TimeToMeasure THEN dp_since ELSE dp_since + 1
  /\ UNCHANGED <<dp_page, dp_subPage, dp_line, dp_machine, dp_jog, dp_adjacent, dp_inputs>>

\* JogUIPage::update()
JogValue ==
  /\ ~dp_rest /\ dp_page = "jog"
  /\ UpdateDro(0)
  /\ UNCHANGED <<dp_page, dp_subPage, dp_since, dp_run, dp_line, dp_machine, dp_jog, dp_adjacent,
                 dp_inputs>>

Update == RunIndicator \/ StatusLine \/ RestOfStatusLine \/ StatusValue \/ JogValue

-----------------------------------------------------------------------------
(* The operator.  A page is left by deactivate(), then comes activate() and  *)
(* display() of the next one.                                                *)
Input == ~dp_rest /\ dp_inputs < DpInputs /\ dp_inputs' = dp_inputs + 1

StatusPage ==
  /\ dp_page' = "status" /\ dp_subPage' = 0 /\ dp_run' = 0
  /\ DisplayDro(DrawStatusLine(dp_screen), 0)

\* JogUIPage::drawStatusLine(): the feed is rendered into the buffer of the values.
JogLine(screen) == Draw(screen, JogField, Text(JogField, 0))
JogLineUsesBuffer(axis, editing) == axis /\ ~editing
JogFeed == [field |-> "jog feed", value |-> 0]

DpJogPage ==
  /\ dp_page' = "jog" /\ dp_axis' = FALSE /\ dp_editing' = FALSE
  /\ DisplayDro(JogLine(dp_screen), 0)

\* The calculator draws its stack from the same buffer; the other pages only draw.
OtherPage(page) ==
  /\ dp_page' = page
  /\ dp_screen' = DrawAll(dp_screen, WholeNames, 0)
  /\ \/ page = "calculator" /\ dp_buffer' = [field |-> "stack", value |-> 0]
     \/ UNCHANGED dp_buffer
  /\ UNCHANGED <<dp_phase, dp_since, dp_delta, dp_velocity>>

GoToStatus ==
  /\ Input /\ dp_page # "status"
  /\ StatusPage
  /\ UNCHANGED <<dp_line, dp_machine, dp_jog, dp_adjacent>>

GoToJog ==
  /\ Input
  /\ DpJogPage
  /\ UNCHANGED <<dp_subPage, dp_run, dp_line, dp_machine, dp_adjacent>>

GoToOther ==
  /\ Input
  /\ \E page \in {"menu", "calculator"} : OtherPage(page)
  /\ UNCHANGED <<dp_subPage, dp_run, dp_line, dp_machine, dp_jog, dp_adjacent>>

\* FileDirectoryUIPage::runSelectedFile()
RunFile ==
  /\ Input /\ dp_page = "menu" /\ ~dp_file
  /\ dp_file' = TRUE /\ dp_announced' = TRUE
  /\ dp_page' = "status" /\ dp_subPage' = 0 /\ dp_run' = 0
  /\ DisplayDro(DrawRest(Draw(dp_screen, FileField, Text(FileField, 1))), 0)
  /\ UNCHANGED <<dp_line, dp_values, dp_state, dp_jog, dp_adjacent>>

\* StatusUIPage::UIEncoderALeft() and UIEncoderARight()
TurnEncoder ==
  /\ Input /\ dp_page = "status"
  /\ \E subPage \in {dp_subPage - 1, dp_subPage + 1} \cap 0..3 :
       /\ dp_subPage' = subPage
       /\ DisplayDro(DrawStatusLine(dp_screen), subPage)
  /\ UNCHANGED <<dp_page, dp_run, dp_line, dp_machine, dp_jog, dp_adjacent>>

\* Keys of the jog page: an axis, the increment, the editing of the feed.
\* Mutant: the counter is left where it was.
DrawJogLineKeepsPhase(axis, editing) ==
  /\ dp_screen' = JogLine(dp_screen)
  /\ dp_axis' = axis /\ dp_editing' = editing
  /\ dp_buffer' = IF JogLineUsesBuffer(axis, editing) THEN JogFeed ELSE dp_buffer
  /\ UNCHANGED dp_phase

DrawJogLine(axis, editing) ==
  /\ dp_screen' = JogLine(dp_screen)
  /\ dp_axis' = axis /\ dp_editing' = editing
  /\ IF JogLineUsesBuffer(axis, editing)
     THEN dp_phase' = 0 /\ dp_buffer' = JogFeed
     ELSE UNCHANGED <<dp_phase, dp_buffer>>
JogPageKey ==
  /\ Input /\ dp_page = "jog"
  /\ \/ ~dp_editing /\ DrawJogLine(TRUE, FALSE)
     \/ ~dp_editing /\ DrawJogLine(dp_axis, TRUE)
     \/ DrawJogLine(dp_axis, FALSE)
  /\ UNCHANGED <<dp_page, dp_subPage, dp_since, dp_delta, dp_velocity, dp_run, dp_line, dp_machine,
                 dp_adjacent>>

-----------------------------------------------------------------------------
(* The machine *)
ChangeValues ==
  /\ ~dp_rest /\ dp_values < DpChanges /\ dp_values' = dp_values + 1
  /\ UNCHANGED <<dp_page, dp_subPage, dp_dro, dp_screen, dp_run, dp_line, dp_file, dp_announced,
                 dp_state, dp_jog, dp_adjacent, dp_inputs>>

ChangeState ==
  /\ Input
  /\ dp_state' = 1 - dp_state
  /\ UNCHANGED <<dp_page, dp_subPage, dp_dro, dp_screen, dp_run, dp_line, dp_values, dp_file,
                 dp_announced, dp_jog, dp_adjacent>>

\* SD_close() by a reset, also from the serial interrupt while the line is drawn, and
\* the end of the file.
FileIsClosed ==
  /\ dp_file /\ dp_file' = FALSE
  /\ dp_flag' = TRUE /\ dp_announced' = TRUE
  /\ UNCHANGED <<dp_page, dp_subPage, dp_dro, dp_screen, dp_run, dp_previous, dp_rest, dp_values,
                 dp_state, dp_jog, dp_adjacent, dp_inputs>>

\* SDParseError() closes the file and does not say so.
SDParseError ==
  /\ ~dp_rest /\ dp_file /\ dp_file' = FALSE
  /\ dp_announced' = FALSE
  /\ UNCHANGED <<dp_page, dp_subPage, dp_dro, dp_screen, dp_run, dp_line, dp_values,
                 dp_state, dp_jog, dp_adjacent, dp_inputs>>

DpNext ==
  \/ Update
  \/ GoToStatus \/ GoToJog \/ GoToOther \/ RunFile \/ TurnEncoder \/ JogPageKey
  \/ ChangeValues \/ ChangeState \/ FileIsClosed \/ SDParseError

\* The main loop calls UITask() in every round.
DpSpec == DpInit /\ [][DpNext]_dpVars /\ WF_dpVars(Update)

-----------------------------------------------------------------------------
\* What a part of the rows below the first one may show: the text of the field that the
\* page has there, or what was drawn there to clear it.
LowerRows == Parts \ Under(Field("row", 0, 0, 20))
Expected ==
  [i \in 1..4 |-> [c \in LowerRows |->
     {f.name : f \in {g \in InSequence(FieldsOf[i]) : c \in Under(g)}}
     \cup (IF i = 2 THEN {} ELSE {f.name : f \in {g \in Blanks[i] : c \in Under(g)}})]]

\* What the next call is going to draw from the buffer is the text of that field.
NextIsRendered(i) ==
  LET next == StepsOf[i][dp_phase + 1] IN
  dp_phase < Len(StepsOf[i]) /\ next[1] = "draw" => dp_buffer.field = next[2].name

\* No page shows the text of another one, or a value at the place of another one, however
\* the buffer and the counter of the values were left (drawDROText, drawStatusLine).
TextsInTheirPlaces ==
  /\ dp_page \in {"status", "jog", "menu", "calculator"} /\ dp_subPage \in 0..3 /\ dp_phase \in Nat
  /\ dp_page = "status" =>
       /\ \A c \in LowerRows : dp_screen[c].field \in Expected[dp_subPage + 1][c]
       /\ NextIsRendered(dp_subPage + 1)
  /\ dp_page = "jog" => /\ \A c \in LowerRows : dp_screen[c].field \in Expected[1][c]
                        /\ \A c \in PartsOf[JogField] : dp_screen[c].field = "jog"
                        /\ NextIsRendered(1)
  /\ dp_rest => dp_page = "status"

\* Once nothing happens any more, the page in view gets to show the present values, and the
\* file that is open unless its end was not announced; in a build that lets the eleventh
\* character of an override run into DROUpdatePhase, the overrides are not drawn.
ShowsValues(subPage) ==
  \A c \in DOMAIN NamesOf[subPage + 1] :
    dp_screen[c] = [field |-> NamesOf[subPage + 1][c], value |-> dp_values]
ScreenIsCurrent ==
  /\ dp_page = "jog" => ShowsValues(0)
  /\ dp_page = "status" =>
       /\ ~(dp_adjacent /\ dp_subPage = 2) => ShowsValues(dp_subPage)
       /\ dp_announced => \A c \in PartsOf[FileField] : dp_screen[c] = Text(FileField, FileValue)
ScreenSettles == <>[]ScreenIsCurrent
=============================================================================
