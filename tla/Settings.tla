-------------------------------- MODULE Settings --------------------------------
(***************************************************************************)
(* What the EEPROM keeps (settings.c, eeprom.c): the settings, the         *)
(* coordinate systems, the startup lines, the build info and the tool      *)
(* data, each a record of bytes with a checksum behind them, and the $     *)
(* commands and the editors that read and write them.  A record is written *)
(* byte by byte; the power may fail between two bytes.                     *)
(*                                                                         *)
(* The floats and 16 bit numbers of the settings have two bytes here, so   *)
(* that a power loss can tear them; a coordinate system and a tool's data  *)
(* are of one such number.  The layout keeps the order, the parity of the  *)
(* sizes and the overlaps that the addresses of settings.h give.           *)
(***************************************************************************)
EXTENDS Integers, Sequences, FiniteSets, SequencesExt

CONSTANTS
  LINE_BUFFER_SIZE, N_STARTUP_LINE, SETTING_INDEX_NCOORD, MAX_TOOL,
  EEPROM_ADDR_PARAMETERS, EEPROM_ADDR_STARTUP_BLOCK, EEPROM_ADDR_BUILD_INFO,
  EEPROM_ADDR_TOOL_LENGTH, EEPROM_ADDR_TOOL_DIAMETER, EEPROM_SIZE,
  CoordSize, ToolSize,
  SeKinds,         \* the kinds of records that commands write here
  SeLines,         \* lines, as what the line buffer holds
  SeLineNumbers,   \* n of $Nn=, also of lines that there are none
  SeStarts,        \* "new": erased; "torn": erased, power may fail at once; "used"
  SeMaxStores,     \* bound: commands that write
  SeMaxLosses      \* bound: power losses

ASSUME SeAssumption ==
  /\ LINE_BUFFER_SIZE \in Nat \ {0} /\ N_STARTUP_LINE \in Nat /\ CoordSize \in Nat \ {0}
  /\ \A l \in SeLines : Len(l) = LINE_BUFFER_SIZE
  /\ SeLineNumbers \subseteq 0..255 /\ EEPROM_SIZE \in Nat \ {0} /\ SeMaxStores \in Nat /\ SeMaxLosses \in Nat

VARIABLES
  se_eeprom,       \* the bytes
  se_writing,      \* <<address, byte>> still to be written by the command
  se_settings,     \* settings, in RAM; NoSettings before settings_init()
  se_kept,         \* what was stored last in the records of numbers
  se_bounds        \* what is left of the bounds; how often power was lost in a write,
                   \* and the bytes that lines have taken where no line belongs
seVars == <<se_eeprom, se_writing, se_settings, se_kept, se_bounds>>

Erased == 255
VERSION == 50
NoSettings == [version |-> -1]
SOFT == 1   \* the flags: soft limits, homing
HOMING == 2
Has(flags, f) == (flags \div f) % 2 = 1

\* max_rate[X_AXIS], pulse_microseconds, stepper_idle_lock_time, flags,
\* homing_debounce_delay and debounce_tics.
Defaults == [rate |-> 5000, pulse |-> 10, lock |-> 25, flags |-> HOMING, delay |-> 250, tics |-> 0]
Safe(s) == Has(s.flags, SOFT) => Has(s.flags, HOMING)

\* settings_t in memory, the low byte of a number first.
Encoded(s) == <<s.rate % 256, s.rate \div 256, s.pulse, s.lock, s.flags,
                s.delay % 256, s.delay \div 256, s.tics % 256, s.tics \div 256>>
Decoded(b) == [rate |-> b[1] + 256 * b[2], pulse |-> b[3], lock |-> b[4], flags |-> b[5],
               delay |-> b[6] + 256 * b[7], tics |-> b[8] + 256 * b[9]]

-----------------------------------------------------------------------------
(* Records.                                                                *)

Size(kind) == CASE kind = "global" -> Len(Encoded(Defaults)) [] kind = "coord" -> CoordSize
                [] kind \in {"line", "build"} -> LINE_BUFFER_SIZE [] OTHER -> ToolSize
Address(kind, n) ==
  CASE kind = "global" -> 1
    [] kind = "coord" -> EEPROM_ADDR_PARAMETERS + n * (Size(kind) + 1)
    [] kind = "line" -> EEPROM_ADDR_STARTUP_BLOCK + n * (Size(kind) + 1)
    [] kind = "build" -> EEPROM_ADDR_BUILD_INFO
    [] kind = "length" -> EEPROM_ADDR_TOOL_LENGTH + n * (Size(kind) + 1)
    [] kind = "diameter" -> EEPROM_ADDR_TOOL_DIAMETER + n * (Size(kind) + 1)
StoredUnspaced(kind, n, bytes) ==   \* no room for the checksum of the record before
  [i \in 1..(Len(bytes) + 1) |->
     <<Address(kind, 0) + n * Size(kind) + i - 1,
       IF i <= Len(bytes) THEN bytes[i] ELSE 0>>]

(* (checksum << 1) || (checksum >> 7) is a truth value, not a rotation.    *)
Checksum(bytes) ==
  FoldLeft(LAMBDA c, b : ((IF c = 0 THEN 0 ELSE 1) + b) % 256, 0, bytes)

Stored(kind, n, bytes) ==   \* memcpy_to_eeprom_with_checksum(): the writes, in order
  [i \in 1..(Len(bytes) + 1) |->
     <<Address(kind, n) + i - 1, IF i <= Len(bytes) THEN bytes[i] ELSE Checksum(bytes)>>]
Bytes(kind, n) == [i \in 1..Size(kind) |-> se_eeprom[Address(kind, n) + i - 1]]
Intact(kind, n) ==   \* memcpy_from_eeprom_with_checksum()
  Checksum(Bytes(kind, n)) = se_eeprom[Address(kind, n) + Size(kind)]

Cells(kind, n) ==   \* where it is, as EEAR has the bits that the EEPROM's addresses need
  {(Address(kind, n) + i) % EEPROM_SIZE : i \in 0..Size(kind)}

GlobalStored(s) == <<<<0, VERSION>>>> \o Stored("global", 0, Encoded(s))   \* write_global_settings()

Concat(seqs) == FoldLeft(LAMBDA a, b : a \o b, <<>>, seqs)
Numbers == [coord |-> SETTING_INDEX_NCOORD, length |-> MAX_TOOL, diameter |-> MAX_TOOL]
Cleared(kind) == Concat([i \in 1..(Numbers[kind] + 1) |->
                           Stored(kind, i - 1, [j \in 1..Size(kind) |-> 0])])
EmptyLine(kind, n) == <<<<Address(kind, n), 0>>, <<Address(kind, n) + 1, 0>>>>

RestoredButSettings(what) ==
  CASE what = "$" -> <<>> [] what = "#" -> Cleared("coord")
    [] what = "T" -> Cleared("length") \o Cleared("diameter")
    [] what = "*" -> GlobalStored(Defaults) \o Cleared("coord") \o Cleared("length")
                     \o Cleared("diameter")
Restored(what) ==   \* settings_restore(), one of its flags, or all
  CASE what = "$" -> GlobalStored(Defaults)
    [] what = "#" -> Cleared("coord")
    [] what = "T" -> Cleared("length") \o Cleared("diameter")
    [] what = "*" -> Concat(<<GlobalStored(Defaults), Cleared("coord"),
                              Concat([i \in 1..N_STARTUP_LINE |-> EmptyLine("line", i - 1)]),
                              EmptyLine("build", 0), Cleared("length"), Cleared("diameter")>>)

-----------------------------------------------------------------------------
(* Writing.                                                                *)

EepromPutChar ==
  /\ se_writing # <<>>
  /\ se_eeprom' = [se_eeprom EXCEPT ![se_writing[1][1] % EEPROM_SIZE] = se_writing[1][2]]
  /\ se_writing' = Tail(se_writing)
  /\ UNCHANGED <<se_settings, se_kept, se_bounds>>

Keeping(kept, kind, n, bytes) == [kept EXCEPT ![kind] = [@ EXCEPT ![n] = bytes]]
ZeroRecords(kind) == [n \in 0..Numbers[kind] |-> [j \in 1..Size(kind) |-> 0]]
KeptAfter(kept, what) ==
  [k \in DOMAIN Numbers |->
     IF what = "*" \/ (k = "coord" /\ what = "#") \/ (k # "coord" /\ what = "T")
     THEN ZeroRecords(k) ELSE kept[k]]

SeCommand ==
  /\ se_writing = <<>> /\ se_settings # NoSettings /\ se_bounds.stores > 0
  /\ se_bounds' = [se_bounds EXCEPT !.stores = @ - 1]
  /\ UNCHANGED se_eeprom

(* settings_store_global_setting(): the error, or the settings it leaves.  *)
(* Only $110, $11 and their like take a float; the others take a byte.     *)
RefusedButSoft(s, p, v) == (p = 0 /\ v % 256 < 3) \/ (p = 255 /\ v # 1)
Refused(s, p, v) ==
  \/ p = 0 /\ v % 256 < 3
  \/ p = 20 /\ v % 256 # 0 /\ ~Has(s.flags, HOMING)
  \/ p = 255 /\ v # 1
Changed(s, p, v) ==
  CASE p = 0 -> [s EXCEPT !.pulse = v % 256]
    [] p = 20 -> [s EXCEPT !.flags = (@ - (@ % 2)) + (IF v % 256 # 0 THEN SOFT ELSE 0)]
    [] p = 22 -> [s EXCEPT !.flags = IF v % 256 # 0 THEN HOMING + (@ % 2) ELSE 0]
    [] p = 26 -> [s EXCEPT !.delay = v % 256]
    [] p = 41 -> [s EXCEPT !.tics = v % 256]
    [] p = 110 -> [s EXCEPT !.rate = v]
    [] p = 255 -> s

StoreSetting == \E p \in {0, 20, 22, 26, 41, 110, 255} :
  \E v \in IF p \in {20, 22} THEN {0, 1} ELSE {1, 268} :
  /\ "global" \in SeKinds /\ SeCommand /\ ~Refused(se_settings, p, v)
  /\ se_settings' = Changed(se_settings, p, v)
  /\ se_writing' = GlobalStored(Changed(se_settings, p, v))
  /\ UNCHANGED se_kept

(* saveAxisSettings(), saveSystemSettings(): no check of the values.       *)
SaveSettings ==
  /\ "form" \in SeKinds /\ SeCommand
  /\ se_settings' \in {[se_settings EXCEPT !.rate = 300, !.pulse = 1]}
                       \cup {[se_settings EXCEPT !.flags = f, !.delay = 300] : f \in 0..3}
  /\ se_writing' = GlobalStored(se_settings')
  /\ UNCHANGED se_kept

StoreNumbers == \E kind \in SeKinds \cap DOMAIN Numbers, v \in {5, 7} :   \* G10, G28.1, tools
  \E n \in 0..Numbers[kind] :
    LET bytes == [j \in 1..Size(kind) |-> v] IN
    /\ SeCommand /\ se_writing' = Stored(kind, n, bytes)
    /\ se_kept' = Keeping(se_kept, kind, n, bytes)
    /\ UNCHANGED se_settings

StoreLine == \E n \in SeLineNumbers, l \in SeLines :   \* $Nn=, n is not checked
  /\ "line" \in SeKinds /\ se_writing = <<>> /\ se_settings # NoSettings /\ se_bounds.stores > 0
  /\ se_writing' = Stored("line", n, l)
  /\ se_kept' = IF n < N_STARTUP_LINE THEN [se_kept EXCEPT !.line = [@ EXCEPT ![n] = l]] ELSE se_kept
  /\ se_bounds' = [se_bounds EXCEPT !.stores = @ - 1, !.stray = @ \cup (IF n < N_STARTUP_LINE THEN {} ELSE Cells("line", n))]
  /\ UNCHANGED <<se_eeprom, se_settings>>

StoreBuildInfo == \E l \in SeLines :   \* $I=
  /\ "build" \in SeKinds /\ SeCommand
  /\ se_writing' = Stored("build", 0, l)
  /\ se_kept' = [se_kept EXCEPT !.build = l]
  /\ UNCHANGED se_settings

(* Reading a line or coordinates with a bad checksum stores empty ones.    *)
ReadRecord ==
  /\ se_writing = <<>> /\ se_settings # NoSettings
  /\ \E k \in SeKinds \cap {"coord", "line", "build"} :
       \E n \in CASE k = "coord" -> 0..SETTING_INDEX_NCOORD
                  [] k = "line" -> 0..(N_STARTUP_LINE - 1) [] OTHER -> {0} :
         /\ ~Intact(k, n)
         /\ se_writing' = Stored(k, n, IF k = "coord" THEN [j \in 1..Size(k) |-> 0]
                                       ELSE [Bytes(k, n) EXCEPT ![1] = 0])
  /\ UNCHANGED <<se_eeprom, se_settings, se_kept, se_bounds>>

Restore == \E what \in {"$", "#", "T", "*"} :   \* $RST=
  /\ "restore" \in SeKinds /\ SeCommand
  /\ se_writing' = Restored(what)
  /\ se_settings' = IF what \in {"$", "*"} THEN Defaults ELSE se_settings
  /\ se_kept' = [k \in DOMAIN se_kept |->
                   IF k \in DOMAIN Numbers THEN KeptAfter([j \in DOMAIN Numbers |-> se_kept[j]], what)[k]
                   ELSE se_kept[k]]

-----------------------------------------------------------------------------
(* Power.                                                                  *)

ReadSettingsOfAnyVersion == Intact("global", 0)
ReadSettings == se_eeprom[0] = VERSION /\ Intact("global", 0)   \* read_global_settings()

SettingsInit ==
  /\ se_settings = NoSettings /\ se_writing = <<>>
  /\ IF ReadSettings
     THEN se_settings' = Decoded(Bytes("global", 0)) /\ UNCHANGED <<se_writing, se_kept>>
     ELSE /\ se_settings' = Defaults /\ se_writing' = Restored("*")
          /\ se_kept' = [k \in DOMAIN se_kept |-> IF k \in DOMAIN Numbers
                                                  THEN ZeroRecords(k) ELSE se_kept[k]]
  /\ UNCHANGED <<se_eeprom, se_bounds>>

PowerOff ==   \* between two commands
  /\ se_writing = <<>> /\ se_settings # NoSettings
  /\ se_settings' = NoSettings
  /\ UNCHANGED <<se_eeprom, se_writing, se_kept, se_bounds>>

PowerLoss ==   \* while a record is written
  /\ se_writing # <<>> /\ se_bounds.losses > 0
  /\ se_bounds' = [se_bounds EXCEPT !.losses = @ - 1, !.torn = @ + 1]
  /\ se_settings' = NoSettings /\ se_writing' = <<>>
  /\ UNCHANGED <<se_eeprom, se_kept>>

ZeroLine == [j \in 1..LINE_BUFFER_SIZE |-> 0]
After(eeprom, writes) == FoldLeft(LAMBDA e, w : [e EXCEPT ![w[1] % EEPROM_SIZE] = w[2]], eeprom, writes)
ErasedEeprom == [a \in 0..(EEPROM_SIZE - 1) |-> Erased]
SeInit == \E start \in SeStarts :
  /\ se_eeprom = IF start = "used" THEN After(ErasedEeprom, Restored("*")) ELSE ErasedEeprom
  /\ se_writing = <<>> /\ se_settings = NoSettings
  /\ se_kept = [coord |-> ZeroRecords("coord"), length |-> ZeroRecords("length"),
                diameter |-> ZeroRecords("diameter"),
                line |-> [n \in 0..(N_STARTUP_LINE - 1) |-> ZeroLine], build |-> ZeroLine]
  /\ se_bounds = [stores |-> SeMaxStores, losses |-> IF start = "new" THEN 0 ELSE SeMaxLosses,
                  torn |-> 0, stray |-> {}]

SeNext == \/ EepromPutChar \/ StoreSetting \/ SaveSettings \/ StoreNumbers \/ StoreLine
          \/ StoreBuildInfo \/ ReadRecord \/ Restore \/ SettingsInit \/ PowerOff \/ PowerLoss
SeSpec == SeInit /\ [][SeNext]_seVars /\ WF_seVars(EepromPutChar)

-----------------------------------------------------------------------------
SeQuiet == se_writing = <<>> /\ se_settings # NoSettings

(* No line with a number that no line has reaches into the record.         *)
Unhit(kind, n) == se_bounds.stray \cap Cells(kind, n) = {}
SettingsUnhit == se_bounds.stray \cap ({0} \cup Cells("global", 0)) = {}

(* The settings in use are the stored ones whenever nothing is being       *)
(* written, after every command and every start: no command changes what   *)
(* it then refuses, none forgets to store, and a start reads what was      *)
(* stored last.                                                            *)
SettingsAreStored ==
  SeQuiet /\ SettingsUnhit => ReadSettings /\ Bytes("global", 0) = Encoded(se_settings)

(* The coordinate systems and the tool data read back as they were stored  *)
(* last, whatever else is stored that does not take their place.           *)
NumbersReadBack ==
  SeQuiet /\ se_bounds.torn = 0 =>
    \A k \in DOMAIN Numbers : \A n \in 0..Numbers[k] :
      Unhit(k, n) => Intact(k, n) /\ Bytes(k, n) = se_kept[k][n]

(* No $ command enables soft limits without homing, nor disables homing    *)
(* under them.                                                             *)
SoftLimitsNeedHoming ==
  [][~SaveSettings /\ NoSettings \notin {se_settings, se_settings'} /\ Safe(se_settings)
       => Safe(se_settings')]_seVars

(* Settings that are being stored when the power fails are the old or the  *)
(* new ones afterwards, each by itself, or all are the defaults; but the   *)
(* checksum takes a number that is torn for one that was stored, at most   *)
(* one for each time that the power failed.                                *)
Given == [rate |-> {5000, 1, 268, 300}, pulse |-> {10, 12, 1}, lock |-> {25}, flags |-> 0..3,
          delay |-> {250, 1, 12, 300}, tics |-> {0, 1, 12}]
NotGiven == {f \in DOMAIN Given : se_settings[f] \notin Given[f]}
SettingsAreGiven ==
  se_settings # NoSettings /\ SettingsUnhit =>
    /\ NotGiven \subseteq {"rate", "delay"}
    /\ Cardinality(NotGiven) <= se_bounds.torn

(* config.h:474-477: the lines "won't corrupt one another".  They take     *)
(* LINE_BUFFER_SIZE bytes each, between addresses for EEPROM_LINE_SIZE.    *)
LinesReadBack ==
  SeQuiet => \A n \in 0..(N_STARTUP_LINE - 1) :
    Intact("line", n) /\ se_kept.line[n][1] # 0 => Bytes("line", n) = se_kept.line[n]

\* What was stored is what is read, over restarts and power losses within a
\* record, where no line was stored under a number that no line has; the settings
\* in force are settings somebody gave, but for a number that was torn; and no
\* setting but a whole form turns soft limits on without homing.
SeSafe == [](SettingsAreStored /\ NumbersReadBack /\ SettingsAreGiven) /\ SoftLimitsNeedHoming
=============================================================================
