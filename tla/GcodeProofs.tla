---------------------------- MODULE GcodeProofs ----------------------------
(***************************************************************************)
(* The theorems about the parser: GcInv of Gcode is inductive, and a line  *)
(* that is accepted does what it says.  The checks come first, then what   *)
(* the words make of a block, what a block computes, and the actions.      *)
(***************************************************************************)
EXTENDS Gcode, SequenceTheorems, WellFoundedInduction, TLAPS

-----------------------------------------------------------------------------
(* The checks: FirstFailure() is "OK" when every check of its list is.      *)

\* A set of numbers that is not empty has a least one.
LEMMA LeastOf ==
  ASSUME NEW S, S \subseteq Nat, S # {}
  PROVE  \E x \in S : \A y \in S : x <= y
  <1> DEFINE R == {p \in Nat \X Nat : p[1] < p[2]}
  <1>1. IsWellFoundedOn(R, Nat)
    BY NatLessThanWellFounded DEF OpToRel
  <1>2. \A x, y \in Nat : x < y => <<x, y>> \in R
    OBVIOUS
  <1> HIDE DEF R
  <1>3. \E x \in S : \A y \in S : ~(<<y, x>> \in R)
    BY <1>1, WFMin
  <1>4. ASSUME NEW x \in S, NEW y \in S, ~(<<y, x>> \in R) PROVE x <= y
    BY <1>2, <1>4
  <1> QED
    BY <1>3, <1>4

LEMMA MinIs ==
  ASSUME NEW S, S \subseteq Nat, S # {}
  PROVE  Min(S) \in S
  BY LeastOf DEF Min

Statuses ==
  {"OK", "UNSUPPORTED_COMMAND", "SYNCHRONIZATION_PULSES_NOT_SET",
   "HARDWARE_LIMITS_NOT_ENABLED", "AXIS_COMMAND_CONFLICT", "COMMAND_VALUE_NOT_INTEGER",
   "MODAL_GROUP_VIOLATION", "MAX_VALUE_EXCEEDED", "WORD_REPEATED", "NEGATIVE_VALUE",
   "INVALID_LINE_NUMBER", "UNDEFINED_FEED_RATE", "VALUE_WORD_MISSING",
   "G43_DYNAMIC_AXIS_ERROR", "SETTING_READ_FAIL", "NO_AXIS_WORDS",
   "UNSUPPORTED_COORD_SYS", "G53_INVALID_MOTION_MODE", "AXIS_WORDS_EXIST",
   "NO_AXIS_WORDS_IN_PLANE", "INVALID_TARGET", "ARC_RADIUS_ERROR",
   "NO_OFFSETS_IN_PLANE", "UNUSED_WORDS", "INVALID_JOG_COMMAND"}
AllFine(statuses) == \A i \in 1 .. Len(statuses) : statuses[i] = "OK"

LEMMA NoneFails ==
  ASSUME NEW statuses \in Seq(Statuses), FirstFailure(statuses) = "OK"
  PROVE  AllFine(statuses)
  <1> DEFINE failed == {i \in DOMAIN statuses : statuses[i] # "OK"}
  <1>1. DOMAIN statuses = 1 .. Len(statuses)
    OBVIOUS
  <1>2. failed \subseteq Nat
    BY <1>1
  <1>3. ASSUME failed # {} PROVE FALSE
    <2>1. Min(failed) \in failed
      BY <1>2, <1>3, MinIs
    <2>2. statuses[Min(failed)] = "OK"
      BY <1>3 DEF FirstFailure
    <2> QED
      BY <2>1, <2>2
  <1> QED
    BY <1>1, <1>3 DEF AllFine

LEMMA BothFine ==
  ASSUME NEW s \in Seq(Statuses), NEW t \in Seq(Statuses), AllFine(s \o t)
  PROVE  AllFine(s) /\ AllFine(t)
  <1>1. Len(s \o t) = Len(s) + Len(t) /\ Len(s) \in Nat /\ Len(t) \in Nat
    OBVIOUS
  <1>2. ASSUME NEW i \in 1 .. Len(s) PROVE s[i] = "OK"
    <2>1. (s \o t)[i] = s[i] /\ i \in 1 .. Len(s \o t)
      BY <1>1
    <2> QED
      BY <2>1 DEF AllFine
  <1>3. ASSUME NEW i \in 1 .. Len(t) PROVE t[i] = "OK"
    <2>1. (s \o t)[Len(s) + i] = t[i] /\ Len(s) + i \in 1 .. Len(s \o t)
      BY <1>1
    <2> QED
      BY <2>1 DEF AllFine
  <1> QED
    BY <1>2, <1>3 DEF AllFine

LEMMA GAccepted ==
  ASSUME NEW b, NEW w, FirstFailure(GChecks(b, w)) = "OK"
  PROVE  /\ Group(w) # "none" /\ Group(w) \notin b.command_words
         /\ AxisUse(w) = "none" \/ b.axis_command = "none"
         /\ w.m \in Digits(w) /\ ~(w.v \in Whole /\ w.m > 0)
  <1>1. GChecks(b, w) \in Seq(Statuses) /\ Len(GChecks(b, w)) = 7
    BY DEF GChecks, FailIf, Statuses
  <1>2. \A i \in 1 .. 7 : GChecks(b, w)[i] = "OK"
    BY <1>1, NoneFails DEF AllFine
  <1>3. Group(w) # "none"
    BY <1>2 DEF GChecks, FailIf
  <1>4. AxisUse(w) = "none" \/ b.axis_command = "none"
    BY <1>2 DEF GChecks, FailIf
  <1>5. w.m \in Digits(w)
    BY <1>2 DEF GChecks, FailIf
  <1>6. ~(w.v \in Whole /\ w.m > 0)
    BY <1>2 DEF GChecks, FailIf
  <1>7. Group(w) \notin b.command_words
    BY <1>2 DEF GChecks, FailIf
  <1> QED
    BY <1>3, <1>4, <1>5, <1>6, <1>7

LEMMA MAccepted ==
  ASSUME NEW b, NEW w, FirstFailure(MChecks(b, w)) = "OK"
  PROVE  Group(w) # "none" /\ Group(w) \notin b.command_words
  <1>1. MChecks(b, w) \in Seq(Statuses) /\ Len(MChecks(b, w)) = 3
    BY DEF MChecks, FailIf, Statuses
  <1>2. \A i \in 1 .. 3 : MChecks(b, w)[i] = "OK"
    BY <1>1, NoneFails DEF AllFine
  <1> QED
    BY <1>2 DEF MChecks, FailIf

LEMMA ValueAccepted ==
  ASSUME NEW b, NEW w, FirstFailure(ValueChecks(b, w)) = "OK"
  PROVE  /\ w.l \in ValueLetters
         /\ w.l \in {"F", "N", "P", "T", "S"} => ~(w.v < 0)
  <1>1. ValueChecks(b, w) \in Seq(Statuses) /\ Len(ValueChecks(b, w)) = 4
    BY DEF ValueChecks, FailIf, Statuses
  <1>2. \A i \in 1 .. 4 : ValueChecks(b, w)[i] = "OK"
    BY <1>1, NoneFails DEF AllFine
  <1>3. w.l \in ValueLetters
    BY <1>2 DEF ValueChecks, FailIf
  <1>4. w.l \in {"F", "N", "P", "T", "S"} => ~(w.v < 0)
    BY <1>2 DEF ValueChecks, FailIf
  <1> QED
    BY <1>3, <1>4

LEMMA FailIfStatus ==
  ASSUME NEW condition, NEW status \in Statuses
  PROVE  FailIf(condition, status) \in Statuses
  BY DEF FailIf, Statuses

LEMMA NonModalList ==
  ASSUME NEW b PROVE NonModalChecks(b) \in Seq(Statuses)
  <1>1. G10Checks(b) \in Seq(Statuses)
    BY FailIfStatus DEF G10Checks, Statuses
  <1>2. <<FailIf(Named(b) = {}, "NO_AXIS_WORDS")>> \in Seq(Statuses)
    BY FailIfStatus DEF Statuses
  <1>3. <<FailIf(coord_data[BadRecord(b)] = BAD, "SETTING_READ_FAIL")>> \in Seq(Statuses)
    BY FailIfStatus DEF Statuses
  <1>4. <<FailIf(b.modal["G1"] \notin {0, 10}, "G53_INVALID_MOTION_MODE")>> \in Seq(Statuses)
    BY FailIfStatus DEF Statuses
  <1> QED
    BY <1>1, <1>2, <1>3, <1>4 DEF NonModalChecks

LEMMA ModeList ==
  ASSUME NEW b PROVE ModeChecks(b) \in Seq(Statuses)
  <1>1. ThreadChecks(b) \in Seq(Statuses)
    BY FailIfStatus DEF ThreadChecks, Statuses
  <1>2. ArcChecks(b) \in Seq(Statuses)
    BY FailIfStatus DEF ArcChecks, Statuses
  <1>3. ProbeChecks(b) \in Seq(Statuses)
    BY FailIfStatus DEF ProbeChecks, Statuses
  <1> QED
    BY <1>1, <1>2, <1>3 DEF ModeChecks

LEMMA FeedCheck ==
  ASSUME NEW b
  PROVE  <<FailIf(b.modal["G1"] # 330 /\ FeedRate(b) = 0, "UNDEFINED_FEED_RATE")>>
           \in Seq(Statuses)
  BY FailIfStatus DEF Statuses

LEMMA MotionList ==
  ASSUME NEW b PROVE MotionChecks(b) \in Seq(Statuses)
  <1>1. <<FailIf(Named(b) # {}, "AXIS_WORDS_EXIST")>> \in Seq(Statuses)
    BY FailIfStatus DEF Statuses
  <1>2. <<FailIf(b.modal["G1"] # 330 /\ FeedRate(b) = 0, "UNDEFINED_FEED_RATE")>>
          \o ModeChecks(b) \in Seq(Statuses)
    BY FeedCheck, ModeList
  <1> QED
    BY <1>1, <1>2 DEF MotionChecks

LEMMA ListsOfChecks ==
  ASSUME NEW b
  PROVE  /\ CommonChecks(b) \in Seq(Statuses) /\ NonModalChecks(b) \in Seq(Statuses)
         /\ MotionChecks(b) \in Seq(Statuses) /\ FinalChecks(b) \in Seq(Statuses)
  <1>1. CommonChecks(b) \in Seq(Statuses)
    BY FailIfStatus DEF CommonChecks, Statuses
  <1>2. FinalChecks(b) \in Seq(Statuses)
    BY FailIfStatus DEF FinalChecks, Statuses
  <1> QED
    BY <1>1, <1>2, NonModalList, MotionList

LEMMA EachListFine ==
  ASSUME NEW b, BlockStatus(b) = "OK"
  PROVE  /\ AllFine(CommonChecks(b)) /\ AllFine(NonModalChecks(b))
         /\ AllFine(MotionChecks(b)) /\ AllFine(FinalChecks(b))
  <1>1. FirstFailure(EarlyChecks(b)) = "OK" /\ FirstFailure(LateChecks(b)) = "OK"
    BY DEF BlockStatus
  <1>2. /\ CommonChecks(b) \o NonModalChecks(b) \in Seq(Statuses)
        /\ MotionChecks(b) \o FinalChecks(b) \in Seq(Statuses)
    BY ListsOfChecks
  <1>3. AllFine(CommonChecks(b) \o NonModalChecks(b))
    BY <1>1, <1>2, NoneFails DEF EarlyChecks
  <1>4. AllFine(MotionChecks(b) \o FinalChecks(b))
    BY <1>1, <1>2, NoneFails DEF LateChecks
  <1> QED
    BY <1>3, <1>4, ListsOfChecks, BothFine

\* What the execution relies on: the records it reads could be read, a motion has
\* a feed, and a jog has no other command than G53, G90, G91, G20 and G21.
LEMMA BlockAccepted ==
  ASSUME NEW b, BlockStatus(b) = "OK"
  PROVE  /\ ChangesSystem(b) => coord_data[b.modal["G12"]] # BAD
         /\ b.non_modal = 100 => /\ ~(b.values["P"] % 256 > N_COORDINATE_SYSTEM)
                                 /\ coord_data[G10Select(b)] # BAD
         /\ GoesHome(b) => coord_data[BadRecord(b)] # BAD
         /\ b.modal["G1"] = 800 => Named(b) = {}
         /\ AxisCommand(b) = "motion" /\ b.modal["G1"] \notin {0, 330, 800}
              => FeedRate(b) # 0
         /\ b.jog => /\ b.command_words \subseteq {"G0", "G3", "G6"}
                     /\ b.non_modal \in {-1, 530}
  <1> DEFINE Fine == /\ AllFine(CommonChecks(b)) /\ AllFine(NonModalChecks(b))
                     /\ AllFine(MotionChecks(b)) /\ AllFine(FinalChecks(b))
  <1>0. Fine
    BY EachListFine
  <1>1. ChangesSystem(b) => coord_data[b.modal["G12"]] # BAD
    <2>1. Len(CommonChecks(b)) = 6
      BY DEF CommonChecks
    <2>2. CommonChecks(b)[6] = "OK"
      BY <1>0, <2>1 DEF AllFine
    <2> QED
      BY <2>2 DEF CommonChecks, FailIf
  <1>2. ASSUME b.non_modal = 100
        PROVE  /\ ~(b.values["P"] % 256 > N_COORDINATE_SYSTEM)
               /\ coord_data[G10Select(b)] # BAD
    <2>1. Len(G10Checks(b)) = 6
      BY DEF G10Checks
    <2>2. G10Checks(b)[3] = "OK" /\ G10Checks(b)[6] = "OK"
      <3>1. NonModalChecks(b) = G10Checks(b)
        BY <1>2 DEF NonModalChecks, GoesHome
      <3> QED
        BY <1>0, <2>1, <3>1 DEF AllFine
    <2> QED
      BY <2>2 DEF G10Checks, FailIf
  <1>3. ASSUME GoesHome(b) PROVE coord_data[BadRecord(b)] # BAD
    <2>1. NonModalChecks(b) = <<FailIf(coord_data[BadRecord(b)] = BAD, "SETTING_READ_FAIL")>>
      BY <1>3 DEF NonModalChecks, GoesHome
    <2>2. FailIf(coord_data[BadRecord(b)] = BAD, "SETTING_READ_FAIL") = "OK"
      BY <1>0, <2>1 DEF AllFine
    <2> QED
      BY <2>2 DEF FailIf
  <1>4. ASSUME b.modal["G1"] = 800 PROVE Named(b) = {}
    <2>1. MotionChecks(b) = <<FailIf(Named(b) # {}, "AXIS_WORDS_EXIST")>>
      BY <1>4 DEF MotionChecks
    <2>2. FailIf(Named(b) # {}, "AXIS_WORDS_EXIST") = "OK"
      BY <1>0, <2>1 DEF AllFine
    <2> QED
      BY <2>2 DEF FailIf
  <1>5. ASSUME AxisCommand(b) = "motion", b.modal["G1"] \notin {0, 330, 800}
        PROVE  FeedRate(b) # 0
    <2> DEFINE feed == FailIf(b.modal["G1"] # 330 /\ FeedRate(b) = 0, "UNDEFINED_FEED_RATE")
    <2>1. MotionChecks(b) = <<feed>> \o ModeChecks(b)
      BY <1>5 DEF MotionChecks
    <2>2. ModeChecks(b) \in Seq(Statuses)
      BY ModeList
    <2>3. <<feed>> \in Seq(Statuses)
      BY FeedCheck
    <2> HIDE DEF feed
    <2>4. AllFine(<<feed>>)
      BY <1>0, <2>1, <2>2, <2>3, BothFine
    <2>5. feed = "OK"
      BY <2>4 DEF AllFine
    <2> QED
      BY <1>5, <2>5 DEF feed, FailIf
  <1>6. ASSUME b.jog
        PROVE  /\ b.command_words \subseteq {"G0", "G3", "G6"}
               /\ b.non_modal \in {-1, 530}
    <2>1. Len(FinalChecks(b)) = 3
      BY DEF FinalChecks
    <2>2. FinalChecks(b)[2] = "OK" /\ FinalChecks(b)[3] = "OK"
      BY <1>0, <2>1 DEF AllFine
    <2> QED
      BY <1>6, <2>2 DEF FinalChecks, FailIf
  <1> QED
    BY <1>1, <1>2, <1>3, <1>4, <1>5, <1>6

-----------------------------------------------------------------------------
(* The words: what each makes of the block.                                 *)

\* GcAssumption, of the words of one setup.
IsWord(w) == w.v \in Int /\ w.m \in Nat

\* A command whose word is accepted gives its group one of the values it can have.
LEMMA ModalValues ==
  ASSUME NEW b, NEW w, IsWord(w), NEW m \in GcModals,
         \/ w.l = "G" /\ w.m \in Digits(w) /\ ~(w.v \in Whole /\ w.m > 0)
         \/ w.l = "M",
         Group(w) # "none"
  PROVE  [g \in DOMAIN m |-> IF g = Group(w) THEN ModalValue(w, m[g]) ELSE m[g]]
           \in GcModals
  <1> DEFINE n == [g \in DOMAIN m |-> IF g = Group(w) THEN ModalValue(w, m[g]) ELSE m[g]]
  <1>1. CASE w.l = "M"
    <2>0. Group(w) = MGroup(w) /\ Group(w) \in {"M4", "M7", "M8"}
      BY <1>1 DEF Group, MGroup
    <2>1. CASE Group(w) = "M4"
      <3>1. w.v \in {0, 1, 2, 30}
        BY <2>0, <2>1 DEF MGroup
      <3>2. ModalValue(w, m["M4"]) \in {0, 2, 30, RUNNING}
        BY <2>1, <3>1 DEF ModalValue, GcModals
      <3> QED
        BY <2>1, <3>2 DEF GcModals
    <2>2. CASE Group(w) = "M7"
      <3>1. w.v \in {3, 4, 5}
        BY <2>0, <2>2 DEF MGroup
      <3> QED
        BY <2>2, <3>1 DEF ModalValue, GcModals
    <2>3. CASE Group(w) = "M8"
      <3>1. ModalValue(w, m["M8"]) \in SUBSET {"flood", "mist"}
        BY <2>3 DEF ModalValue, Coolant, GcModals
      <3> QED
        BY <2>3, <3>1 DEF GcModals
    <2> QED
      BY <2>0, <2>1, <2>2, <2>3
  <1>2. CASE w.l = "G"
    <2>0. Group(w) = GGroup(w)
      BY <1>2 DEF Group
    <2>1. CASE Group(w) \notin DOMAIN m
      BY <1>2, <2>1 DEF GcModals
    <2>2. CASE Group(w) = "G1"
      <3>1. Code(w) \in {0, 10, 20, 30, 330, 382, 383, 384, 385, 800}
        <4>1. w.v \in Motion
          BY <2>0, <2>2 DEF GGroup
        <4>2. CASE w.v = 38
          BY <1>2, <4>2 DEF Digits, Code
        <4>3. CASE w.v # 38
          <5>1. w.m = 0
            BY <1>2, <4>1, <4>3 DEF Whole, Motion, IsWord
          <5> QED
            BY <4>1, <4>3, <5>1 DEF Motion, Code
        <4> QED
          BY <4>2, <4>3
      <3> QED
        BY <1>2, <2>2, <3>1 DEF ModalValue, GcModals
    <2>3. CASE Group(w) \in {"G2", "G3", "G5", "G6"}
      <3>1. /\ Group(w) = "G2" => w.v \in 17 .. 19
            /\ Group(w) = "G3" => w.v \in {90, 91}
            /\ Group(w) = "G5" => w.v \in {93, 94}
            /\ Group(w) = "G6" => w.v \in {20, 21}
        BY <2>0, <2>3 DEF GGroup
      <3>2. ModalValue(w, m[Group(w)]) = w.v
        BY <2>3 DEF ModalValue
      <3> QED
        BY <2>3, <3>1, <3>2 DEF GcModals
    <2>4. CASE Group(w) = "G8"
      BY <1>2, <2>4 DEF ModalValue, GcModals
    <2>5. CASE Group(w) = "G12"
      <3>1. w.v - 54 \in 0 .. 5
        <4>1. w.v \in 54 .. 59
          BY <2>0, <2>5 DEF GGroup
        <4> QED
          BY <4>1
      <3> QED
        BY <1>2, <2>5, <3>1 DEF ModalValue, GcModals
    <2>6. Group(w) \notin {"M4", "M7", "M8"}
      BY <2>0 DEF GGroup
    <2> QED
      BY <2>1, <2>2, <2>3, <2>4, <2>5, <2>6 DEF GcModals
  <1> QED
    BY <1>1, <1>2

\* The types of a block, and what is consistent in it.
BlockType(b) ==
  b \in [jog : BOOLEAN, modal : GcModals, non_modal : Int,
         axis_command : {"none", "non_modal", "motion", "tool_length"},
         command_words : SUBSET Groups, value_words : SUBSET ValueLetters,
         values : [ValueLetters -> Int], words : SUBSET gc_setup.words]

LEMMA CommandTypes ==
  ASSUME NEW b, BlockType(b), NEW w, IsWord(w), w.l \in {"G", "M"},
         WordStatus(b, w) = "OK"
  PROVE  BlockType(WithCommand(b, w))
  <1>1. Group(w) # "none" /\ Group(w) \notin b.command_words
    BY GAccepted, MAccepted DEF WordStatus
  <1>2. w.l = "G" => w.m \in Digits(w) /\ ~(w.v \in Whole /\ w.m > 0)
    BY GAccepted DEF WordStatus
  <1>3. [g \in DOMAIN b.modal |-> IF g = Group(w) THEN ModalValue(w, b.modal[g]) ELSE b.modal[g]]
          \in GcModals
    BY <1>1, <1>2, ModalValues DEF BlockType
  <1>4. Group(w) \in Groups
    BY <1>1 DEF Group, GGroup, MGroup, Groups
  <1>5. Code(w) \in Int
    BY DEF Code, IsWord
  <1>6. AxisUse(w) \in {"none", "non_modal", "motion", "tool_length"}
    BY DEF AxisUse
  <1> QED
    BY <1>3, <1>4, <1>5, <1>6 DEF WithCommand, BlockType

Consistent(b) ==
  /\ \A l \in {"F", "N", "P", "S", "T"} : b.values[l] >= 0
  /\ "G12" \notin b.command_words => b.modal["G12"] = gc_state.modal["G12"]
  /\ b.non_modal \in {100, 280, 300, 920} => b.axis_command = "non_modal"
  /\ b.axis_command = "non_modal"
       => "G0" \in b.command_words /\ b.non_modal \notin {-1, 530}
  /\ b.axis_command = "tool_length" => "G8" \in b.command_words
  /\ b.jog => "G1" \in b.command_words \/ b.modal["G1"] = 10

LEMMA CommandConsistent ==
  ASSUME NEW b, BlockType(b), Consistent(b), NEW w, IsWord(w), w.l \in {"G", "M"},
         WordStatus(b, w) = "OK"
  PROVE  Consistent(WithCommand(b, w))
  <1> DEFINE c == WithCommand(b, w)
  <1>1. Group(w) # "none" /\ Group(w) \notin b.command_words
    BY GAccepted, MAccepted DEF WordStatus
  <1>2. w.l = "G" => /\ w.m \in Digits(w) /\ ~(w.v \in Whole /\ w.m > 0)
                     /\ AxisUse(w) = "none" \/ b.axis_command = "none"
    BY GAccepted DEF WordStatus
  <1>3. /\ c.values = b.values /\ c.jog = b.jog
        /\ c.command_words = b.command_words \cup {Group(w)}
        /\ c.non_modal = IF Group(w) = "G0" THEN Code(w) ELSE b.non_modal
        /\ c.axis_command = IF AxisUse(w) = "none" \/ w.l = "M"
                            THEN b.axis_command ELSE AxisUse(w)
    BY DEF WithCommand, BlockType
  <1>4. /\ Group(w) # "G1" => c.modal["G1"] = b.modal["G1"]
        /\ Group(w) # "G12" => c.modal["G12"] = b.modal["G12"]
    BY DEF WithCommand, BlockType, GcModals
  <1>5. Group(w) = "G0" => /\ w.l = "G" /\ w.v \in NonModal
                           /\ AxisUse(w) = "none" => Code(w) \notin {100, 280, 300, 920}
                           /\ AxisUse(w) = "non_modal" \/ AxisUse(w) = "none"
                           /\ AxisUse(w) = "non_modal" => Code(w) \notin {-1, 530}
    <2>1. CASE Group(w) = "G0"
      <3>1. w.l = "G" /\ w.v \in NonModal
        <4>1. w.l = "G"
          BY <2>1 DEF Group, MGroup
        <4> QED
          BY <2>1, <4>1 DEF Group, GGroup
      <3>2. AxisUse(w) = IF w.v \in {10, 28, 30, 92} /\ w.m = 0 THEN "non_modal" ELSE "none"
        BY <3>1 DEF AxisUse, NonModal, Motion
      <3>3. w.v \in {28, 30, 92} => w.m \in {0, 10}
        BY <1>2, <3>1 DEF Digits
      <3>4. w.v \in {4, 10, 53} => w.m = 0
        BY <1>2, <3>1 DEF Whole, IsWord
      <3>5. w.m = 0 => Code(w) = 10 * w.v
        BY DEF Code, IsWord
      <3>6. w.m = 10 => Code(w) = 10 * w.v + 1
        BY DEF Code, IsWord
      <3> QED
        BY <3>1, <3>2, <3>3, <3>4, <3>5, <3>6 DEF NonModal
    <2> QED
      BY <2>1
  <1>6. w.l = "G" => /\ AxisUse(w) = "non_modal" => Group(w) = "G0"
                     /\ AxisUse(w) = "tool_length" => Group(w) = "G8"
    BY <1>1 DEF AxisUse, Group, GGroup, NonModal, Motion
  <1> HIDE DEF c
  <1>7. \A l \in {"F", "N", "P", "S", "T"} : c.values[l] >= 0
    BY <1>3 DEF Consistent
  <1>8. "G12" \notin c.command_words => c.modal["G12"] = gc_state.modal["G12"]
    BY <1>3, <1>4 DEF Consistent
  <1>9. c.non_modal \in {100, 280, 300, 920} => c.axis_command = "non_modal"
    BY <1>2, <1>3, <1>5 DEF Consistent
  <1>10. c.axis_command = "non_modal"
           => "G0" \in c.command_words /\ c.non_modal \notin {-1, 530}
    BY <1>1, <1>3, <1>5, <1>6 DEF Consistent
  <1>11. c.axis_command = "tool_length" => "G8" \in c.command_words
    BY <1>3, <1>6 DEF Consistent
  <1>12. c.jog => "G1" \in c.command_words \/ c.modal["G1"] = 10
    BY <1>3, <1>4 DEF Consistent
  <1> QED
    BY <1>7, <1>8, <1>9, <1>10, <1>11, <1>12 DEF Consistent, c

LEMMA ValueKeepsBlock ==
  ASSUME NEW b, BlockType(b), Consistent(b), NEW w, IsWord(w), w.l \notin {"G", "M"},
         WordStatus(b, w) = "OK"
  PROVE  BlockType(WithValue(b, w)) /\ Consistent(WithValue(b, w))
  <1> DEFINE v == IF w.l = "L" THEN w.v % 256 ELSE w.v
  <1>1. w.l \in ValueLetters /\ (w.l \in {"F", "N", "P", "S", "T"} => ~(w.v < 0))
    BY ValueAccepted DEF WordStatus
  <1>2. v \in Int /\ (w.l \in {"F", "N", "P", "S", "T"} => v >= 0)
    BY <1>1 DEF IsWord
  <1> HIDE DEF v
  <1>3. WithValue(b, w) = [b EXCEPT !.value_words = b.value_words \cup {w.l},
                                   !.values = [b.values EXCEPT ![w.l] = v]]
    BY DEF WithValue, v
  <1>4. [b.values EXCEPT ![w.l] = v] \in [ValueLetters -> Int]
    BY <1>2 DEF BlockType
  <1>5. BlockType(WithValue(b, w))
    <2>1. b.value_words \cup {w.l} \in SUBSET ValueLetters
      BY <1>1 DEF BlockType
    <2> DEFINE words == b.value_words \cup {w.l}
               values == [b.values EXCEPT ![w.l] = v]
    <2>2. words \in SUBSET ValueLetters /\ values \in [ValueLetters -> Int]
      BY <2>1, <1>4
    <2> HIDE DEF words, values
    <2>3. [b EXCEPT !.value_words = words, !.values = values]
            \in [jog : BOOLEAN, modal : GcModals, non_modal : Int,
                 axis_command : {"none", "non_modal", "motion", "tool_length"},
                 command_words : SUBSET Groups, value_words : SUBSET ValueLetters,
                 values : [ValueLetters -> Int], words : SUBSET gc_setup.words]
      BY <2>2 DEF BlockType
    <2> QED
      BY <1>3, <2>3 DEF BlockType, words, values
  <1>6. \A l \in {"F", "N", "P", "S", "T"} : [b.values EXCEPT ![w.l] = v][l] >= 0
    BY <1>2 DEF BlockType, Consistent, ValueLetters
  <1>7. /\ WithValue(b, w).values = [b.values EXCEPT ![w.l] = v]
        /\ WithValue(b, w).command_words = b.command_words
        /\ WithValue(b, w).modal = b.modal /\ WithValue(b, w).jog = b.jog
        /\ WithValue(b, w).non_modal = b.non_modal
        /\ WithValue(b, w).axis_command = b.axis_command
    BY <1>3 DEF BlockType
  <1>8. Consistent(WithValue(b, w))
    BY <1>6, <1>7 DEF Consistent
  <1> QED
    BY <1>5, <1>8

\* An accepted word leaves a block of the right kind.
LEMMA WordKeepsBlock ==
  ASSUME NEW b, BlockType(b), Consistent(b), NEW w \in gc_setup.words, IsWord(w),
         WordStatus(b, w) = "OK"
  PROVE  LET c == [WithWord(b, w) EXCEPT !.words = @ \cup {w}]
         IN BlockType(c) /\ Consistent(c)
  <1> DEFINE d == WithWord(b, w)
  <1>1. BlockType(d) /\ Consistent(d)
    BY CommandTypes, CommandConsistent, ValueKeepsBlock DEF WithWord
  <1> HIDE DEF d
  <1>2. BlockType([d EXCEPT !.words = @ \cup {w}])
    BY <1>1 DEF BlockType
  <1>3. Consistent([d EXCEPT !.words = @ \cup {w}])
    BY <1>1 DEF BlockType, Consistent
  <1> QED
    BY <1>2, <1>3 DEF d

-----------------------------------------------------------------------------
(* What an accepted block computes.                                         *)

LEMMA PlaceIsRead ==
  ASSUME NEW p \in GcPlaces PROVE p # BAD
  BY DEF GcPlaces, BAD, Axis

LEMMA ZeroIsPlace == Zero \in GcPlaces
  BY DEF Zero, GcPlaces

LEMMA ScaleType ==
  ASSUME NEW b PROVE Scale(b) \in Nat
  BY GcAssumption DEF Scale

LEMMA IntTimes ==
  ASSUME NEW m \in Int, NEW n \in Nat PROVE m * n \in Int /\ (m >= 0 => m * n \in Nat)
  OBVIOUS

\* What the lemmas below suppose of a block and of the state it is executed in.
Ready(b) ==
  GcTypeOK /\ BlockType(b) /\ Consistent(b) /\ BlockStatus(b) = "OK"

LEMMA Amounts ==
  ASSUME NEW b, Ready(b)
  PROVE  /\ \A l \in ValueLetters : b.values[l] * Scale(b) \in Int
         /\ b.values["F"] * Scale(b) \in Nat
  <1>1. b.values \in [ValueLetters -> Int] /\ b.values["F"] >= 0 /\ "F" \in ValueLetters
    BY DEF Ready, BlockType, Consistent, ValueLetters
  <1> QED
    BY <1>1, ScaleType, IntTimes

LEMMA FeedType ==
  ASSUME NEW b, Ready(b) PROVE FeedRate(b) \in Nat
  <1>1. b.values["F"] \in Nat
    BY DEF Ready, BlockType, Consistent, ValueLetters
  <1>2. gc_state.feed_rate \in Nat
    BY DEF Ready, GcTypeOK
  <1>3. b.values["F"] * Scale(b) \in Nat
    BY Amounts
  <1> QED
    BY <1>1, <1>2, <1>3 DEF FeedRate

LEMMA SpeedType ==
  ASSUME NEW b, GcTypeOK, BlockType(b), Consistent(b)
  PROVE  SpindleSpeed(b) \in Nat /\ Power(b) \in Nat
  <1>1. b.values["S"] \in Nat
    BY DEF BlockType, Consistent, ValueLetters
  <1>2. gc_state.spindle_speed \in Nat
    BY DEF GcTypeOK
  <1> QED
    BY <1>1, <1>2 DEF SpindleSpeed, Power

LEMMA SystemType ==
  ASSUME NEW b, Ready(b)
  PROVE  /\ BlockSystem(b) \in GcPlaces
         /\ \A a \in Axis : Offsets(b, a) \in Int
         /\ \A a \in Axis : TloOn(a) \in Int
  <1>1. b.modal["G12"] \in Records
    BY DEF Ready, BlockType, GcModals, Records
  <1>2. /\ coord_data \in [Records -> GcPlaces \cup {BAD}]
        /\ gc_state.coord_system \in GcPlaces /\ gc_state.coord_offset \in GcPlaces
        /\ gc_state.tool_length_offset \in Int
    BY DEF Ready, GcTypeOK
  <1>3. BlockSystem(b) \in GcPlaces
    BY <1>1, <1>2, BlockAccepted DEF BlockSystem, Ready
  <1>4. \A a \in Axis : TloOn(a) \in Int
    BY <1>2 DEF TloOn
  <1> QED
    BY <1>2, <1>3, <1>4 DEF Offsets, GcPlaces

LEMMA TargetType ==
  ASSUME NEW b, Ready(b) PROVE Target(b) \in GcPlaces
  <1>1. CASE Named(b) = {}
    BY <1>1, ZeroIsPlace DEF Target
  <1>2. CASE Named(b) # {}
    <2> DEFINE value(a) == b.values[a] * Scale(b)
    <2> DEFINE where(a) ==
          IF a \notin Named(b) THEN gc_state.position[a]
          ELSE IF b.non_modal = 530 THEN value(a)
          ELSE value(a) + IF b.modal["G3"] = 90 THEN Offsets(b, a) ELSE gc_state.position[a]
    <2>1. \A a \in Axis : value(a) \in Int
      BY Amounts DEF ValueLetters
    <2>2. \A a \in Axis : gc_state.position[a] \in Int
      BY DEF Ready, GcTypeOK, GcPlaces
    <2>3. Target(b) = [a \in Axis |-> where(a)]
      BY <1>2 DEF Target
    <2> HIDE DEF value
    <2>4. \A a \in Axis : where(a) \in Int
      BY <2>1, <2>2, SystemType
    <2> QED
      BY <2>3, <2>4 DEF GcPlaces
  <1> QED
    BY <1>1, <1>2

\* What an axis word of a moving block means.
LEMMA TargetOf ==
  ASSUME NEW b, NEW a \in Named(b), NEW value, value = b.values[a] * Scale(b)
  PROVE  /\ b.non_modal = 530 => Target(b)[a] = value
         /\ b.non_modal # 530 /\ b.modal["G3"] = 90
              => Target(b)[a] = value + Offsets(b, a)
         /\ b.non_modal # 530 /\ b.modal["G3"] # 90
              => Target(b)[a] = value + gc_state.position[a]
  <1>1. Named(b) # {} /\ a \in Axis
    BY DEF Named
  <1> QED
    BY <1>1 DEF Target

LEMMA SelectType ==
  ASSUME NEW b, Ready(b), b.non_modal = 100
  PROVE  /\ G10Select(b) \in 0 .. 5
         /\ coord_data[G10Select(b)] \in GcPlaces
  <1>1. b.values["P"] \in Nat /\ b.modal["G12"] \in 0 .. 5
    BY DEF Ready, BlockType, Consistent, ValueLetters, GcModals
  <1> DEFINE p == b.values["P"] % 256
  <1>2. p \in Nat /\ p <= N_COORDINATE_SYSTEM
    BY <1>1, BlockAccepted DEF Ready, N_COORDINATE_SYSTEM
  <1>3. G10Select(b) = IF p > 0 THEN p - 1 ELSE b.modal["G12"]
    BY DEF G10Select
  <1> HIDE DEF p
  <1>4. G10Select(b) \in 0 .. 5
    BY <1>1, <1>2, <1>3 DEF N_COORDINATE_SYSTEM
  <1>5. coord_data \in [Records -> GcPlaces \cup {BAD}] /\ G10Select(b) \in Records
    BY <1>4 DEF Ready, GcTypeOK, Records
  <1> QED
    BY <1>4, <1>5, BlockAccepted DEF Ready

LEMMA DataType ==
  ASSUME NEW b, Ready(b), b.non_modal = 100
  PROVE  CoordinateData(b) \in GcPlaces
  <1> DEFINE value(a) == b.values[a] * Scale(b)
  <1> DEFINE where(a) ==
        IF a \notin Named(b) THEN coord_data[G10Select(b)][a]
        ELSE IF b.values["L"] = 20
        THEN gc_state.position[a] - gc_state.coord_offset[a] - value(a) - TloOn(a)
        ELSE value(a)
  <1>1. \A a \in Axis : value(a) \in Int
    BY Amounts DEF ValueLetters
  <1>2. \A a \in Axis : gc_state.position[a] \in Int /\ gc_state.coord_offset[a] \in Int
    BY DEF Ready, GcTypeOK, GcPlaces
  <1>3. \A a \in Axis : coord_data[G10Select(b)][a] \in Int
    BY SelectType DEF GcPlaces
  <1>4. CoordinateData(b) = [a \in Axis |-> where(a)]
    BY DEF CoordinateData
  <1> HIDE DEF value
  <1>5. \A a \in Axis : where(a) \in Int
    BY <1>1, <1>2, <1>3, SystemType
  <1> QED
    BY <1>4, <1>5 DEF GcPlaces

LEMMA OffsetType ==
  ASSUME NEW b, Ready(b) PROVE G92Offset(b) \in GcPlaces
  <1> DEFINE value(a) == b.values[a] * Scale(b)
  <1> DEFINE where(a) ==
        IF a \in Named(b)
        THEN gc_state.position[a] - BlockSystem(b)[a] - value(a) - TloOn(a)
        ELSE gc_state.coord_offset[a]
  <1>1. \A a \in Axis : value(a) \in Int
    BY Amounts DEF ValueLetters
  <1>2. \A a \in Axis : gc_state.position[a] \in Int /\ gc_state.coord_offset[a] \in Int
    BY DEF Ready, GcTypeOK, GcPlaces
  <1>3. \A a \in Axis : BlockSystem(b)[a] \in Int
    BY SystemType DEF GcPlaces
  <1>4. G92Offset(b) = [a \in Axis |-> where(a)]
    BY DEF G92Offset
  <1> HIDE DEF value
  <1>5. \A a \in Axis : where(a) \in Int
    BY <1>1, <1>2, <1>3, SystemType
  <1> QED
    BY <1>4, <1>5 DEF GcPlaces

LEMMA HomeType ==
  ASSUME NEW b, Ready(b), GoesHome(b) PROVE Home(b) \in GcPlaces
  <1> DEFINE i == IF b.non_modal = 280 THEN G28_INDEX ELSE G30_INDEX
  <1>1. i \in Records
    BY DEF Records, G28_INDEX, G30_INDEX
  <1>2. coord_data[i] # BAD
    BY BlockAccepted DEF Ready, BadRecord, GoesHome
  <1>3. coord_data[i] \in GcPlaces
    BY <1>1, <1>2 DEF Ready, GcTypeOK
  <1>4. Home(b) = [a \in Axis |-> IF Named(b) # {} /\ a \notin Named(b)
                                  THEN gc_state.position[a] ELSE coord_data[i][a]]
    BY DEF Home
  <1> HIDE DEF i
  <1>5. gc_state.position \in GcPlaces
    BY DEF Ready, GcTypeOK
  <1> QED
    BY <1>3, <1>4, <1>5 DEF GcPlaces

LEMMA NewTypes ==
  ASSUME NEW b, Ready(b)
  PROVE  /\ NewTlo(b) \in Int /\ NewSystem(b) \in GcPlaces /\ NewOffset(b) \in GcPlaces
         /\ NewData(b) \in [Records -> GcPlaces \cup {BAD}] /\ NewData(b)[0] # BAD
  <1>1. /\ coord_data \in [Records -> GcPlaces \cup {BAD}] /\ coord_data[0] # BAD
        /\ gc_state.coord_system \in GcPlaces /\ gc_state.coord_offset \in GcPlaces
        /\ gc_state.tool_length_offset \in Int /\ gc_state.position \in GcPlaces
    BY DEF Ready, GcTypeOK
  <1>2. NewTlo(b) \in Int
    <2>1. b.values[TLO_AXIS] * Scale(b) \in Int
      BY Amounts DEF TLO_AXIS, ValueLetters, Axis
    <2> QED
      BY <1>1, <2>1 DEF NewTlo
  <1>3. NewSystem(b) \in GcPlaces
    BY <1>1, DataType, SystemType DEF NewSystem
  <1>4. NewOffset(b) \in GcPlaces
    BY <1>1, OffsetType, ZeroIsPlace DEF NewOffset
  <1>5. NewData(b) \in [Records -> GcPlaces \cup {BAD}] /\ NewData(b)[0] # BAD
    <2>1. CASE b.non_modal = 100
      <3>1. NewData(b) = [coord_data EXCEPT ![G10Select(b)] = CoordinateData(b)]
        BY <2>1 DEF NewData
      <3> QED
        BY <1>1, <2>1, <3>1, DataType, SelectType, PlaceIsRead DEF Records
    <2>2. CASE b.non_modal # 100
      BY <1>1, <2>2 DEF NewData, Records, G28_INDEX, G30_INDEX
    <2> QED
      BY <2>1, <2>2
  <1> QED
    BY <1>2, <1>3, <1>4, <1>5

LEMMA OutputType ==
  ASSUME NEW b, GcTypeOK, BlockType(b), Consistent(b)
  PROVE  OutputsAfter(b) \in [spindle : {3, 4, 5}, speed : Nat,
                              coolant : SUBSET {"flood", "mist"}]
  <1>1. b.modal["M7"] \in {3, 4, 5} /\ b.modal["M8"] \in SUBSET {"flood", "mist"}
    BY DEF BlockType, GcModals
  <1>2. gc_outputs.speed \in Nat
    BY DEF GcTypeOK
  <1> QED
    BY <1>1, <1>2, SpeedType DEF OutputsAfter

-----------------------------------------------------------------------------
(* What the execution of a block leaves behind.                             *)

StateType ==
  [modal : GcModals, feed_rate : Nat, spindle_speed : Nat, tool : Nat, line_number : Nat,
   position : GcPlaces, coord_system : GcPlaces, coord_offset : GcPlaces,
   tool_length_offset : Int]

LEMMA ExecutedType ==
  ASSUME NEW b, Ready(b), NEW p \in GcPlaces
  PROVE  Executed(b, p) \in StateType
  <1>1. b.modal \in GcModals /\ b.values["T"] \in Nat /\ b.values["N"] \in Nat
    BY DEF Ready, BlockType, Consistent, ValueLetters
  <1> QED
    BY <1>1, FeedType, SpeedType, NewTypes DEF Executed, StateType, Ready

LEMMA NextLineType ==
  ASSUME NEW s \in StateType
  PROVE  /\ NextLine(s) \in StateType
         /\ \A f \in {"feed_rate", "spindle_speed", "position", "coord_system",
                      "coord_offset", "tool_length_offset"} : NextLine(s)[f] = s[f]
         /\ \A g \in {"G1", "G3", "G12", "M7", "M8"} : NextLine(s).modal[g] = s.modal[g]
  <1> DEFINE m == [s.modal EXCEPT !["M4"] = RUNNING]
  <1>1. m \in GcModals /\ \A g \in {"G1", "G3", "G12", "M7", "M8"} : m[g] = s.modal[g]
    BY DEF StateType, GcModals
  <1>2. NextLine(s) = [s EXCEPT !.modal = m]
    BY DEF NextLine
  <1> HIDE DEF m
  <1> QED
    BY <1>1, <1>2 DEF StateType

LEMMA ProgramEndType ==
  ASSUME NEW s \in StateType, Ready(gc_block)
  PROVE  /\ ProgramEnd(s) \in StateType
         /\ ProgramEnd(s).position = s.position
         /\ ProgramEnd(s).modal["G12"] = 0 /\ ProgramEnd(s).modal["M7"] = 5
         /\ ProgramEnd(s).modal["M8"] = {}
         /\ ~gc_check => ProgramEnd(s).coord_system = NewData(gc_block)[0]
         /\ gc_check => ProgramEnd(s).coord_system = s.coord_system
         /\ \A f \in {"coord_offset", "tool_length_offset"} : ProgramEnd(s)[f] = s[f]
  <1> DEFINE m == [s.modal EXCEPT !["G1"] = 10, !["G2"] = 17, !["G3"] = 90, !["G5"] = 94,
                                  !["G12"] = 0, !["M7"] = 5, !["M8"] = {},
                                  !["M4"] = RUNNING]
  <1> DEFINE c == IF gc_check THEN s.coord_system ELSE NewData(gc_block)[0]
  <1>1. m \in GcModals /\ m["G12"] = 0 /\ m["M7"] = 5 /\ m["M8"] = {}
    <2> DEFINE n == [s.modal EXCEPT !["G1"] = 10, !["G2"] = 17, !["G3"] = 90, !["G5"] = 94]
    <2> DEFINE k == [n EXCEPT !["G12"] = 0, !["M7"] = 5, !["M8"] = {}]
    <2>1. n \in GcModals
      BY DEF StateType, GcModals
    <2>2. m = [k EXCEPT !["M4"] = RUNNING]
      OBVIOUS
    <2> HIDE DEF n, m
    <2>3. k \in GcModals /\ k["G12"] = 0 /\ k["M7"] = 5 /\ k["M8"] = {}
      BY <2>1 DEF GcModals
    <2> HIDE DEF k
    <2> QED
      BY <2>2, <2>3 DEF GcModals
  <1>2. c \in GcPlaces
    BY NewTypes DEF StateType, Records
  <1>3. ProgramEnd(s) = [s EXCEPT !.modal = m, !.coord_system = c]
    BY DEF ProgramEnd
  <1>4. (gc_check => c = s.coord_system) /\ (~gc_check => c = NewData(gc_block)[0])
    OBVIOUS
  <1> HIDE DEF m, c
  <1> QED
    BY <1>1, <1>2, <1>3, <1>4 DEF StateType

LEMMA LastTargetIs ==
  ASSUME NEW b
  PROVE  LastTarget(b) = IF GoesHome(b) THEN Home(b)
                         ELSE IF Moves(b) THEN Target(b) ELSE gc_planned
  <1>1. CASE GoesHome(b)
    <2> DEFINE h == Line(b, Home(b), TRUE)
    <2> DEFINE t == Line(b, Target(b), TRUE)
    <2>1. h.target = Home(b)
      BY DEF Line
    <2>2. Planned(b) = IF IntermediateMove(b) THEN <<t, h>> ELSE <<h>>
      BY <1>1 DEF Planned
    <2> HIDE DEF h, t
    <2>3. Planned(b) # <<>> /\ Planned(b)[Len(Planned(b))] = h
      <3>1. CASE IntermediateMove(b)
        BY <2>2, <3>1
      <3>2. CASE ~IntermediateMove(b)
        BY <2>2, <3>2
      <3> QED
        BY <3>1, <3>2
    <2> QED
      BY <1>1, <2>1, <2>3 DEF LastTarget, Last
  <1>2. CASE ~GoesHome(b) /\ Moves(b)
    <2> DEFINE t == Line(b, Target(b), b.modal["G1"] = 0)
    <2>1. t.target = Target(b)
      BY DEF Line
    <2>2. Planned(b) = <<t>>
      BY <1>2 DEF Planned, IntermediateMove
    <2> HIDE DEF t
    <2>3. Planned(b) # <<>> /\ Planned(b)[Len(Planned(b))] = t
      BY <2>2
    <2> QED
      BY <1>2, <2>1, <2>3 DEF LastTarget, Last
  <1>3. CASE ~GoesHome(b) /\ ~Moves(b)
    BY <1>3 DEF LastTarget, Planned, IntermediateMove
  <1> QED
    BY <1>1, <1>2, <1>3

HaveFeed(motions) ==
  \A i \in DOMAIN motions : motions[i].rapid \/ motions[i].feed > 0

LEMMA MoveHasFeed ==
  ASSUME NEW b, Ready(b), Moves(b), Named(b) # {}, b.modal["G1"] # 330
  PROVE  b.modal["G1"] = 0 \/ FeedRate(b) > 0
  <1>1. AxisCommand(b) = "motion"
    BY DEF Moves
  <1>2. b.modal["G1"] # 800
    BY BlockAccepted DEF Ready
  <1>3. b.modal["G1"] # 0 => FeedRate(b) # 0
    BY <1>1, <1>2, BlockAccepted DEF Ready
  <1> QED
    BY <1>3, FeedType

LEMMA PlannedHaveFeed ==
  ASSUME NEW b, Ready(b), Named(b) # {}, b.modal["G1"] # 330
  PROVE  HaveFeed(Planned(b))
  <1>1. CASE GoesHome(b)
    <2> DEFINE h == Line(b, Home(b), TRUE)
    <2> DEFINE t == Line(b, Target(b), TRUE)
    <2>1. h.rapid /\ t.rapid
      BY DEF Line
    <2>2. Planned(b) = <<t, h>> \/ Planned(b) = <<h>>
      BY <1>1 DEF Planned
    <2> HIDE DEF h, t
    <2> QED
      BY <2>1, <2>2 DEF HaveFeed
  <1>2. CASE ~GoesHome(b) /\ Moves(b)
    <2> DEFINE t == Line(b, Target(b), b.modal["G1"] = 0)
    <2>1. t.rapid \/ t.feed > 0
      BY <1>2, MoveHasFeed DEF Line
    <2>2. Planned(b) = <<t>>
      BY <1>2 DEF Planned, IntermediateMove
    <2> HIDE DEF t
    <2> QED
      BY <2>1, <2>2 DEF HaveFeed
  <1>3. CASE ~GoesHome(b) /\ ~Moves(b)
    BY <1>3 DEF Planned, IntermediateMove, HaveFeed
  <1> QED
    BY <1>1, <1>2, <1>3

\* A jog that is accepted has no command but G53, so that its axis words are for
\* its own motion.
LEMMA JogIsMotion ==
  ASSUME NEW b, Ready(b), b.jog
  PROVE  /\ b.modal["G1"] = 10
         /\ Named(b) # {} => AxisCommand(b) = "motion"
         /\ FeedRate(b) > 0 \/ Named(b) = {}
  <1>1. b.command_words \subseteq {"G0", "G3", "G6"} /\ b.non_modal \in {-1, 530}
    BY BlockAccepted DEF Ready
  <1>2. b.modal["G1"] = 10
    BY <1>1 DEF Ready, Consistent
  <1>3. b.axis_command \in {"none", "motion"}
    BY <1>1 DEF Ready, Consistent, BlockType
  <1>4. Named(b) # {} => AxisCommand(b) = "motion"
    BY <1>3 DEF AxisCommand
  <1>5. Named(b) # {} => FeedRate(b) # 0
    BY <1>2, <1>4, BlockAccepted DEF Ready
  <1> QED
    BY <1>2, <1>4, <1>5, FeedType


-----------------------------------------------------------------------------
(* The execution of a block keeps the parser in step with all the others.    *)

\* The values the properties look at, after a block that moved to p.
LEMMA LeftBehind ==
  ASSUME Ready(gc_block), NEW p \in GcPlaces,
         NEW s, s = WithFlow(gc_block, Executed(gc_block, p))
  PROVE  /\ s \in StateType /\ s.position = p
         /\ s.coord_offset = NewOffset(gc_block) /\ s.tool_length_offset = NewTlo(gc_block)
         /\ EndsProgram(gc_block) =>
              /\ s.modal["G12"] = 0 /\ s.modal["M7"] = 5 /\ s.modal["M8"] = {}
              /\ ~gc_check => s.coord_system = NewData(gc_block)[0]
              /\ gc_check => s.coord_system = NewSystem(gc_block)
         /\ ~EndsProgram(gc_block) =>
              /\ \A g \in {"G3", "G12", "M7", "M8"} : s.modal[g] = gc_block.modal[g]
              /\ s.coord_system = NewSystem(gc_block)
              /\ s.spindle_speed = SpindleSpeed(gc_block)
  <1> DEFINE e == Executed(gc_block, p)
  <1>1. e \in StateType
    BY ExecutedType
  <1>2. /\ e.modal = gc_block.modal /\ e.position = p /\ e.coord_system = NewSystem(gc_block)
        /\ e.coord_offset = NewOffset(gc_block) /\ e.tool_length_offset = NewTlo(gc_block)
        /\ e.spindle_speed = SpindleSpeed(gc_block)
    BY DEF Executed
  <1>3. s = IF EndsProgram(gc_block) THEN ProgramEnd(e) ELSE NextLine(e)
    BY DEF WithFlow
  <1> HIDE DEF e
  <1>4. CASE EndsProgram(gc_block)
    BY <1>1, <1>2, <1>3, <1>4, ProgramEndType
  <1>5. CASE ~EndsProgram(gc_block)
    BY <1>1, <1>2, <1>3, <1>5, NextLineType
  <1> QED
    BY <1>4, <1>5

\* The offsets of the system the block selects are those the EEPROM holds for it.
LEMMA SystemStored ==
  ASSUME Ready(gc_block), gc_state.coord_system = coord_data[gc_state.modal["G12"]]
  PROVE  NewSystem(gc_block) = NewData(gc_block)[gc_block.modal["G12"]]
  <1> DEFINE n == gc_block.modal["G12"]
  <1>1. /\ coord_data \in [Records -> GcPlaces \cup {BAD}]
        /\ n \in 0 .. 5
    BY DEF Ready, GcTypeOK, BlockType, GcModals
  <1>2. CASE gc_block.non_modal = 100
    <2>1. NewData(gc_block) = [coord_data EXCEPT ![G10Select(gc_block)] = CoordinateData(gc_block)]
      BY <1>2 DEF NewData
    <2>2. CASE G10Select(gc_block) = n
      BY <1>1, <1>2, <2>1, <2>2 DEF NewSystem, Records
    <2>3. CASE G10Select(gc_block) # n
      <3>1. NewData(gc_block)[n] = coord_data[n]
        BY <1>1, <2>1, <2>3 DEF Records
      <3>2. NewSystem(gc_block) = IF ChangesSystem(gc_block) THEN coord_data[n]
                                  ELSE gc_state.coord_system
        BY <1>2, <2>3 DEF NewSystem, BlockSystem
      <3>3. ~ChangesSystem(gc_block) => n = gc_state.modal["G12"]
        BY DEF Ready, Consistent, ChangesSystem
      <3> QED
        BY <3>1, <3>2, <3>3
    <2> QED
      BY <2>2, <2>3
  <1>3. CASE gc_block.non_modal # 100
    <2>1. NewData(gc_block)[n] = coord_data[n]
      BY <1>1, <1>3 DEF NewData, Records, G28_INDEX, G30_INDEX
    <2>2. NewSystem(gc_block) = IF ChangesSystem(gc_block) THEN coord_data[n]
                                ELSE gc_state.coord_system
      BY <1>3 DEF NewSystem, BlockSystem
    <2>3. ~ChangesSystem(gc_block) => n = gc_state.modal["G12"]
      BY DEF Ready, Consistent, ChangesSystem
    <2> QED
      BY <2>1, <2>2, <2>3
  <1> QED
    BY <1>2, <1>3

\* A block that flags nothing for the report changes no offset.
LEMMA UnflaggedKeepsWco ==
  ASSUME ~FlagsWco(gc_block), NEW s, s.coord_system = NewSystem(gc_block),
         s.coord_offset = NewOffset(gc_block), s.tool_length_offset = NewTlo(gc_block)
  PROVE  Wco(s) = Wco(gc_state)
  <1>1. NewTlo(gc_block) = gc_state.tool_length_offset
    BY DEF FlagsWco
  <1>2. NewSystem(gc_block) = gc_state.coord_system
    BY DEF FlagsWco, NewSystem
  <1>3. NewOffset(gc_block) = gc_state.coord_offset
    BY DEF FlagsWco, NewOffset
  <1> QED
    BY <1>1, <1>2, <1>3 DEF Wco

\* The pins after a block that goes on.
LEMMA OutputsFollow ==
  ASSUME NEW b, ~EndsProgram(b),
         gc_outputs.spindle = gc_state.modal["M7"],
         ~gc_setup.laser /\ gc_outputs.spindle # 5 => gc_outputs.speed = gc_state.spindle_speed
  PROVE  /\ OutputsAfter(b).spindle = b.modal["M7"]
         /\ OutputsAfter(b).coolant = b.modal["M8"]
         /\ ~gc_setup.laser /\ b.modal["M7"] # 5 => OutputsAfter(b).speed = SpindleSpeed(b)
  <1>1. ~gc_setup.laser => Power(b) = SpindleSpeed(b)
    BY DEF Power, LaserDisable
  <1> QED
    BY <1>1 DEF OutputsAfter

\* Where a block leads that both leaves the parser and ends in the planner.
LEMMA WhereItEnds ==
  ASSUME Ready(gc_block), NEW end \in Ends(gc_block)
  PROVE  /\ end.position \in GcPlaces /\ end.at \in GcPlaces
         /\ GoesHome(gc_block) => ~Moves(gc_block)
         /\ Moves(gc_block) /\ Probe(gc_block) /\ ~gc_check => end.position = end.at
         /\ ~(Moves(gc_block) /\ Probe(gc_block)) =>
              end.position = IF GoesHome(gc_block) THEN Home(gc_block)
                             ELSE IF Moves(gc_block) THEN Target(gc_block)
                             ELSE gc_state.position
  <1>1. GoesHome(gc_block) => ~Moves(gc_block)
    BY DEF Ready, Consistent, GoesHome, Moves, AxisCommand
  <1>2. Target(gc_block) \in GcPlaces /\ (GoesHome(gc_block) => Home(gc_block) \in GcPlaces)
    BY TargetType, HomeType
  <1>3. gc_state.position \in GcPlaces /\ gc_machine \in GcPlaces
    BY DEF Ready, GcTypeOK
  <1>4. CASE GoesHome(gc_block)
    BY <1>1, <1>2, <1>3, <1>4 DEF Ends
  <1>5. CASE ~GoesHome(gc_block) /\ Moves(gc_block) /\ Probe(gc_block)
    <2>1. Ends(gc_block) = ProbeEnds(gc_block)
      BY <1>5 DEF Ends
    <2>2. CASE gc_check
      BY <1>2, <1>3, <1>5, <2>1, <2>2 DEF ProbeEnds
    <2>3. CASE ~gc_check
      <3>1. PICK p \in {gc_state.position, Target(gc_block)} :
              end = [position |-> p, at |-> p]
        BY <2>1, <2>3 DEF ProbeEnds
      <3> QED
        BY <1>2, <1>3, <1>5, <3>1
    <2> QED
      BY <2>2, <2>3
  <1>6. CASE ~GoesHome(gc_block) /\ ~(Moves(gc_block) /\ Probe(gc_block))
    BY <1>2, <1>3, <1>6 DEF Ends
  <1> QED
    BY <1>4, <1>5, <1>6

-----------------------------------------------------------------------------
(* Every action keeps the invariant.                                         *)

\* A block that is being parsed is of the right kind.
LEMMA BlockNow ==
  ASSUME GcInv, gc_phase = "parsing"
  PROVE  /\ BlockType(gc_block) /\ Consistent(gc_block)
         /\ gc_status = "parsing" /\ gc_motions = <<>> /\ ~gc_aborted
         /\ gc_block.jog => ~gc_check
  BY DEF GcInv, GcTypeOK, BlockInv, BlockConsistent, BlockType, Consistent

LEMMA NowReady ==
  ASSUME GcInv, gc_phase = "parsing", BlockStatus(gc_block) = "OK"
  PROVE  Ready(gc_block)
  BY BlockNow DEF GcInv, Ready

\* The words of a line have the numbers that GcAssumption says.
LEMMA WordsOfSetup ==
  ASSUME GcTypeOK, NEW w \in gc_setup.words PROVE IsWord(w)
  BY GcAssumption DEF GcTypeOK, IsWord

LEMMA StartLineKeeps ==
  ASSUME GcInv, NEW jog \in BOOLEAN, StartLine(jog) PROVE GcInv'
  <1>1. gc_state.modal \in GcModals
    BY DEF GcInv, GcTypeOK
  <1>2. [gc_state.modal EXCEPT !["G1"] = 10, !["G5"] = 94] \in GcModals
    BY <1>1 DEF GcModals
  <1> DEFINE m == IF jog THEN [gc_state.modal EXCEPT !["G1"] = 10, !["G5"] = 94]
                  ELSE gc_state.modal
  <1>3. /\ m \in GcModals /\ m["G12"] = gc_state.modal["G12"]
        /\ jog => m["G1"] = 10
    BY <1>1, <1>2 DEF GcModals
  <1>4. gc_block' = [jog |-> jog, modal |-> m, non_modal |-> -1, axis_command |-> "none",
                     command_words |-> {}, value_words |-> {},
                     values |-> [l \in ValueLetters |-> 0], words |-> {}]
    BY DEF StartLine, NewBlock
  <1> HIDE DEF m
  <1>5. BlockType(gc_block')
    BY <1>3, <1>4 DEF BlockType
  <1>6. Consistent(gc_block')
    BY <1>3, <1>4 DEF Consistent, ValueLetters
  <1>7. GcTypeOK'
    BY <1>5 DEF StartLine, GcInv, GcTypeOK, BlockType
  <1>8. BlockInv'
    BY <1>4, <1>6 DEF StartLine, BlockInv, BlockConsistent, Consistent
  <1>9. /\ ParserFollowsPlanner' /\ ActiveSystemIsStored' /\ OutputsFollowModes'
        /\ OffsetsReported'
    BY DEF StartLine, GcInv, ParserFollowsPlanner, ActiveSystemIsStored,
           OutputsFollowModes, OffsetsReported, GcReal
  <1>10. FeedMotionsHaveFeed'
    BY DEF StartLine, FeedMotionsHaveFeed
  <1> QED
    BY <1>7, <1>8, <1>9, <1>10 DEF GcInv

LEMMA ParseWordKeeps ==
  ASSUME GcInv, NEW w \in gc_setup.words, ParseWord(w) PROVE GcInv'
  <1>1. /\ gc_phase = "parsing" /\ BlockType(gc_block) /\ Consistent(gc_block)
        /\ gc_status = "parsing" /\ gc_motions = <<>> /\ ~gc_aborted
        /\ gc_block.jog => ~gc_check
    BY BlockNow DEF ParseWord
  <1>2. /\ UNCHANGED <<gc_state, gc_aborted, gc_planned, gc_machine, gc_outputs, gc_wco,
                       gc_motions, coord_data, gc_setup, gc_check, gc_reported>>
    BY DEF ParseWord, Unexecuted, Returns
  <1>3. /\ ParserFollowsPlanner' /\ ActiveSystemIsStored' /\ OutputsFollowModes'
        /\ OffsetsReported' /\ FeedMotionsHaveFeed'
    BY <1>1, <1>2 DEF GcInv, ParserFollowsPlanner, ActiveSystemIsStored,
           OutputsFollowModes, OffsetsReported, GcReal, FeedMotionsHaveFeed
  <1>4. CASE WordStatus(gc_block, w) = "OK"
    <2> DEFINE c == [WithWord(gc_block, w) EXCEPT !.words = @ \cup {w}]
    <2>1. gc_block' = c /\ UNCHANGED <<gc_phase, gc_status>>
      BY <1>4 DEF ParseWord
    <2>2. BlockType(c) /\ Consistent(c)
      <3>1. IsWord(w)
        BY WordsOfSetup DEF GcInv
      <3> QED
        BY <1>1, <1>4, <3>1, WordKeepsBlock
    <2>3. c.jog = gc_block.jog
      BY <1>1 DEF WithWord, WithCommand, WithValue, BlockType
    <2> HIDE DEF c
    <2>4. GcTypeOK'
      BY <1>2, <2>1, <2>2 DEF GcInv, GcTypeOK, BlockType
    <2>5. BlockInv'
      BY <1>1, <1>2, <2>1, <2>2, <2>3 DEF BlockInv, BlockConsistent, Consistent
    <2> QED
      BY <1>3, <2>4, <2>5 DEF GcInv
  <1>5. CASE WordStatus(gc_block, w) # "OK"
    <2>1. gc_phase' = "idle" /\ gc_block' = gc_block
      BY <1>5 DEF ParseWord, Returns
    <2>2. GcTypeOK'
      BY <1>2, <2>1 DEF GcInv, GcTypeOK
    <2> QED
      BY <1>3, <2>1, <2>2 DEF GcInv, BlockInv
  <1> QED
    BY <1>4, <1>5

\* The record that is written with zeros is not the one of the active system,
\* which could be read.
LEMMA RejectKeeps ==
  ASSUME GcInv, Reject PROVE GcInv'
  <1>1. /\ gc_phase = "parsing" /\ gc_phase' = "idle"
        /\ UNCHANGED <<gc_state, gc_aborted, gc_planned, gc_machine, gc_outputs, gc_wco,
                       gc_motions, gc_block, gc_setup, gc_check, gc_reported>>
    BY DEF Reject, Returns, Unexecuted
  <1>2. coord_data \in [Records -> GcPlaces \cup {BAD}] /\ coord_data[0] # BAD
    BY DEF GcInv, GcTypeOK
  <1>3. coord_data' \in [Records -> GcPlaces \cup {BAD}] /\ coord_data'[0] # BAD
        /\ \A i \in Records : coord_data[i] # BAD => coord_data'[i] = coord_data[i]
    <2>1. \/ coord_data' = coord_data
          \/ coord_data' = [coord_data EXCEPT ![BadRecord(gc_block)]
                              = Loaded(coord_data, BadRecord(gc_block))]
      BY DEF Reject, Repaired
    <2> DEFINE r == BadRecord(gc_block)
               l == Loaded(coord_data, r)
    <2>2. r \in Records => l \in GcPlaces /\ (coord_data[r] # BAD => l = coord_data[r])
      BY <1>2, ZeroIsPlace DEF Loaded
    <2>3. 0 \in Records
      BY DEF Records
    <2> HIDE DEF r, l
    <2>4. \/ coord_data' = coord_data
          \/ coord_data' = [coord_data EXCEPT ![r] = l]
      BY <2>1 DEF r, l
    <2> QED
      BY <1>2, <2>2, <2>3, <2>4, PlaceIsRead
  <1>4. GcTypeOK'
    BY <1>1, <1>3 DEF GcInv, GcTypeOK
  <1>5. ActiveSystemIsStored'
    <2>1. gc_state.modal["G12"] \in Records /\ gc_state.coord_system \in GcPlaces
      BY DEF GcInv, GcTypeOK, GcModals, Records
    <2> QED
      BY <1>1, <1>3, <2>1, PlaceIsRead DEF GcInv, ActiveSystemIsStored, GcReal
  <1>6. ParserFollowsPlanner' /\ OutputsFollowModes' /\ OffsetsReported' /\ FeedMotionsHaveFeed'
    BY <1>1 DEF GcInv, ParserFollowsPlanner, OutputsFollowModes, OffsetsReported, GcReal,
           FeedMotionsHaveFeed
  <1> QED
    BY <1>1, <1>4, <1>5, <1>6 DEF GcInv, BlockInv

LEMMA ExecuteJogKeeps ==
  ASSUME GcInv, ExecuteJog PROVE GcInv'
  <1>1. Ready(gc_block) /\ gc_block.jog /\ ~gc_aborted /\ ~gc_check
    BY BlockNow, NowReady DEF ExecuteJog
  <1>2. /\ gc_phase' = "idle"
        /\ UNCHANGED <<gc_block, gc_setup, gc_check, gc_reported, coord_data>>
    BY DEF ExecuteJog, Returns
  <1>3. CASE Unexecuted
    <2>1. GcTypeOK'
      BY <1>2, <1>3 DEF GcInv, GcTypeOK, Unexecuted
    <2>2. /\ ParserFollowsPlanner' /\ ActiveSystemIsStored' /\ OutputsFollowModes'
          /\ OffsetsReported' /\ FeedMotionsHaveFeed'
      BY <1>2, <1>3 DEF GcInv, ParserFollowsPlanner, ActiveSystemIsStored, Unexecuted,
             OutputsFollowModes, OffsetsReported, GcReal, FeedMotionsHaveFeed
    <2> QED
      BY <1>2, <2>1, <2>2 DEF GcInv, BlockInv
  <1>4. CASE ~Unexecuted
    <2> DEFINE t == Target(gc_block)
    <2>1. /\ gc_state' = [gc_state EXCEPT !.position = t] /\ gc_planned' = t
          /\ gc_motions' = <<Line(gc_block, t, FALSE)>>
          /\ UNCHANGED <<gc_aborted, gc_machine, gc_outputs, gc_wco>>
      BY <1>4 DEF ExecuteJog
    <2>2. t \in GcPlaces
      BY <1>1, TargetType
    <2> HIDE DEF t
    <2>3. gc_state' \in StateType /\ gc_state'.position = t
          /\ gc_state'.modal = gc_state.modal /\ gc_state'.spindle_speed = gc_state.spindle_speed
          /\ gc_state'.coord_system = gc_state.coord_system
          /\ Wco(gc_state') = Wco(gc_state)
      BY <2>1, <2>2 DEF GcInv, GcTypeOK, StateType, Wco
    <2>4. GcTypeOK'
      BY <1>2, <2>1, <2>2, <2>3 DEF GcInv, GcTypeOK, StateType
    <2>5. ParserFollowsPlanner' /\ ActiveSystemIsStored'
      BY <1>2, <2>1, <2>3 DEF GcInv, ParserFollowsPlanner, ActiveSystemIsStored, GcReal
    <2>6. OutputsFollowModes' /\ OffsetsReported'
      BY <1>2, <2>1, <2>3 DEF GcInv, OutputsFollowModes, OffsetsReported, GcReal
    <2>7. FeedMotionsHaveFeed'
      <3>1. Named(gc_block) # {} => FeedRate(gc_block) > 0 /\ gc_block.modal["G1"] = 10
        BY <1>1, JogIsMotion
      <3>2. Named(gc_block) # {} => Line(gc_block, t, FALSE).feed > 0
        BY <3>1 DEF Line
      <3> DEFINE l == Line(gc_block, t, FALSE)
      <3>3. gc_motions' = <<l>>
        BY <2>1
      <3> HIDE DEF l
      <3>4. \A i \in DOMAIN gc_motions' : gc_motions'[i] = l
        BY <3>3
      <3>5. Named(gc_block)' = Named(gc_block)
        BY <1>2 DEF Named
      <3> QED
        BY <1>2, <3>2, <3>4, <3>5 DEF FeedMotionsHaveFeed, l
    <2> QED
      BY <1>2, <2>4, <2>5, <2>6, <2>7 DEF GcInv, BlockInv
  <1> QED
    BY <1>3, <1>4

LEMMA ExecuteKeeps ==
  ASSUME GcInv, Execute PROVE GcInv'
  <1>1. Ready(gc_block) /\ ~gc_aborted /\ gc_motions = <<>>
    BY BlockNow, NowReady DEF Execute, Accepted
  <1>2. /\ gc_phase' = "idle"
        /\ UNCHANGED <<gc_block, gc_setup, gc_check, gc_reported, gc_aborted>>
        /\ coord_data' = NewData(gc_block)
        /\ gc_outputs' = IF gc_check THEN gc_outputs ELSE OutputsAfter(gc_block)
        /\ gc_motions' = IF gc_check THEN <<>> ELSE Planned(gc_block)
        /\ gc_wco' = (gc_wco \/ FlagsWco(gc_block) \/ (EndsProgram(gc_block) /\ ~gc_check))
    BY DEF Execute, Returns
  <1>3. PICK end \in Ends(gc_block) :
          /\ gc_state' = WithFlow(gc_block, Executed(gc_block, end.position))
          /\ gc_machine' = end.at
          /\ gc_planned' = IF gc_check THEN gc_planned
                           ELSE IF Moves(gc_block) /\ Probe(gc_block) THEN end.at
                           ELSE LastTarget(gc_block)
    BY DEF Execute
  <1> DEFINE p == end.position
  <1>4. p \in GcPlaces /\ end.at \in GcPlaces
    BY <1>1, WhereItEnds
  <1> HIDE DEF p
  <1>5. gc_state' = WithFlow(gc_block, Executed(gc_block, p))
    BY <1>3 DEF p
  <1>6. /\ gc_state' \in StateType /\ gc_state'.position = p
        /\ gc_state'.coord_offset = NewOffset(gc_block)
        /\ gc_state'.tool_length_offset = NewTlo(gc_block)
    BY <1>1, <1>4, <1>5, LeftBehind
  <1>7. EndsProgram(gc_block) =>
          /\ gc_state'.modal["G12"] = 0 /\ gc_state'.modal["M7"] = 5
          /\ gc_state'.modal["M8"] = {}
          /\ ~gc_check => gc_state'.coord_system = NewData(gc_block)[0]
          /\ gc_check => gc_state'.coord_system = NewSystem(gc_block)
    BY <1>1, <1>4, <1>5, LeftBehind
  <1>8. ~EndsProgram(gc_block) =>
          /\ \A g \in {"G3", "G12", "M7", "M8"} : gc_state'.modal[g] = gc_block.modal[g]
          /\ gc_state'.coord_system = NewSystem(gc_block)
          /\ gc_state'.spindle_speed = SpindleSpeed(gc_block)
    BY <1>1, <1>4, <1>5, LeftBehind
  <1>9. ~gc_check => gc_planned' = p
    <2>1. CASE Moves(gc_block) /\ Probe(gc_block)
      BY <1>1, <1>3, <2>1, WhereItEnds DEF p
    <2>2. CASE ~(Moves(gc_block) /\ Probe(gc_block))
      <3>1. p = IF GoesHome(gc_block) THEN Home(gc_block)
                ELSE IF Moves(gc_block) THEN Target(gc_block) ELSE gc_state.position
        BY <1>1, <2>2, WhereItEnds DEF p
      <3>2. LastTarget(gc_block) = IF GoesHome(gc_block) THEN Home(gc_block)
                                   ELSE IF Moves(gc_block) THEN Target(gc_block)
                                   ELSE gc_planned
        BY LastTargetIs
      <3>3. ~gc_check => gc_state.position = gc_planned
        BY <1>1 DEF GcInv, ParserFollowsPlanner, GcReal
      <3> QED
        BY <1>3, <2>2, <3>1, <3>2, <3>3
    <2> QED
      BY <2>1, <2>2
  <1>10. GcTypeOK'
    <2>1. gc_machine' \in GcPlaces /\ gc_planned' \in GcPlaces
      BY <1>3, <1>4, <1>9 DEF GcInv, GcTypeOK
    <2>2. coord_data' \in [Records -> GcPlaces \cup {BAD}] /\ coord_data'[0] # BAD
      BY <1>1, <1>2, NewTypes
    <2>3. gc_outputs' \in [spindle : {3, 4, 5}, speed : Nat, coolant : SUBSET {"flood", "mist"}]
      BY <1>1, <1>2, OutputType DEF Ready, GcTypeOK
    <2>4. gc_wco' \in BOOLEAN
      BY <1>2
    <2> QED
      BY <1>2, <1>6, <2>1, <2>2, <2>3, <2>4 DEF GcInv, GcTypeOK, StateType
  <1>11. ParserFollowsPlanner'
    BY <1>2, <1>6, <1>9 DEF ParserFollowsPlanner, GcReal
  <1>12. ActiveSystemIsStored'
    <2>1. ~gc_check => gc_state.coord_system = coord_data[gc_state.modal["G12"]]
      BY <1>1 DEF GcInv, ActiveSystemIsStored, GcReal
    <2>2. ~gc_check => NewSystem(gc_block) = NewData(gc_block)[gc_block.modal["G12"]]
      BY <1>1, <2>1, SystemStored
    <2> QED
      BY <1>2, <1>7, <1>8, <2>2 DEF ActiveSystemIsStored, GcReal
  <1>13. OutputsFollowModes'
    <2>1. CASE gc_check
      BY <1>2, <2>1 DEF OutputsFollowModes, GcReal
    <2>2. CASE ~gc_check /\ EndsProgram(gc_block)
      <3>1. gc_outputs' = [spindle |-> 5, speed |-> 0, coolant |-> {}]
        BY <1>2, <2>2 DEF OutputsAfter
      <3> QED
        BY <1>2, <1>7, <2>2, <3>1 DEF OutputsFollowModes
    <2>3. CASE ~gc_check /\ ~EndsProgram(gc_block)
      <3>1. /\ gc_outputs.spindle = gc_state.modal["M7"]
            /\ ~gc_setup.laser /\ gc_outputs.spindle # 5
                 => gc_outputs.speed = gc_state.spindle_speed
        BY <1>1, <2>3 DEF GcInv, OutputsFollowModes, GcReal
      <3>2. /\ OutputsAfter(gc_block).spindle = gc_block.modal["M7"]
            /\ OutputsAfter(gc_block).coolant = gc_block.modal["M8"]
            /\ ~gc_setup.laser /\ gc_block.modal["M7"] # 5
                 => OutputsAfter(gc_block).speed = SpindleSpeed(gc_block)
        BY <2>3, <3>1, OutputsFollow
      <3> QED
        BY <1>2, <1>8, <2>3, <3>2 DEF OutputsFollowModes
    <2> QED
      BY <2>1, <2>2, <2>3
  <1>14. OffsetsReported'
    <2>1. CASE gc_wco'
      BY <2>1 DEF OffsetsReported
    <2>2. CASE ~gc_wco'
      <3>1. ~gc_wco /\ ~FlagsWco(gc_block) /\ ~(EndsProgram(gc_block) /\ ~gc_check)
        BY <1>2, <2>2
      <3>2. gc_state'.coord_system = NewSystem(gc_block)
        BY <1>7, <1>8, <3>1
      <3>3. Wco(gc_state') = Wco(gc_state)
        BY <1>6, <3>1, <3>2, UnflaggedKeepsWco
      <3>4. gc_reported = Wco(gc_state)
        BY <3>1 DEF GcInv, OffsetsReported
      <3> QED
        BY <1>2, <3>3, <3>4 DEF OffsetsReported
    <2> QED
      BY <2>1, <2>2
  <1>15. FeedMotionsHaveFeed'
    <2>1. Named(gc_block) # {} /\ gc_block.modal["G1"] # 330 => HaveFeed(Planned(gc_block))
      BY <1>1, PlannedHaveFeed
    <2>2. Named(gc_block)' = Named(gc_block)
      BY <1>2 DEF Named
    <2>3. HaveFeed(<<>>)
      BY DEF HaveFeed
    <2>4. Named(gc_block) # {} /\ gc_block.modal["G1"] # 330 => HaveFeed(gc_motions')
      BY <1>2, <2>1, <2>3
    <2> QED
      BY <1>2, <2>2, <2>4 DEF FeedMotionsHaveFeed, HaveFeed
  <1> QED
    BY <1>2, <1>10, <1>11, <1>12, <1>13, <1>14, <1>15 DEF GcInv, BlockInv

\* A reset leaves only the types: the rest holds again after the restart.
LEMMA AbortKeeps ==
  ASSUME GcInv, Abort PROVE GcInv'
  <1>1. Ready(gc_block) /\ gc_motions = <<>>
    BY BlockNow, NowReady DEF Abort, Accepted
  <1>2. /\ gc_phase' = "idle" /\ gc_aborted' = TRUE /\ gc_wco' = TRUE
        /\ UNCHANGED <<gc_block, gc_setup, gc_check, gc_reported, gc_planned, gc_machine,
                       gc_outputs, gc_motions>>
        /\ coord_data' = NewData(gc_block)
    BY DEF Abort, Returns
  <1> DEFINE p == IF GoesHome(gc_block) THEN Home(gc_block)
                  ELSE IF Moves(gc_block) THEN Target(gc_block)
                  ELSE gc_state.position
  <1>3. p \in GcPlaces
    BY <1>1, TargetType, HomeType DEF Ready, GcTypeOK
  <1>4. gc_state' = WithFlow(gc_block, Executed(gc_block, p))
    BY DEF Abort
  <1> HIDE DEF p
  <1>5. gc_state' \in StateType
    BY <1>1, <1>3, <1>4, LeftBehind
  <1>6. coord_data' \in [Records -> GcPlaces \cup {BAD}] /\ coord_data'[0] # BAD
    BY <1>1, <1>2, NewTypes
  <1>7. GcTypeOK'
    BY <1>2, <1>5, <1>6 DEF GcInv, GcTypeOK, StateType
  <1>8. /\ ParserFollowsPlanner' /\ ActiveSystemIsStored' /\ OutputsFollowModes'
        /\ OffsetsReported' /\ FeedMotionsHaveFeed'
    BY <1>1, <1>2 DEF ParserFollowsPlanner, ActiveSystemIsStored, OutputsFollowModes,
           OffsetsReported, GcReal, FeedMotionsHaveFeed
  <1> QED
    BY <1>2, <1>7, <1>8 DEF GcInv, BlockInv

LEMMA PulseTimeoutKeeps ==
  ASSUME GcInv, PulseTimeout PROVE GcInv'
  <1>1. /\ Ready(gc_block) /\ ~gc_aborted /\ gc_motions = <<>>
        /\ BlockType(gc_block) /\ Consistent(gc_block) /\ GcTypeOK
    BY BlockNow, NowReady DEF PulseTimeout, Accepted, Ready
  <1> DEFINE q == [gc_block EXCEPT !.modal["M4"] = RUNNING]
  <1>2. /\ gc_phase' = "idle"
        /\ UNCHANGED <<gc_block, gc_setup, gc_check, gc_reported, gc_aborted, gc_planned,
                       gc_machine, gc_motions>>
        /\ coord_data' = NewData(gc_block)
        /\ gc_outputs' = IF gc_check THEN gc_outputs ELSE OutputsAfter(q)
        /\ gc_wco' = (gc_wco \/ FlagsWco(gc_block))
    BY DEF PulseTimeout, Returns
  <1>3. BlockType(q) /\ Consistent(q) /\ ~EndsProgram(q)
        /\ q.modal["M7"] = gc_block.modal["M7"] /\ q.modal["M8"] = gc_block.modal["M8"]
        /\ q.values = gc_block.values /\ q.value_words = gc_block.value_words
    <2> DEFINE m == [gc_block.modal EXCEPT !["M4"] = RUNNING]
    <2>1. /\ m \in GcModals /\ m["M4"] = RUNNING
          /\ \A g \in {"G1", "G12", "M7", "M8"} : m[g] = gc_block.modal[g]
      <3>1. gc_block.modal \in GcModals
        BY <1>1 DEF BlockType
      <3> HIDE DEF q
      <3> QED
        BY <3>1 DEF GcModals
    <2>2. q = [gc_block EXCEPT !.modal = m]
      BY <1>1 DEF BlockType
    <2> HIDE DEF m, q
    <2>3. /\ BlockType(q) /\ q.modal = m
          /\ \A f \in {"jog", "non_modal", "axis_command", "command_words", "value_words",
                       "values"} : q[f] = gc_block[f]
      BY <1>1, <2>1, <2>2 DEF BlockType
    <2>4. Consistent(q)
      BY <1>1, <2>1, <2>3 DEF Consistent
    <2>5. ~EndsProgram(q)
      BY <2>1, <2>3 DEF EndsProgram, RUNNING
    <2> QED
      BY <2>1, <2>3, <2>4, <2>5
  <1> HIDE DEF q
  <1> DEFINE p == gc_state.position
             e == Executed(gc_block, p)
  <1>4. p \in GcPlaces
    BY <1>1 DEF GcTypeOK
  <1>5. gc_state' = NextLine(e)
    BY DEF PulseTimeout
  <1>6. e \in StateType
    BY <1>1, <1>4, ExecutedType
  <1>7. /\ e.modal = gc_block.modal /\ e.position = p /\ e.coord_system = NewSystem(gc_block)
        /\ e.coord_offset = NewOffset(gc_block) /\ e.tool_length_offset = NewTlo(gc_block)
        /\ e.spindle_speed = SpindleSpeed(gc_block)
    BY DEF Executed
  <1> HIDE DEF e
  <1>8. /\ gc_state' \in StateType
        /\ \A f \in {"spindle_speed", "position", "coord_system", "coord_offset",
                     "tool_length_offset"} : gc_state'[f] = e[f]
        /\ \A g \in {"G12", "M7", "M8"} : gc_state'.modal[g] = e.modal[g]
    BY <1>5, <1>6, NextLineType
  <1>9. coord_data' \in [Records -> GcPlaces \cup {BAD}] /\ coord_data'[0] # BAD
    BY <1>1, <1>2, NewTypes
  <1>10. gc_outputs' \in [spindle : {3, 4, 5}, speed : Nat, coolant : SUBSET {"flood", "mist"}]
    BY <1>1, <1>2, <1>3, OutputType DEF GcTypeOK
  <1>11. GcTypeOK'
    BY <1>1, <1>2, <1>8, <1>9, <1>10 DEF GcTypeOK, StateType
  <1>12. ParserFollowsPlanner'
    BY <1>2, <1>7, <1>8 DEF GcInv, ParserFollowsPlanner, GcReal
  <1>13. ActiveSystemIsStored'
    <2>1. ~gc_check => gc_state.coord_system = coord_data[gc_state.modal["G12"]]
      BY <1>1 DEF GcInv, ActiveSystemIsStored, GcReal
    <2>2. ~gc_check => NewSystem(gc_block) = NewData(gc_block)[gc_block.modal["G12"]]
      BY <1>1, <2>1, SystemStored
    <2> QED
      BY <1>2, <1>7, <1>8, <2>2 DEF ActiveSystemIsStored, GcReal
  <1>14. OutputsFollowModes'
    <2>1. CASE gc_check
      BY <1>2, <2>1 DEF OutputsFollowModes, GcReal
    <2>2. CASE ~gc_check
      <3>1. /\ gc_outputs.spindle = gc_state.modal["M7"]
            /\ ~gc_setup.laser /\ gc_outputs.spindle # 5
                 => gc_outputs.speed = gc_state.spindle_speed
        BY <1>1, <2>2 DEF GcInv, OutputsFollowModes, GcReal
      <3>2. /\ OutputsAfter(q).spindle = q.modal["M7"]
            /\ OutputsAfter(q).coolant = q.modal["M8"]
            /\ ~gc_setup.laser /\ q.modal["M7"] # 5 => OutputsAfter(q).speed = SpindleSpeed(q)
        BY <1>3, <3>1, OutputsFollow
      <3>3. SpindleSpeed(q) = SpindleSpeed(gc_block)
        BY <1>3 DEF SpindleSpeed
      <3> QED
        BY <1>2, <1>3, <1>7, <1>8, <2>2, <3>2, <3>3 DEF OutputsFollowModes
    <2> QED
      BY <2>1, <2>2
  <1>15. OffsetsReported'
    <2>1. CASE gc_wco'
      BY <2>1 DEF OffsetsReported
    <2>2. CASE ~gc_wco'
      <3>1. ~gc_wco /\ ~FlagsWco(gc_block)
        BY <1>2, <2>2
      <3>2. Wco(gc_state') = Wco(gc_state)
        BY <1>7, <1>8, <3>1, UnflaggedKeepsWco
      <3>3. gc_reported = Wco(gc_state)
        BY <3>1 DEF GcInv, OffsetsReported
      <3> QED
        BY <1>2, <3>2, <3>3 DEF OffsetsReported
    <2> QED
      BY <2>1, <2>2
  <1>16. FeedMotionsHaveFeed'
    BY <1>1, <1>2 DEF FeedMotionsHaveFeed
  <1> QED
    BY <1>2, <1>11, <1>12, <1>13, <1>14, <1>15, <1>16 DEF GcInv, BlockInv

LEMMA BetweenLinesKeeps ==
  ASSUME GcInv, GcMotionsEnd \/ GcJogCancelled \/ GcCheckMode \/ GcReport PROVE GcInv'
  <1>1. CASE GcMotionsEnd
    <2>1. GcTypeOK'
      BY <1>1 DEF GcMotionsEnd, GcInv, GcTypeOK
    <2> QED
      BY <1>1, <2>1 DEF GcMotionsEnd, GcInv, BlockInv, ParserFollowsPlanner,
             ActiveSystemIsStored, OutputsFollowModes, OffsetsReported, GcReal,
             FeedMotionsHaveFeed, Named
  <1>2. CASE GcJogCancelled
    <2> DEFINE p == gc_machine
    <2>1. gc_state \in StateType /\ p \in GcPlaces
      BY DEF GcInv, GcTypeOK, StateType
    <2>2. /\ gc_state' = [gc_state EXCEPT !.position = p] /\ gc_planned' = p
          /\ gc_phase' = "idle"
          /\ UNCHANGED <<gc_setup, gc_block, gc_status, gc_check, gc_aborted, coord_data,
                         gc_machine, gc_outputs, gc_wco, gc_reported, gc_motions>>
      BY <1>2 DEF GcJogCancelled
    <2>3. /\ gc_state' \in StateType /\ gc_state'.position = p
          /\ gc_state'.modal = gc_state.modal
          /\ gc_state'.coord_system = gc_state.coord_system
          /\ gc_state'.spindle_speed = gc_state.spindle_speed
          /\ Wco(gc_state') = Wco(gc_state)
      BY <2>1, <2>2 DEF StateType, Wco
    <2>4. GcTypeOK'
      BY <2>1, <2>2, <2>3 DEF GcInv, GcTypeOK, StateType
    <2>5. ParserFollowsPlanner' /\ ActiveSystemIsStored' /\ OutputsFollowModes'
          /\ OffsetsReported'
      BY <2>2, <2>3 DEF GcInv, ParserFollowsPlanner, ActiveSystemIsStored,
             OutputsFollowModes, OffsetsReported, GcReal
    <2>6. FeedMotionsHaveFeed'
      BY <2>2 DEF GcInv, FeedMotionsHaveFeed, Named
    <2> QED
      BY <2>2, <2>4, <2>5, <2>6 DEF GcInv, BlockInv
  <1>3. CASE GcCheckMode
    <2>1. GcTypeOK'
      BY <1>3 DEF GcCheckMode, GcInv, GcTypeOK
    <2>2. gc_phase' = "idle" /\ (gc_check' \/ gc_aborted')
      BY <1>3 DEF GcCheckMode
    <2>3. ParserFollowsPlanner' /\ ActiveSystemIsStored' /\ OutputsFollowModes'
      BY <2>2 DEF ParserFollowsPlanner, ActiveSystemIsStored, OutputsFollowModes, GcReal
    <2>4. OffsetsReported' /\ FeedMotionsHaveFeed'
      BY <1>3 DEF GcCheckMode, GcInv, OffsetsReported, FeedMotionsHaveFeed, Named
    <2> QED
      BY <2>1, <2>2, <2>3, <2>4 DEF GcInv, BlockInv
  <1>4. CASE GcReport
    <2>1. Wco(gc_state) \in GcPlaces
      BY DEF GcInv, GcTypeOK, Wco, GcPlaces
    <2>2. GcTypeOK'
      BY <1>4, <2>1 DEF GcReport, GcInv, GcTypeOK
    <2>3. OffsetsReported'
      BY <1>4 DEF GcReport, OffsetsReported
    <2>4. ParserFollowsPlanner' /\ ActiveSystemIsStored' /\ OutputsFollowModes'
      BY <1>4 DEF GcReport, GcInv, ParserFollowsPlanner, ActiveSystemIsStored,
             OutputsFollowModes, GcReal
    <2>5. FeedMotionsHaveFeed' /\ gc_phase' = "idle"
      BY <1>4 DEF GcReport, GcInv, FeedMotionsHaveFeed, Named
    <2> QED
      BY <2>2, <2>3, <2>4, <2>5 DEF GcInv, BlockInv
  <1> QED
    BY <1>1, <1>2, <1>3, <1>4

\* A restart finds the parser as gc_init() leaves it: at the machine's position,
\* with the offsets of G54 and everything off.
Fresh(c, p) == [ParserInit EXCEPT !.coord_system = c, !.position = p]

LEMMA AsInitialised ==
  ASSUME NEW c \in GcPlaces, NEW p \in GcPlaces
  PROVE  /\ Fresh(c, p) \in StateType
         /\ Fresh(c, p).position = p /\ Fresh(c, p).coord_system = c
         /\ Fresh(c, p).modal["G12"] = 0 /\ Fresh(c, p).modal["M7"] = 5
         /\ Fresh(c, p).modal["M8"] = {}
         /\ p = Zero => Fresh(c, p) = [ParserInit EXCEPT !.coord_system = c]
  <1>1. ParserInit.modal \in GcModals
    BY DEF ParserInit, GcModals, RUNNING
  <1>2. ParserInit \in StateType
    BY <1>1, ZeroIsPlace DEF ParserInit, StateType
  <1>3. /\ ParserInit.modal["G12"] = 0 /\ ParserInit.modal["M7"] = 5
        /\ ParserInit.modal["M8"] = {} /\ ParserInit.position = Zero
    BY DEF ParserInit
  <1> QED
    BY <1>2, <1>3 DEF StateType, Fresh

LEMMA GcRestartKeeps ==
  ASSUME GcInv, GcRestart PROVE GcInv'
  <1>1. PICK p \in {gc_machine, gc_planned} :
          /\ gc_machine' = p /\ gc_planned' = p
          /\ gc_state' = Fresh(Loaded(coord_data, 0), p)
    BY DEF GcRestart, Fresh
  <1>2. coord_data \in [Records -> GcPlaces \cup {BAD}] /\ coord_data[0] # BAD
        /\ gc_machine \in GcPlaces /\ gc_planned \in GcPlaces
    BY DEF GcInv, GcTypeOK
  <1>3. coord_data[0] \in GcPlaces
    BY <1>2 DEF Records
  <1>4. Loaded(coord_data, 0) = coord_data[0]
    BY <1>2 DEF Loaded
  <1>5. coord_data' = coord_data
    BY <1>2, <1>4 DEF GcRestart, Repaired, Records
  <1>6. p \in GcPlaces
    BY <1>2
  <1>7. /\ gc_state' \in StateType /\ gc_state'.position = p
        /\ gc_state'.coord_system = coord_data[0]
        /\ gc_state'.modal["G12"] = 0 /\ gc_state'.modal["M7"] = 5
        /\ gc_state'.modal["M8"] = {}
    BY <1>1, <1>3, <1>4, <1>6, AsInitialised
  <1>8. /\ gc_phase' = "idle" /\ gc_wco' = TRUE /\ gc_motions' = <<>>
        /\ gc_aborted' = FALSE /\ gc_check' = FALSE
        /\ gc_outputs' = [spindle |-> 5, speed |-> 0, coolant |-> {}]
        /\ UNCHANGED <<gc_setup, gc_block, gc_reported>>
    BY DEF GcRestart
  <1>9. GcTypeOK'
    BY <1>1, <1>5, <1>6, <1>7, <1>8 DEF GcInv, GcTypeOK, StateType
  <1>10. ParserFollowsPlanner' /\ ActiveSystemIsStored'
    BY <1>1, <1>5, <1>7 DEF ParserFollowsPlanner, ActiveSystemIsStored
  <1>11. OutputsFollowModes' /\ OffsetsReported' /\ FeedMotionsHaveFeed'
    BY <1>7, <1>8 DEF OutputsFollowModes, OffsetsReported, FeedMotionsHaveFeed
  <1> QED
    BY <1>8, <1>9, <1>10, <1>11 DEF GcInv, BlockInv

LEMMA GcInitially == GcInit => GcInv
  <1> SUFFICES ASSUME GcInit PROVE GcInv
    OBVIOUS
  <1>1. /\ gc_setup \in GcSetups /\ gc_setup.stored \in [Records -> [Axis -> Int]]
        /\ 0 \notin gc_setup.bad
    BY GcAssumption DEF GcInit
  <1>2. coord_data = [i \in Records |-> IF i \in gc_setup.bad THEN BAD
                                        ELSE gc_setup.stored[i]]
    BY DEF GcInit
  <1>3. coord_data \in [Records -> GcPlaces \cup {BAD}] /\ coord_data[0] \in GcPlaces
    BY <1>1, <1>2 DEF Records, GcPlaces
  <1>4. gc_state = Fresh(coord_data[0], Zero)
    BY <1>3, ZeroIsPlace, AsInitialised DEF GcInit
  <1>5. /\ gc_state \in StateType /\ gc_state.position = Zero
        /\ gc_state.coord_system = coord_data[0]
        /\ gc_state.modal["G12"] = 0 /\ gc_state.modal["M7"] = 5 /\ gc_state.modal["M8"] = {}
    BY <1>3, <1>4, ZeroIsPlace, AsInitialised
  <1>6. gc_block = [jog |-> FALSE, modal |-> gc_state.modal, non_modal |-> -1,
                    axis_command |-> "none", command_words |-> {}, value_words |-> {},
                    values |-> [l \in ValueLetters |-> 0], words |-> {}]
    BY DEF GcInit, NewBlock
  <1>7. BlockType(gc_block)
    BY <1>5, <1>6 DEF BlockType, StateType
  <1>8. /\ gc_phase = "idle" /\ gc_check = FALSE /\ gc_aborted = FALSE
        /\ gc_planned = Zero /\ gc_machine = Zero /\ gc_wco = TRUE
        /\ gc_reported = Zero /\ gc_motions = <<>>
        /\ gc_outputs = [spindle |-> 5, speed |-> 0, coolant |-> {}]
    BY DEF GcInit
  <1>9. GcTypeOK
    BY <1>1, <1>3, <1>5, <1>7, <1>8, ZeroIsPlace, PlaceIsRead DEF GcTypeOK, StateType, BlockType
  <1>10. ParserFollowsPlanner /\ ActiveSystemIsStored
    BY <1>5, <1>8 DEF ParserFollowsPlanner, ActiveSystemIsStored
  <1>11. OutputsFollowModes /\ OffsetsReported /\ FeedMotionsHaveFeed
    BY <1>5, <1>8 DEF OutputsFollowModes, OffsetsReported, FeedMotionsHaveFeed
  <1> QED
    BY <1>8, <1>9, <1>10, <1>11 DEF GcInv, BlockInv

LEMMA GcStepKeeps == GcInv /\ [GcNext]_gcVars => GcInv'
  <1> SUFFICES ASSUME GcInv, [GcNext]_gcVars PROVE GcInv'
    OBVIOUS
  <1>1. CASE \E jog \in BOOLEAN : StartLine(jog)
    BY <1>1, StartLineKeeps
  <1>2. CASE \E w \in gc_setup.words : ParseWord(w)
    BY <1>2, ParseWordKeeps
  <1>3. CASE Reject
    BY <1>3, RejectKeeps
  <1>4. CASE ExecuteJog
    BY <1>4, ExecuteJogKeeps
  <1>5. CASE Execute
    BY <1>5, ExecuteKeeps
  <1>6. CASE Abort
    BY <1>6, AbortKeeps
  <1>7. CASE PulseTimeout
    BY <1>7, PulseTimeoutKeeps
  <1>8. CASE GcMotionsEnd \/ GcJogCancelled \/ GcCheckMode \/ GcReport
    BY <1>8, BetweenLinesKeeps
  <1>9. CASE GcRestart
    BY <1>9, GcRestartKeeps
  <1>10. CASE UNCHANGED gcVars
    BY <1>10 DEF gcVars, GcInv, GcTypeOK, BlockInv, BlockConsistent, ParserFollowsPlanner,
           ActiveSystemIsStored, OutputsFollowModes, OffsetsReported, GcReal,
           FeedMotionsHaveFeed, Named
  <1> QED
    BY <1>1, <1>2, <1>3, <1>4, <1>5, <1>6, <1>7, <1>8, <1>9, <1>10 DEF GcNext

\* The parser agrees with the planner, the EEPROM, the pins and the report after
\* every sequence of lines, jogs, probes, resets and restarts, whatever words
\* the lines are made of, in every setup (gc_execute_line(), gcode.c:68).
THEOREM ParserAgrees == GcSpec => []GcInv
  BY GcInitially, GcStepKeeps, PTL DEF GcSpec

-----------------------------------------------------------------------------
(* What one line does.                                                      *)

\* A block whose axis words are the work position of where the machine stands.
SetsOffset(b) ==
  \/ b.non_modal = 920
  \/ b.non_modal = 100 /\ b.values["L"] = 20 /\ G10Select(b) = b.modal["G12"]

\* The offsets that hold after a block, at an axis the block names.
LEMMA NewOffsets ==
  ASSUME Ready(gc_block), NEW a \in Named(gc_block), NEW value,
         value = gc_block.values[a] * Scale(gc_block),
         NEW wco, wco = NewSystem(gc_block)[a] + NewOffset(gc_block)[a]
                          + IF a = TLO_AXIS THEN NewTlo(gc_block) ELSE 0
  PROVE  /\ value \in Int /\ gc_state.position[a] \in Int
         /\ SetsOffset(gc_block) => gc_state.position[a] - wco = value
         /\ Moves(gc_block) /\ gc_block.non_modal # 921 => wco = Offsets(gc_block, a)
         /\ Offsets(gc_block, a) \in Int
  <1>1. a \in Axis
    BY DEF Named
  <1>2. /\ value \in Int /\ gc_state.position[a] \in Int
        /\ gc_state.coord_offset[a] \in Int
    BY <1>1, Amounts DEF ValueLetters, Ready, GcTypeOK, GcPlaces
  <1>3. BlockSystem(gc_block)[a] \in Int /\ Offsets(gc_block, a) \in Int /\ TloOn(a) \in Int
    BY <1>1, SystemType DEF GcPlaces
  <1>4. /\ gc_block.non_modal \in {100, 920} => AxisCommand(gc_block) # "tool_length"
        /\ Moves(gc_block) => /\ AxisCommand(gc_block) # "tool_length"
                              /\ gc_block.non_modal \notin {100, 920}
    BY DEF Ready, Consistent, Moves, AxisCommand
  <1>5. AxisCommand(gc_block) # "tool_length" =>
          (IF a = TLO_AXIS THEN NewTlo(gc_block) ELSE 0) = TloOn(a)
    BY DEF NewTlo, TloOn
  <1>6. gc_block.non_modal # 100 => NewSystem(gc_block) = BlockSystem(gc_block)
    BY DEF NewSystem, BlockSystem
  <1>7. ASSUME gc_block.non_modal = 920 PROVE gc_state.position[a] - wco = value
    <2>1. NewOffset(gc_block)[a] = gc_state.position[a] - BlockSystem(gc_block)[a] - value - TloOn(a)
      BY <1>1, <1>7 DEF NewOffset, G92Offset
    <2>2. wco = BlockSystem(gc_block)[a] + NewOffset(gc_block)[a] + TloOn(a)
      BY <1>4, <1>5, <1>6, <1>7
    <2> QED
      BY <1>2, <1>3, <2>1, <2>2
  <1>8. ASSUME gc_block.non_modal = 100, gc_block.values["L"] = 20,
               G10Select(gc_block) = gc_block.modal["G12"]
        PROVE  gc_state.position[a] - wco = value
    <2>1. NewSystem(gc_block)[a] = gc_state.position[a] - gc_state.coord_offset[a] - value - TloOn(a)
      BY <1>1, <1>8 DEF NewSystem, CoordinateData
    <2>2. NewOffset(gc_block) = gc_state.coord_offset
      BY <1>8 DEF NewOffset
    <2>3. wco = NewSystem(gc_block)[a] + gc_state.coord_offset[a] + TloOn(a)
      BY <1>4, <1>5, <1>8, <2>2
    <2> QED
      BY <1>2, <1>3, <2>1, <2>3
  <1>9. ASSUME Moves(gc_block), gc_block.non_modal # 921 PROVE wco = Offsets(gc_block, a)
    <2>1. NewOffset(gc_block) = gc_state.coord_offset
      BY <1>4, <1>9 DEF NewOffset
    <2> QED
      BY <1>4, <1>5, <1>6, <1>9, <2>1 DEF Offsets
  <1> QED
    BY <1>2, <1>3, <1>7, <1>8, <1>9 DEF SetsOffset

\* An accepted block, executed or given up, leaves the axes it names where its
\* words say.
LEMMA LineMovesAsProgrammed ==
  ASSUME Ready(gc_block), ~EndsProgram(gc_block), NEW p \in GcPlaces,
         gc_state' = WithFlow(gc_block, Executed(gc_block, p)),
         GoesHome(gc_block) => p = Home(gc_block),
         ~GoesHome(gc_block) /\ Moves(gc_block) /\ ~Probe(gc_block) => p = Target(gc_block),
         ~GoesHome(gc_block) /\ ~Moves(gc_block) => p = gc_state.position,
         NEW a \in Named(gc_block), NEW value, value = gc_block.values[a] * Scale(gc_block)
  PROVE  LET sets == \/ gc_block.non_modal = 920
                     \/ gc_block.non_modal = 100 /\ gc_block.values["L"] = 20
                          /\ G10Select(gc_block) = gc_state'.modal["G12"]
             moves == Moves(gc_block) /\ ~Probe(gc_block)
             relative == gc_state'.modal["G3"] = 91
         IN /\ sets \/ (moves /\ ~relative /\ gc_block.non_modal \notin {530, 921})
                 => gc_state'.position[a] - Wco(gc_state')[a] = value
            /\ moves /\ relative /\ gc_block.non_modal # 530
                 => gc_state'.position[a] = gc_state.position[a] + value
            /\ moves /\ gc_block.non_modal = 530 => gc_state'.position[a] = value
  <1> DEFINE moves == Moves(gc_block) /\ ~Probe(gc_block)
             relative == gc_block.modal["G3"] = 91
             wco == NewSystem(gc_block)[a] + NewOffset(gc_block)[a]
                      + IF a = TLO_AXIS THEN NewTlo(gc_block) ELSE 0
  <1>1. /\ gc_state'.position = p /\ gc_state'.coord_offset = NewOffset(gc_block)
        /\ gc_state'.tool_length_offset = NewTlo(gc_block)
        /\ gc_state'.modal["G3"] = gc_block.modal["G3"]
        /\ gc_state'.modal["G12"] = gc_block.modal["G12"]
        /\ gc_state'.coord_system = NewSystem(gc_block)
    BY LeftBehind
  <1>2. Wco(gc_state')[a] = wco
    BY <1>1 DEF Wco, Named
  <1> HIDE DEF wco
  <1>3. /\ value \in Int /\ gc_state.position[a] \in Int
        /\ SetsOffset(gc_block) => gc_state.position[a] - wco = value
        /\ Moves(gc_block) /\ gc_block.non_modal # 921 => wco = Offsets(gc_block, a)
        /\ Offsets(gc_block, a) \in Int
    BY NewOffsets DEF wco
  <1>4. /\ gc_block.non_modal \in {100, 920} => ~Moves(gc_block) /\ ~GoesHome(gc_block)
        /\ GoesHome(gc_block) => ~Moves(gc_block)
    BY DEF Ready, Consistent, GoesHome, Moves, AxisCommand
  <1>5. moves => p = Target(gc_block)
    BY <1>4
  <1>6. /\ gc_block.non_modal = 530 => Target(gc_block)[a] = value
        /\ gc_block.non_modal # 530 /\ gc_block.modal["G3"] = 90
             => Target(gc_block)[a] = value + Offsets(gc_block, a)
        /\ gc_block.non_modal # 530 /\ gc_block.modal["G3"] # 90
             => Target(gc_block)[a] = value + gc_state.position[a]
    BY TargetOf
  <1>7. gc_block.modal["G3"] \in {90, 91}
    BY DEF Ready, BlockType, GcModals
  <1>8. ASSUME SetsOffset(gc_block) PROVE p[a] - wco = value
    BY <1>3, <1>4, <1>8 DEF SetsOffset
  <1>9. ASSUME moves, ~relative, gc_block.non_modal \notin {530, 921}
        PROVE  p[a] - wco = value
    BY <1>3, <1>5, <1>6, <1>7, <1>9
  <1>10. ASSUME moves, relative, gc_block.non_modal # 530
         PROVE  p[a] = gc_state.position[a] + value
    BY <1>3, <1>5, <1>6, <1>10
  <1>11. ASSUME moves, gc_block.non_modal = 530 PROVE p[a] = value
    BY <1>5, <1>6, <1>11
  <1> QED
    BY <1>1, <1>2, <1>8, <1>9, <1>10, <1>11 DEF SetsOffset

LEMMA ProgrammedStep == GcInv /\ [GcNext]_gcVars => [
  (gc_status' = "OK" /\ Accepted /\ ~EndsProgram(gc_block)) =>
    \A a \in Named(gc_block) :
      LET value == gc_block.values[a] * Scale(gc_block)
          sets == \/ gc_block.non_modal = 920
                  \/ gc_block.non_modal = 100 /\ gc_block.values["L"] = 20
                       /\ G10Select(gc_block) = gc_state'.modal["G12"]
          moves == Moves(gc_block) /\ ~Probe(gc_block)
          relative == gc_state'.modal["G3"] = 91
      IN /\ sets \/ (moves /\ ~relative /\ gc_block.non_modal \notin {530, 921})
              => gc_state'.position[a] - Wco(gc_state')[a] = value
         /\ moves /\ relative /\ gc_block.non_modal # 530
              => gc_state'.position[a] = gc_state.position[a] + value
         /\ moves /\ gc_block.non_modal = 530 => gc_state'.position[a] = value ]_gcVars
  <1> SUFFICES ASSUME GcInv, GcNext, gc_status' = "OK", Accepted, ~EndsProgram(gc_block),
                      NEW a \in Named(gc_block),
                      NEW value, value = gc_block.values[a] * Scale(gc_block)
               PROVE  LET sets == \/ gc_block.non_modal = 920
                                  \/ gc_block.non_modal = 100 /\ gc_block.values["L"] = 20
                                       /\ G10Select(gc_block) = gc_state'.modal["G12"]
                          moves == Moves(gc_block) /\ ~Probe(gc_block)
                          relative == gc_state'.modal["G3"] = 91
                      IN /\ sets \/ (moves /\ ~relative /\ gc_block.non_modal \notin {530, 921})
                              => gc_state'.position[a] - Wco(gc_state')[a] = value
                         /\ moves /\ relative /\ gc_block.non_modal # 530
                              => gc_state'.position[a] = gc_state.position[a] + value
                         /\ moves /\ gc_block.non_modal = 530 => gc_state'.position[a] = value
    OBVIOUS
  <1>1. gc_phase = "parsing" /\ ~gc_block.jog /\ BlockStatus(gc_block) = "OK"
    BY DEF Accepted
  <1>2. gc_status = "parsing" /\ Ready(gc_block)
    BY <1>1, BlockNow, NowReady
  <1>3. ASSUME NEW w, ParseWord(w) PROVE FALSE
    BY <1>2, <1>3 DEF ParseWord, Returns
  <1>4. Execute \/ Abort
    BY <1>1, <1>3 DEF GcNext, StartLine, Reject, ExecuteJog, PulseTimeout, Returns,
       GcMotionsEnd, GcJogCancelled, GcCheckMode, GcRestart, GcReport
  <1>5. PICK p \in GcPlaces :
          /\ gc_state' = WithFlow(gc_block, Executed(gc_block, p))
          /\ GoesHome(gc_block) => p = Home(gc_block)
          /\ ~GoesHome(gc_block) /\ Moves(gc_block) /\ ~Probe(gc_block) => p = Target(gc_block)
          /\ ~GoesHome(gc_block) /\ ~Moves(gc_block) => p = gc_state.position
    <2>1. CASE Execute
      <3>1. PICK end \in Ends(gc_block) :
              gc_state' = WithFlow(gc_block, Executed(gc_block, end.position))
        BY <2>1 DEF Execute
      <3> DEFINE p == end.position
      <3>2. /\ p \in GcPlaces
            /\ GoesHome(gc_block) => ~Moves(gc_block)
            /\ ~(Moves(gc_block) /\ Probe(gc_block)) =>
                 p = IF GoesHome(gc_block) THEN Home(gc_block)
                     ELSE IF Moves(gc_block) THEN Target(gc_block)
                     ELSE gc_state.position
        BY <1>2, WhereItEnds
      <3>3. gc_state' = WithFlow(gc_block, Executed(gc_block, p))
        BY <3>1
      <3> HIDE DEF p
      <3> QED
        BY <3>2, <3>3
    <2>2. CASE Abort
      <3> DEFINE p == IF GoesHome(gc_block) THEN Home(gc_block)
                      ELSE IF Moves(gc_block) THEN Target(gc_block)
                      ELSE gc_state.position
      <3>1. p \in GcPlaces
        BY <1>2, TargetType, HomeType DEF Ready, GcTypeOK
      <3>2. gc_state' = WithFlow(gc_block, Executed(gc_block, p))
        BY <2>2 DEF Abort
      <3>3. /\ GoesHome(gc_block) => p = Home(gc_block)
            /\ ~GoesHome(gc_block) /\ Moves(gc_block) /\ ~Probe(gc_block) => p = Target(gc_block)
            /\ ~GoesHome(gc_block) /\ ~Moves(gc_block) => p = gc_state.position
        OBVIOUS
      <3> HIDE DEF p
      <3> QED
        BY <3>1, <3>2, <3>3
    <2> QED
      BY <1>4, <2>1, <2>2
  <1> QED
    BY <1>2, <1>5, LineMovesAsProgrammed

LEMMA JogStep == GcInv /\ [GcNext]_gcVars => [
  (gc_block.jog /\ gc_phase = "parsing" /\ gc_phase' = "idle")
     => gc_state' = [gc_state EXCEPT !.position = gc_state'.position] ]_gcVars
  <1> SUFFICES ASSUME GcInv, GcNext, gc_block.jog, gc_phase = "parsing", gc_phase' = "idle"
               PROVE  gc_state' = [gc_state EXCEPT !.position = gc_state'.position]
    OBVIOUS
  <1>1. gc_state \in StateType
    BY DEF GcInv, GcTypeOK, StateType
  <1>2. ~gc_aborted
    BY BlockNow
  <1>3. ASSUME NEW w, ParseWord(w) PROVE gc_state' = gc_state
    BY <1>3 DEF ParseWord, Unexecuted
  <1>4. \/ gc_state' = gc_state
        \/ gc_state' = [gc_state EXCEPT !.position = Target(gc_block)]
    BY <1>3 DEF GcNext, StartLine, Reject, ExecuteJog, Execute, Abort, PulseTimeout,
       Accepted, Unexecuted, GcMotionsEnd, GcJogCancelled, GcCheckMode, GcRestart, GcReport
  <1> DEFINE t == Target(gc_block)
  <1>5. gc_state' = gc_state \/ gc_state' = [gc_state EXCEPT !.position = t]
    BY <1>4
  <1> HIDE DEF t
  <1> QED
    BY <1>1, <1>5 DEF StateType

\* An accepted line leaves the axes it names where it said, in the coordinates
\* then in force, and a jog leaves every mode alone (gcode.c:1003-1265).
THEOREM LinesActAsProgrammed == GcSpec => LineActsAsProgrammed
  <1>1. GcSpec => []GcInv
    BY ParserAgrees
  <1>2. GcSpec => WorkPositionAsProgrammed
    BY <1>1, ProgrammedStep, PTL DEF GcSpec, WorkPositionAsProgrammed
  <1>3. GcSpec => JogKeepsModes
    BY <1>1, JogStep, PTL DEF GcSpec, JogKeepsModes
  <1> QED
    BY <1>2, <1>3 DEF LineActsAsProgrammed
=============================================================================
