---------------------------- MODULE SteppingProofs ----------------------------
(***************************************************************************)
(* Theorems about the motion itself.                                       *)
(* About Stepping, for every set of axes and moves, any number of          *)
(* segments, every cut of a move into segments and every AMASS level: all  *)
(* axes make exactly the steps of their moves, and one pulse for each.     *)
(* About Planner, for every kind of line, queues of any size, and every    *)
(* change of the override: the plan always ends in a stop and is never     *)
(* entered above its limits, and it is the fastest one that keeps every    *)
(* limit unless the override has slowed a block of it down.                *)
(***************************************************************************)
EXTENDS Stepping, Planner, SequenceTheorems, WellFoundedInduction, TLAPS

-----------------------------------------------------------------------------
(* Arithmetic.  n is the number of events, `steps' those of an axis.       *)

\* A tick worth c eighths of an event keeps the ledger, with or without a step.
LEMMA LedgerKept ==
  ASSUME NEW n \in Nat, NEW steps \in 0..n, NEW c \in {1, 2, 4, 8},
         NEW counter \in 0..(8 * n), NEW made \in Int, NEW left \in Int,
         counter + made * (8 * n) + steps * left = (8 * n) \div 2 + steps * (8 * n)
  PROVE  LET added == counter + steps * c
         IN /\ added > 8 * n =>
                 /\ added - 8 * n \in 0..(8 * n)
                 /\ (added - 8 * n) + (made + 1) * (8 * n) + steps * (left - c)
                      = (8 * n) \div 2 + steps * (8 * n)
            /\ ~(added > 8 * n) =>
                 /\ added \in 0..(8 * n)
                 /\ added + made * (8 * n) + steps * (left - c)
                      = (8 * n) \div 2 + steps * (8 * n)
  <1>1. steps * c \in 0..(8 * n)
    OBVIOUS
  <1>2. (made + 1) * (8 * n) = made * (8 * n) + 8 * n
    OBVIOUS
  <1>3. steps * (left - c) = steps * left - steps * c
    OBVIOUS
  <1>4. made * (8 * n) \in Int /\ steps * left \in Int /\ steps * (8 * n) \in Int
    OBVIOUS
  <1> QED
    BY <1>1, <1>2, <1>3, <1>4

\* When nothing is left, the steps were made.
LEMMA LedgerClosed ==
  ASSUME NEW n \in Nat \ {0}, NEW steps \in Nat,
         NEW counter \in 0..(8 * n), NEW made \in Int,
         counter + made * (8 * n) + steps * 0 = (8 * n) \div 2 + steps * (8 * n)
  PROVE  made = steps
  <1> DEFINE d == made - steps
  <1>1. d * (8 * n) = made * (8 * n) - steps * (8 * n)
    OBVIOUS
  <1>2. counter + d * (8 * n) = 4 * n
    BY <1>1
  <1>3. d > 0 => d * (8 * n) >= 8 * n
    OBVIOUS
  <1>4. d < 0 => d * (8 * n) <= -(8 * n)
    OBVIOUS
  <1> HIDE DEF d
  <1>5. d \in Int
    BY DEF d
  <1>6. d = 0
    BY <1>2, <1>3, <1>4, <1>5
  <1> QED
    BY <1>6 DEF d

LEMMA FactorValues ==
  ASSUME NEW level \in 0..MAX_AMASS_LEVEL
  PROVE  /\ Factor(level) \in {1, 2, 4, 8} /\ Eighths(level) \in {1, 2, 4, 8}
         /\ Factor(level) * Eighths(level) = 8
         /\ \A steps \in Nat : (steps * 8) \div Factor(level) = steps * Eighths(level)
         /\ Factor(MAX_AMASS_LEVEL) = 8
  BY DEF MAX_AMASS_LEVEL, Factor, Eighths

-----------------------------------------------------------------------------
(* Moves and blocks.                                                       *)

LEMMA MoveType ==
  ASSUME NEW move \in SpMoves
  PROVE  /\ \A a \in SpAxes : move[a] \in Int /\ Magnitude(move[a]) \in Nat
         /\ move \in [SpAxes -> Int]
  BY SteppingAssumption DEF Magnitude

\* The events are the steps of an axis, and no axis makes more.
LEMMA EventsOfMove ==
  ASSUME NEW move \in SpMoves
  PROVE  /\ Events(move) \in Nat
         /\ \A a \in SpAxes : Magnitude(move[a]) \in 0..Events(move)
  <1> DEFINE S == {Magnitude(move[a]) : a \in SpAxes}
  <1>1. \E n \in S : \A a \in SpAxes : Magnitude(move[a]) <= n
    BY SteppingAssumption
  <1>2. Events(move) \in S /\ \A a \in SpAxes : Magnitude(move[a]) <= Events(move)
    BY <1>1 DEF Events
  <1> QED
    BY <1>2, MoveType

LEMMA BlockFacts ==
  ASSUME NEW b \in Blocks
  PROVE  /\ b.id \in Nat \ {0} /\ b # NoMove
         /\ b.start \in [SpAxes -> Int] /\ b.move \in SpMoves
         /\ Events(b.move) \in Nat \ {0} /\ b.event_count = 8 * Events(b.move)
         /\ \A a \in SpAxes : /\ b.steps[a] = Magnitude(b.move[a]) * 8
                              /\ Magnitude(b.move[a]) \in 0..Events(b.move)
                              /\ b.move[a] \in Int
         /\ EndOfMove(b) \in [SpAxes -> Int]
  <1>1. b.id \in Nat \ {0} /\ b.start \in [SpAxes -> Int] /\ b.move \in SpMoves
    BY DEF Blocks
  <1>2. b # NoMove
    BY <1>1 DEF NoMove
  <1>3. Events(b.move) \in Nat \ {0} /\ b.event_count = 8 * Events(b.move)
    BY <1>1, EventsOfMove DEF Blocks, Factor, MAX_AMASS_LEVEL
  <1>4. \A a \in SpAxes : /\ b.steps[a] = Magnitude(b.move[a]) * 8
                          /\ Magnitude(b.move[a]) \in 0..Events(b.move)
                          /\ b.move[a] \in Int
    <2>1. b.steps = [a \in SpAxes |-> Magnitude(b.move[a]) * Factor(MAX_AMASS_LEVEL)]
      BY DEF Blocks
    <2>2. Factor(MAX_AMASS_LEVEL) = 8
      BY DEF Factor, MAX_AMASS_LEVEL
    <2>3. \A a \in SpAxes : b.steps[a] = Magnitude(b.move[a]) * 8
      BY <2>1, <2>2
    <2>4. \A a \in SpAxes : Magnitude(b.move[a]) \in 0..Events(b.move) /\ b.move[a] \in Int
      BY <1>1, EventsOfMove, MoveType
    <2> QED
      BY <2>3, <2>4
  <1>5. EndOfMove(b) \in [SpAxes -> Int]
    BY <1>1, <1>4 DEF EndOfMove
  <1> QED
    BY <1>1, <1>2, <1>3, <1>4, <1>5

-----------------------------------------------------------------------------
(* Sequences of segments.                                                  *)

LEMMA FirstSegment ==
  ASSUME NEW q \in Seq(Segments), q # <<>>
  PROVE  /\ Head(q) = q[1] /\ q[1] \in Segments /\ 1 \in 1..Len(q) /\ Len(q) \in Nat
         /\ Tail(q) \in Seq(Segments) /\ Len(Tail(q)) = Len(q) - 1
         /\ \A i \in 1..Len(Tail(q)) : Tail(q)[i] = q[i + 1]
         /\ Tail(q) = <<>> => Len(q) = 1
         /\ Len(q) \in 1..Len(q) /\ q[Len(q)] \in Segments
  <1>1. Len(q) \in Nat /\ Len(q) > 0
    OBVIOUS
  <1>2. Tail(q) \in Seq(Segments) /\ Len(Tail(q)) = Len(q) - 1
    OBVIOUS
  <1>3. \A i \in 1..Len(Tail(q)) : Tail(q)[i] = q[i + 1]
    OBVIOUS
  <1>4. Tail(q) = <<>> => Len(q) = 1
    <2>1. Len(<<>>) = 0
      OBVIOUS
    <2>2. Tail(q) = <<>> => Len(Tail(q)) = 0
      BY <2>1, Zenon
    <2> QED
      BY <1>1, <1>2, <2>2
  <1>5. \A i \in 1..Len(q) : q[i] \in Segments
    OBVIOUS
  <1>6. Head(q) = q[1]
    OBVIOUS
  <1> QED
    BY <1>1, <1>2, <1>3, <1>4, <1>5, <1>6

LEMMA SegmentFacts ==
  ASSUME NEW s \in Segments
  PROVE  s.block \in Blocks /\ s.from \in Nat /\ s.to \in Nat /\ s.level \in 0..MAX_AMASS_LEVEL
  BY DEF Segments

-----------------------------------------------------------------------------
(* The moves: initially, and the main program.                             *)

LEMMA InitMoves == SpInit => MovesInv
  <1> SUFFICES ASSUME SpInit PROVE MovesInv
    OBVIOUS
  <1> USE DEF SpInit
  <1>1. sp_setup.dir \subseteq SpAxes
    BY SteppingAssumption
  <1>2. sp_st \in [count : Nat, block : Blocks \cup {NoMove}, counter : [SpAxes -> Int],
                   outbits : SUBSET SpAxes, dirs : SUBSET SpAxes]
    BY <1>1 DEF Idle
  <1>3. sp_pins \subseteq SpAxes
    BY SteppingAssumption DEF NoPulse
  <1>4. SpTypeOK
    <2>1. sp_position \in [SpAxes -> Int] /\ sp_target \in [SpAxes -> Int]
          /\ sp_motor \in [SpAxes -> Int]
      OBVIOUS
    <2>2. sp_segments \in Seq(Segments) /\ sp_enabled \in BOOLEAN
      OBVIOUS
    <2>3. sp_setup \in SpSetups /\ sp_lock \subseteq SpAxes /\ sp_block \in Blocks \cup {NoMove}
          /\ sp_remaining \in Nat /\ sp_moves \in Nat /\ sp_kills \in Nat
          /\ sp_timer \in BOOLEAN /\ sp_killed \in BOOLEAN
      OBVIOUS
    <2> QED
      BY <1>2, <1>3, <2>1, <2>2, <2>3 DEF SpTypeOK
  <1>5. sp_st.block = NoMove /\ NoMove.id = 0 /\ sp_st.count = 0
    BY DEF Idle, NoMove
  <1>6. QueueInv /\ PreparedInv
    BY DEF QueueInv, PreparedInv
  <1>7. ExecutedInv
    BY <1>5 DEF ExecutedInv, Finished
  <1> QED
    BY <1>4, <1>6, <1>7 DEF MovesInv

\* A step that changes nothing but pins, timer, drivers or the lock.
LEMMA MovesUnchanged ==
  ASSUME MovesInv, UNCHANGED <<spPrep, sp_segments, sp_position, sp_setup>>,
         sp_st'.count = sp_st.count, sp_st'.block = sp_st.block, sp_st'.counter = sp_st.counter,
         SpTypeOK'
  PROVE  MovesInv'
  <1>1. QueueInv' /\ PreparedInv'
    BY DEF MovesInv, spPrep, QueueInv, PreparedInv
  <1>2. \A left : Ledger(left)' <=> Ledger(left)
    BY DEF Ledger, Made
  <1>3. Finished' <=> Finished
    BY DEF Finished
  <1>4. ExecutedInv'
    BY <1>2, <1>3 DEF MovesInv, ExecutedInv, Reaches, spPrep
  <1> QED
    BY <1>1, <1>4 DEF MovesInv

LEMMA NewBlock ==
  ASSUME SpTypeOK, NEW move \in SpMoves, \E a \in SpAxes : move[a] # 0
  PROVE  /\ BlockOf(move) \in Blocks /\ BlockOf(move).id = sp_moves + 1
         /\ BlockOf(move).start = sp_target /\ BlockOf(move).move = move
         /\ EndOfMove(BlockOf(move)) = [a \in SpAxes |-> sp_target[a] + move[a]]
         /\ Events(move) \in Nat \ {0}
  <1>1. Events(move) \in Nat \ {0}
    <2>1. PICK a \in SpAxes : move[a] # 0
      OBVIOUS
    <2>2. Magnitude(move[a]) > 0
      BY <2>1, MoveType DEF Magnitude
    <2> QED
      BY <2>2, EventsOfMove
  <1>2. Factor(MAX_AMASS_LEVEL) = 8
    BY DEF Factor, MAX_AMASS_LEVEL
  <1>3. [a \in SpAxes |-> Magnitude(move[a]) * Factor(MAX_AMASS_LEVEL)] \in [SpAxes -> Nat]
    BY <1>2, MoveType
  <1>4. BlockOf(move) \in Blocks
    <2> DEFINE b == BlockOf(move)
    <2>1. /\ b.id = sp_moves + 1 /\ b.start = sp_target /\ b.move = move
          /\ b.steps = [a \in SpAxes |-> Magnitude(move[a]) * Factor(MAX_AMASS_LEVEL)]
          /\ b.event_count = Events(move) * Factor(MAX_AMASS_LEVEL)
      BY DEF BlockOf
    <2>2. b \in [id : Nat \ {0}, start : [SpAxes -> Int], move : SpMoves,
                steps : [SpAxes -> Nat], event_count : Nat]
      BY <1>1, <1>2, <1>3 DEF BlockOf, SpTypeOK
    <2> QED
      BY <1>1, <2>1, <2>2 DEF Blocks
  <1> QED
    BY <1>1, <1>4 DEF BlockOf, EndOfMove

LEMMA LoadKeepsMoves ==
  ASSUME MovesInv, NEW move \in SpMoves, LoadMove(move)
  PROVE  MovesInv'
  <1> DEFINE b == BlockOf(move)
  <1>1. /\ sp_block = NoMove /\ sp_block' = b /\ sp_remaining' = Events(move)
        /\ sp_target' = [a \in SpAxes |-> sp_target[a] + move[a]] /\ sp_moves' = sp_moves + 1
        /\ sp_segments' = sp_segments /\ sp_st' = sp_st /\ sp_position' = sp_position
    BY DEF LoadMove, spIsr
  <1>2. /\ b \in Blocks /\ b.id = sp_moves + 1 /\ b.start = sp_target /\ b.move = move
        /\ EndOfMove(b) = sp_target' /\ Events(move) \in Nat \ {0} /\ b # NoMove
    BY <1>1, NewBlock, BlockFacts DEF MovesInv, LoadMove
  <1> HIDE DEF b
  <1>3. SpTypeOK'
    <2>1. sp_target' \in [SpAxes -> Int]
      BY <1>2, BlockFacts
    <2> QED
      BY <1>1, <1>2, <2>1 DEF MovesInv, SpTypeOK, LoadMove, spIsr, spDriver, spPins
  <1>4. sp_moves \in Nat /\ sp_segments \in Seq(Segments)
    BY DEF MovesInv, SpTypeOK
  <1>5. QueueInv'
    <2>1. \A i \in 1..Len(sp_segments) : sp_segments[i].block.id <= sp_moves + 1
      <3> TAKE i \in 1..Len(sp_segments)
      <3>1. sp_segments[i] \in Segments
        BY <1>4
      <3>2. sp_segments[i].block.id \in Nat
        BY <3>1, SegmentFacts, BlockFacts
      <3> QED
        BY <1>4, <3>2 DEF MovesInv, QueueInv
    <2> QED
      BY <1>1, <2>1 DEF MovesInv, QueueInv
  <1>6. PreparedInv'
    <2>1. sp_remaining' > 0 /\ sp_remaining' <= Events(sp_block'.move)
      BY <1>1, <1>2
    <2>2. sp_block'.id <= sp_moves' /\ sp_target' = EndOfMove(sp_block)'
      BY <1>1, <1>2, <1>4 DEF EndOfMove
    <2>3. ASSUME sp_segments # <<>>
          PROVE  LET last == sp_segments[Len(sp_segments)]
                 IN Continues(last.block, last.to, b, Events(move))
      <3> DEFINE last == sp_segments[Len(sp_segments)]
      <3>1. last \in Segments /\ Len(sp_segments) \in 1..Len(sp_segments)
        BY <1>4, <2>3, FirstSegment
      <3>2. last.to = 0 /\ sp_target = EndOfMove(last.block)
        BY <1>1, <2>3 DEF MovesInv, PreparedInv
      <3>3. last.block.id <= sp_moves /\ last.block.id \in Nat
        BY <3>1, SegmentFacts, BlockFacts DEF MovesInv, QueueInv
      <3> QED
        BY <1>2, <1>4, <3>2, <3>3 DEF Continues
    <2> QED
      BY <1>1, <1>2, <2>1, <2>2, <2>3 DEF PreparedInv
  <1>7. ExecutedInv'
    <2>1. \A left : Ledger(left)' <=> Ledger(left)
      BY <1>1 DEF Ledger, Made
    <2>2. Finished' <=> Finished
      BY <1>1 DEF Finished
    <2>3. sp_st.block.id \in Nat /\ sp_st.block.id <= sp_moves
      BY BlockFacts DEF MovesInv, SpTypeOK, NoMove, ExecutedInv
    <2>4. ASSUME sp_st.count = 0, sp_segments = <<>>
          PROVE  Reaches(sp_block, sp_remaining)'
      <3>1. Finished /\ sp_position = sp_target
        BY <1>1, <2>4 DEF MovesInv, ExecutedInv
      <3>2. b.id # sp_st.block.id
        BY <1>2, <1>4, <2>3
      <3> QED
        BY <1>1, <1>2, <2>2, <3>1, <3>2 DEF Reaches
    <2>5. ASSUME sp_st.count = 0, sp_segments # <<>>
          PROVE  Reaches(sp_segments[1].block, sp_segments[1].from)'
      BY <1>1, <2>1, <2>2, <2>5 DEF MovesInv, ExecutedInv, Reaches
    <2>6. sp_st.count > 0 =>
            /\ sp_segments # <<>> /\ sp_st.block = sp_segments[1].block
            /\ Ledger(8 * sp_segments[1].to + sp_st.count * Eighths(sp_segments[1].level))'
      BY <1>1, <2>1 DEF MovesInv, ExecutedInv
    <2> QED
      BY <1>1, <1>2, <1>4, <2>3, <2>4, <2>5, <2>6 DEF ExecutedInv
  <1> QED
    BY <1>3, <1>5, <1>6, <1>7 DEF MovesInv

LEMMA PrepareKeepsMoves ==
  ASSUME MovesInv, NEW to \in 0..sp_remaining, NEW level \in 0..MAX_AMASS_LEVEL,
         PrepareSegment(to, level)
  PROVE  MovesInv'
  <1> DEFINE s == [block |-> sp_block, from |-> sp_remaining, to |-> to, level |-> level]
             q == sp_segments
  <1>1. /\ sp_block # NoMove /\ to < sp_remaining /\ q' = Append(q, s)
        /\ sp_remaining' = to /\ sp_block' = (IF to = 0 THEN NoMove ELSE sp_block)
        /\ sp_target' = sp_target /\ sp_moves' = sp_moves
        /\ sp_st' = sp_st /\ sp_position' = sp_position
    BY DEF PrepareSegment, spIsr
  <1>2. /\ sp_moves \in Nat /\ q \in Seq(Segments) /\ sp_remaining \in Nat /\ sp_block \in Blocks
        /\ to \in Nat /\ sp_st.count \in Nat
    BY <1>1 DEF MovesInv, SpTypeOK
  <1>3. s \in Segments
    BY <1>2 DEF Segments
  <1>4. /\ q' \in Seq(Segments) /\ Len(q') = Len(q) + 1 /\ Len(q) \in Nat /\ q' # <<>>
        /\ \A i \in 1..Len(q) : q'[i] = q[i]
        /\ q'[Len(q) + 1] = s
    BY <1>1, <1>2, <1>3
  <1>5. /\ sp_remaining > 0 /\ sp_remaining <= Events(sp_block.move)
        /\ sp_block.id <= sp_moves /\ sp_target = EndOfMove(sp_block)
    BY <1>1 DEF MovesInv, PreparedInv
  <1>6. s.block = sp_block /\ s.from = sp_remaining /\ s.to = to
    OBVIOUS
  <1> HIDE DEF s
  <1>7. SpTypeOK'
    BY <1>1, <1>2, <1>4 DEF MovesInv, SpTypeOK, PrepareSegment, spIsr, spDriver, spPins
  <1>8. QueueInv'
    <2>1. ASSUME NEW i \in 1..Len(q')
          PROVE  q'[i].to < q'[i].from /\ q'[i].from <= Events(q'[i].block.move)
                 /\ q'[i].block.id <= sp_moves
      <3>1. CASE i \in 1..Len(q)
        BY <1>4, <3>1 DEF MovesInv, QueueInv
      <3>2. CASE i = Len(q) + 1
        BY <1>1, <1>4, <1>5, <1>6, <3>2
      <3> QED
        BY <1>4, <3>1, <3>2
    <2>2. ASSUME NEW i \in 1..(Len(q') - 1)
          PROVE  Continues(q'[i].block, q'[i].to, q'[i + 1].block, q'[i + 1].from)
      <3>1. CASE i \in 1..(Len(q) - 1)
        BY <1>4, <3>1 DEF MovesInv, QueueInv
      <3>2. CASE i = Len(q)
        <4>1. q # <<>>
          BY <1>4, <3>2
        <4>2. Continues(q[Len(q)].block, q[Len(q)].to, sp_block, sp_remaining)
          BY <1>1, <4>1 DEF MovesInv, PreparedInv
        <4> QED
          BY <1>4, <1>6, <3>2, <4>2
      <3> QED
        BY <1>4, <3>1, <3>2
    <2> QED
      BY <1>1, <2>1, <2>2 DEF QueueInv, Continues, EndOfMove
  <1>9. PreparedInv'
    <2>1. q'[Len(q')] = s
      BY <1>4
    <2>2. CASE to = 0
      BY <1>1, <1>5, <1>6, <2>1, <2>2 DEF PreparedInv, EndOfMove
    <2>3. CASE to # 0
      <3>1. sp_block' = sp_block /\ sp_remaining' > 0 /\ sp_remaining' <= Events(sp_block.move)
        BY <1>1, <1>2, <1>5, <2>3, BlockFacts
      <3>2. Continues(s.block, s.to, sp_block, to)
        BY <1>6 DEF Continues
      <3> QED
        BY <1>1, <1>5, <2>1, <3>1, <3>2 DEF PreparedInv, Continues, EndOfMove
    <2> QED
      BY <2>2, <2>3
  <1>10. ExecutedInv'
    <2>1. \A left : Ledger(left)' <=> Ledger(left)
      BY <1>1 DEF Ledger, Made
    <2>2. Finished' <=> Finished
      BY <1>1 DEF Finished
    <2>3. CASE q = <<>>
      <3>1. q'[1] = s /\ sp_st.count = 0
        BY <1>2, <1>4, <2>3 DEF MovesInv, ExecutedInv
      <3>2. Reaches(sp_block, sp_remaining)
        BY <1>1, <2>3, <3>1 DEF MovesInv, ExecutedInv
      <3>3. Reaches(q[1].block, q[1].from)'
        BY <1>1, <1>6, <2>1, <2>2, <3>1, <3>2 DEF Reaches
      <3> QED
        BY <1>1, <1>4, <3>1, <3>3 DEF MovesInv, ExecutedInv
    <2>4. CASE q # <<>>
      <3>1. q'[1] = q[1]
        BY <1>2, <1>4, <2>4, FirstSegment
      <3>2. sp_st.count = 0 => Reaches(q[1].block, q[1].from)'
        BY <1>1, <2>1, <2>2, <2>4 DEF MovesInv, ExecutedInv, Reaches
      <3> QED
        BY <1>1, <1>4, <2>1, <2>4, <3>1, <3>2 DEF MovesInv, ExecutedInv, Reaches
    <2> QED
      BY <2>3, <2>4
  <1> QED
    BY <1>7, <1>8, <1>9, <1>10 DEF MovesInv

LEMMA RestartKeepsMoves ==
  ASSUME MovesInv, Restart
  PROVE  MovesInv'
  <1> USE DEF Restart
  <1>1. sp_st'.block = NoMove /\ NoMove.id = 0 /\ sp_st'.count = 0
    BY DEF Idle, NoMove
  <1>2. SpTypeOK'
    <2>1. sp_setup \in SpSetups /\ sp_setup.dir \subseteq SpAxes /\ sp_setup.step \subseteq SpAxes
          /\ sp_setup.locks \in BOOLEAN
      BY SteppingAssumption DEF MovesInv, SpTypeOK
    <2>2. sp_st' \in [count : Nat, block : Blocks \cup {NoMove}, counter : [SpAxes -> Int],
                      outbits : SUBSET SpAxes, dirs : SUBSET SpAxes]
      BY <2>1 DEF Idle
    <2>3. sp_segments' \in Seq(Segments)
      OBVIOUS
    <2>4. sp_timer' = FALSE /\ sp_enabled' \in BOOLEAN /\ sp_killed' = FALSE
      BY DEF GoIdle
    <2>5. sp_pins' \subseteq SpAxes
      BY <2>1 DEF NoPulse
    <2> QED
      BY <2>2, <2>3, <2>4, <2>5 DEF MovesInv, SpTypeOK
  <1>3. QueueInv' /\ PreparedInv'
    BY DEF QueueInv, PreparedInv
  <1>4. ExecutedInv'
    BY <1>1 DEF ExecutedInv, Finished, MovesInv, SpTypeOK
  <1> QED
    BY <1>2, <1>3, <1>4 DEF MovesInv

-----------------------------------------------------------------------------
(* The moves: the stepper driver interrupt.                                *)

\* Steps of a block that an axis at its position has made.
MadeOf(block, a) ==
  IF a \in Backwards(block.move)
  THEN block.start[a] - sp_position[a] ELSE sp_position[a] - block.start[a]

\* Ticks that are left of a segment as the interrupt comes to it.
TicksLeft(segment) == IF sp_st.count = 0 THEN NStep(segment) ELSE sp_st.count

LEMMA TickMeans ==
  ASSUME Tick, NEW segment, segment = Head(sp_segments)
  PROVE  /\ sp_segments # <<>>
         /\ sp_st'.count = TicksLeft(segment) - 1 /\ sp_st'.block = segment.block
         /\ sp_st'.counter = [a \in SpAxes |-> Added(segment)[a]
              - IF a \in Stepping(segment) THEN segment.block.event_count ELSE 0]
         /\ sp_position' = [a \in SpAxes |-> sp_position[a]
              + IF a \in Stepping(segment) THEN Way(Backwards(segment.block.move), a) ELSE 0]
         /\ sp_segments' = IF sp_st'.count = 0 THEN Tail(sp_segments) ELSE sp_segments
         /\ UNCHANGED <<sp_setup, spPrep, spDriver, sp_lock, sp_killed, sp_kills>>
  BY DEF Tick, TicksLeft

LEMMA SegmentTicks ==
  ASSUME NEW segment \in Segments, segment.to < segment.from
  PROVE  /\ NStep(segment) \in Nat \ {0}
         /\ 8 * segment.to + NStep(segment) * Eighths(segment.level) = 8 * segment.from
  <1> DEFINE n == segment.from - segment.to
             f == Factor(segment.level)
             e == Eighths(segment.level)
  <1>1. n \in Nat \ {0} /\ segment.to \in Nat /\ segment.from = segment.to + n
    BY SegmentFacts
  <1>2. f \in {1, 2, 4, 8} /\ e \in {1, 2, 4, 8} /\ f * e = 8
    BY SegmentFacts, FactorValues
  <1>3. NStep(segment) = n * f
    BY DEF NStep
  <1> HIDE DEF n, f, e
  <1>4. n * f \in Nat \ {0} /\ (n * f) * e = 8 * n
    BY <1>1, <1>2
  <1> QED
    BY <1>1, <1>3, <1>4 DEF e

\* As a tick begins, the ledger of the segment's block is in order, whether the segment
\* is the block's first, another one, or under way.
LEMMA LedgerBefore ==
  ASSUME MovesInv, NEW segment \in Segments, segment = Head(sp_segments), sp_segments # <<>>
  PROVE  /\ TicksLeft(segment) \in Nat \ {0}
         /\ \A a \in SpAxes :
              LET block == segment.block
                  steps == Magnitude(block.move[a])
              IN /\ Counters(block)[a] \in 0..block.event_count
                 /\ Counters(block)[a] + MadeOf(block, a) * block.event_count
                      + steps * (8 * segment.to + TicksLeft(segment) * Eighths(segment.level))
                      = block.event_count \div 2 + steps * block.event_count
  <1> DEFINE b == segment.block
  <1>1. sp_segments[1] = segment /\ 1 \in 1..Len(sp_segments)
    BY FirstSegment DEF MovesInv, SpTypeOK
  <1>2. segment.to < segment.from /\ segment.from <= Events(b.move) /\ b \in Blocks
    BY <1>1, SegmentFacts DEF MovesInv, QueueInv
  <1>3. sp_st.count \in Nat
    BY DEF MovesInv, SpTypeOK
  <1>4. CASE sp_st.count > 0
    <2>1. sp_st.block = b
          /\ Ledger(8 * segment.to + sp_st.count * Eighths(segment.level))
      BY <1>1, <1>4 DEF MovesInv, ExecutedInv
    <2>2. TicksLeft(segment) = sp_st.count /\ Counters(b) = sp_st.counter
      BY <1>4 DEF TicksLeft, Counters
    <2> QED
      BY <1>3, <1>4, <2>1, <2>2 DEF Ledger, Made, MadeOf
  <1>5. CASE sp_st.count = 0
    <2>1. /\ TicksLeft(segment) \in Nat \ {0}
          /\ 8 * segment.to + TicksLeft(segment) * Eighths(segment.level) = 8 * segment.from
      BY <1>2, <1>5, SegmentTicks DEF TicksLeft
    <2>2. Reaches(b, segment.from)
      BY <1>1, <1>5 DEF MovesInv, ExecutedInv
    <2>3. CASE b.id = sp_st.block.id
      <3>1. b = sp_st.block /\ Ledger(8 * segment.from) /\ Counters(b) = sp_st.counter
        BY <2>2, <2>3 DEF Reaches, Counters
      <3> QED
        BY <2>1, <3>1 DEF Ledger, Made, MadeOf
    <2>4. CASE b.id # sp_st.block.id
      <3>1. segment.from = Events(b.move) /\ sp_position = b.start
        BY <2>2, <2>4 DEF Reaches
      <3>2. Counters(b) = [a \in SpAxes |-> b.event_count \div 2]
        BY <1>5, <2>4 DEF Counters
      <3>3. ASSUME NEW a \in SpAxes
            PROVE  /\ Counters(b)[a] \in 0..b.event_count
                   /\ Counters(b)[a] + MadeOf(b, a) * b.event_count
                        + Magnitude(b.move[a])
                            * (8 * segment.to + TicksLeft(segment) * Eighths(segment.level))
                        = b.event_count \div 2 + Magnitude(b.move[a]) * b.event_count
        <4>1. /\ Events(b.move) \in Nat /\ b.event_count = 8 * Events(b.move)
              /\ Magnitude(b.move[a]) \in Nat
          BY <1>2, BlockFacts
        <4>2. MadeOf(b, a) = 0
          BY <1>2, <3>1, BlockFacts DEF MadeOf
        <4>3. Counters(b)[a] = 4 * Events(b.move) /\ b.event_count \div 2 = 4 * Events(b.move)
          BY <3>2, <4>1
        <4>4. 8 * segment.to + TicksLeft(segment) * Eighths(segment.level) = b.event_count
          BY <2>1, <3>1, <4>1
        <4>5. MadeOf(b, a) * b.event_count = 0
          BY <4>1, <4>2
        <4> QED
          BY <4>1, <4>3, <4>4, <4>5
      <3> QED
        BY <2>1, <3>3
    <2> QED
      BY <2>3, <2>4
  <1> QED
    BY <1>3, <1>4, <1>5

\* A tick keeps the ledger.
LEMMA LedgerAfter ==
  ASSUME MovesInv, Tick, NEW segment \in Segments, segment = Head(sp_segments)
  PROVE  /\ sp_st'.count \in Nat /\ sp_st'.block = segment.block
         /\ sp_position' \in [SpAxes -> Int]
         /\ sp_st'.counter \in [SpAxes -> Int]
         /\ Ledger(8 * segment.to + sp_st.count * Eighths(segment.level))'
  <1> DEFINE b == segment.block
             c == Eighths(segment.level)
             ticks == TicksLeft(segment)
  <1>1. /\ sp_segments # <<>> /\ sp_st'.count = ticks - 1 /\ sp_st'.block = b
        /\ sp_st'.counter = [a \in SpAxes |-> Added(segment)[a]
             - IF a \in Stepping(segment) THEN b.event_count ELSE 0]
        /\ sp_position' = [a \in SpAxes |-> sp_position[a]
             + IF a \in Stepping(segment) THEN Way(Backwards(b.move), a) ELSE 0]
    BY TickMeans
  <1>2. ticks \in Nat \ {0}
    BY <1>1, LedgerBefore
  <1>3. sp_position \in [SpAxes -> Int] /\ b \in Blocks
    BY SegmentFacts DEF MovesInv, SpTypeOK
  <1>4. c \in {1, 2, 4, 8} /\ segment.to \in Nat
    BY SegmentFacts, FactorValues
  <1>5. ASSUME NEW a \in SpAxes
        PROVE  LET steps == Magnitude(b.move[a])
                   made == IF a \in Backwards(b.move)
                           THEN b.start[a] - sp_position'[a] ELSE sp_position'[a] - b.start[a]
               IN /\ sp_st'.counter[a] \in 0..b.event_count
                  /\ sp_position'[a] \in Int
                  /\ sp_st'.counter[a] + made * b.event_count
                       + steps * (8 * segment.to + sp_st'.count * c)
                       = b.event_count \div 2 + steps * b.event_count
    <2> DEFINE n == Events(b.move)
               steps == Magnitude(b.move[a])
               counter == Counters(b)[a]
               left == 8 * segment.to + ticks * c
               made == MadeOf(b, a)
               after == IF a \in Backwards(b.move)
                        THEN b.start[a] - sp_position'[a] ELSE sp_position'[a] - b.start[a]
    <2>1. /\ n \in Nat /\ b.event_count = 8 * n /\ steps \in 0..n
          /\ b.steps[a] = steps * 8 /\ b.start[a] \in Int /\ sp_position[a] \in Int
      BY <1>3, BlockFacts
    <2>2. /\ counter \in 0..(8 * n)
          /\ counter + made * (8 * n) + steps * left = (8 * n) \div 2 + steps * (8 * n)
      BY <1>1, <2>1, LedgerBefore
    <2>3. made \in Int
      BY <2>1 DEF MadeOf
    <2>4. left \in Int /\ 8 * segment.to + sp_st'.count * c = left - c
      <3> HIDE DEF c, ticks
      <3>1. (ticks - 1) * c = ticks * c - c /\ ticks * c \in Int
        BY <1>2, <1>4
      <3> QED
        BY <1>1, <1>4, <3>1
    <2>5. Added(segment)[a] = counter + steps * c
      <3>1. b.steps[a] \div Factor(segment.level) = steps * c
        BY <2>1, SegmentFacts, FactorValues
      <3> QED
        BY <3>1 DEF Added
    <2>6. /\ sp_st'.counter[a] = (counter + steps * c) - IF a \in Stepping(segment) THEN 8 * n ELSE 0
          /\ a \in Stepping(segment) <=> counter + steps * c > 8 * n
      BY <1>1, <2>1, <2>5 DEF Stepping
    <2>7. /\ sp_position'[a] \in Int
          /\ after = IF a \in Stepping(segment) THEN made + 1 ELSE made
      BY <1>1, <2>1 DEF MadeOf, Way
    <2> HIDE DEF n, steps, counter, left, made, after, c
    <2>8. CASE a \in Stepping(segment)
      <3>1. /\ (counter + steps * c) - 8 * n \in 0..(8 * n)
            /\ ((counter + steps * c) - 8 * n) + (made + 1) * (8 * n) + steps * (left - c)
                 = (8 * n) \div 2 + steps * (8 * n)
        BY <1>4, <2>1, <2>2, <2>3, <2>4, <2>6, <2>8, LedgerKept
      <3>2. /\ sp_st'.counter[a] \in 0..b.event_count
            /\ sp_st'.counter[a] + after * b.event_count
                 + steps * (8 * segment.to + sp_st'.count * c)
                 = b.event_count \div 2 + steps * b.event_count
        BY <2>1, <2>4, <2>6, <2>7, <2>8, <3>1
      <3> QED
        BY <2>7, <3>2 DEF steps, after
    <2>9. CASE a \notin Stepping(segment)
      <3>1. /\ counter + steps * c \in 0..(8 * n)
            /\ (counter + steps * c) + made * (8 * n) + steps * (left - c)
                 = (8 * n) \div 2 + steps * (8 * n)
        BY <1>4, <2>1, <2>2, <2>3, <2>4, <2>6, <2>9, LedgerKept
      <3>2. sp_st'.counter[a] = counter + steps * c
        BY <2>6, <2>9, <3>1, <2>1
      <3>3. /\ sp_st'.counter[a] \in 0..b.event_count
            /\ sp_st'.counter[a] + after * b.event_count
                 + steps * (8 * segment.to + sp_st'.count * c)
                 = b.event_count \div 2 + steps * b.event_count
        BY <2>1, <2>4, <2>7, <2>9, <3>1, <3>2
      <3> QED
        BY <2>7, <3>3 DEF steps, after
    <2> QED
      BY <2>8, <2>9
  <1>6. Ledger(8 * segment.to + sp_st.count * Eighths(segment.level))'
    BY <1>1, <1>5 DEF Ledger, Made
  <1>7. \A a \in SpAxes : sp_position'[a] \in Int /\ sp_st'.counter[a] \in Int
    BY <1>3, <1>5, BlockFacts
  <1>8. sp_position' \in [SpAxes -> Int] /\ sp_st'.counter \in [SpAxes -> Int]
    BY <1>1, <1>7
  <1> QED
    BY <1>1, <1>2, <1>6, <1>8

\* A ledger with nothing left after a step: the axes have arrived.
LEMMA LedgerMeansArrived ==
  ASSUME NEW b \in Blocks, sp_st'.block = b, sp_position' \in [SpAxes -> Int], Ledger(0)'
  PROVE  sp_position' = EndOfMove(b)
  <1>1. ASSUME NEW a \in SpAxes
        PROVE  sp_position'[a] = b.start[a] + b.move[a]
    <2> DEFINE n == Events(b.move)
               steps == Magnitude(b.move[a])
               made == IF a \in Backwards(b.move)
                       THEN b.start[a] - sp_position'[a] ELSE sp_position'[a] - b.start[a]
    <2>1. /\ n \in Nat \ {0} /\ b.event_count = 8 * n /\ steps \in Nat
          /\ b.start[a] \in Int /\ b.move[a] \in Int /\ sp_position'[a] \in Int
      BY BlockFacts
    <2>2. made \in Int
      BY <2>1
    <2>3. /\ sp_st'.counter[a] \in 0..(8 * n)
          /\ sp_st'.counter[a] + made * (8 * n) + steps * 0 = (8 * n) \div 2 + steps * (8 * n)
      BY <2>1 DEF Ledger, Made
    <2>4. made = steps
      <3> HIDE DEF n, steps, made
      <3> QED
        BY <2>1, <2>2, <2>3, LedgerClosed
    <2> QED
      BY <2>1, <2>4 DEF Backwards, Magnitude
  <1> QED
    BY <1>1 DEF EndOfMove

LEMMA TickKeepsMoves ==
  ASSUME MovesInv, Tick
  PROVE  MovesInv'
  <1> DEFINE q == sp_segments
  <1>1. /\ q # <<>> /\ q \in Seq(Segments)
        /\ UNCHANGED <<sp_setup, spPrep, spDriver, sp_lock, sp_killed, sp_kills>>
        /\ sp_moves \in Nat /\ sp_remaining \in Nat /\ sp_block \in Blocks \cup {NoMove}
    BY DEF MovesInv, SpTypeOK, Tick
  <1>2. PICK segment \in Segments : segment = Head(q) /\ segment = q[1]
    BY <1>1, FirstSegment
  <1> DEFINE b == segment.block
  <1>3. /\ sp_st'.count \in Nat /\ sp_st'.block = b
        /\ sp_position' \in [SpAxes -> Int] /\ sp_st'.counter \in [SpAxes -> Int]
        /\ Ledger(8 * segment.to + sp_st.count * Eighths(segment.level))'
    BY <1>2, LedgerAfter
  <1>4. sp_segments' = IF sp_st'.count = 0 THEN Tail(q) ELSE q
    BY <1>2, TickMeans
  <1>5. /\ b \in Blocks /\ segment.to \in Nat /\ segment.to < segment.from
        /\ b.id <= sp_moves /\ b.id \in Nat
    BY <1>1, <1>2, SegmentFacts, BlockFacts, FirstSegment DEF MovesInv, QueueInv
  <1>6. /\ Len(q) \in Nat \ {0} /\ Tail(q) \in Seq(Segments) /\ Len(Tail(q)) = Len(q) - 1
        /\ \A i \in 1..Len(Tail(q)) : Tail(q)[i] = q[i + 1]
        /\ Tail(q) = <<>> => Len(q) = 1
    BY <1>1, FirstSegment
  <1>7. SpTypeOK'
    <2>1. sp_setup \in SpSetups /\ sp_setup.dir \subseteq SpAxes /\ sp_setup.step \subseteq SpAxes
      BY SteppingAssumption DEF MovesInv, SpTypeOK
    <2>2. sp_st' \in [count : Nat, block : Blocks \cup {NoMove}, counter : [SpAxes -> Int],
                      outbits : SUBSET SpAxes, dirs : SUBSET SpAxes]
      <3>1. /\ sp_st' = [count |-> sp_st'.count, block |-> sp_st'.block,
                         counter |-> sp_st'.counter, outbits |-> sp_st'.outbits,
                         dirs |-> sp_st'.dirs]
            /\ sp_st'.outbits = Flipped(IF sp_setup.homing THEN Stepping(segment) \cap sp_lock
                                        ELSE Stepping(segment), sp_setup.step)
            /\ sp_st'.dirs = Flipped(Backwards(b.move), sp_setup.dir)
        BY <1>2 DEF Tick
      <3>2. sp_st'.outbits \subseteq SpAxes
        BY <2>1, <3>1 DEF Flipped, Stepping
      <3>3. sp_st'.dirs \subseteq SpAxes
        BY <2>1, <3>1 DEF Flipped, Backwards
      <3> QED
        BY <1>3, <1>5, <3>1, <3>2, <3>3
    <2>3. sp_segments' \in Seq(Segments)
      BY <1>1, <1>4, <1>6
    <2>4. sp_pins' \subseteq SpAxes /\ sp_motor' \in [SpAxes -> Int]
      BY DEF Tick, SetPins, Way, MovesInv, SpTypeOK
    <2> QED
      BY <1>1, <1>3, <2>2, <2>3, <2>4 DEF MovesInv, SpTypeOK, spPrep, spDriver
  <1>8. QueueInv' /\ PreparedInv'
    <2>1. CASE sp_st'.count # 0
      BY <1>1, <1>4, <2>1 DEF MovesInv, QueueInv, PreparedInv, Continues, EndOfMove, spPrep
    <2>2. CASE sp_st'.count = 0
      <3>1. sp_segments' = Tail(q)
        BY <1>4, <2>2
      <3>2. QueueInv'
        <4>1. \A i \in 1..Len(Tail(q)) : i + 1 \in 1..Len(q)
          BY <1>6
        <4>2. \A i \in 1..(Len(Tail(q)) - 1) :
                /\ i + 1 \in 1..(Len(q) - 1)
                /\ Tail(q)[i] = q[i + 1] /\ Tail(q)[i + 1] = q[(i + 1) + 1]
          BY <1>6
        <4>3. \A i \in 1..Len(Tail(q)) :
                LET s == Tail(q)[i]
                IN s.to < s.from /\ s.from <= Events(s.block.move) /\ s.block.id <= sp_moves
          BY <1>6, <4>1 DEF MovesInv, QueueInv
        <4>4. \A i \in 1..(Len(Tail(q)) - 1) :
                Continues(Tail(q)[i].block, Tail(q)[i].to,
                          Tail(q)[i + 1].block, Tail(q)[i + 1].from)
          BY <4>2 DEF MovesInv, QueueInv
        <4>5. sp_moves' = sp_moves
          BY <1>1 DEF spPrep
        <4> QED
          BY <3>1, <4>3, <4>4, <4>5 DEF QueueInv, Continues, EndOfMove
      <3>3. PreparedInv'
        <4>1. Tail(q) # <<>> => Tail(q)[Len(Tail(q))] = q[Len(q)]
          BY <1>6
        <4> QED
          BY <1>1, <3>1, <4>1 DEF MovesInv, PreparedInv, Continues, EndOfMove, spPrep
      <3> QED
        BY <3>2, <3>3
    <2> QED
      BY <2>1, <2>2
  <1>9. ExecutedInv'
    <2>1. sp_st'.block.id <= sp_moves'
      BY <1>1, <1>3, <1>5 DEF spPrep
    <2>2. CASE sp_st'.count # 0
      <3>1. sp_segments' = q /\ sp_st'.count > 0
        BY <1>3, <1>4, <2>2
      <3> QED
        BY <1>1, <1>2, <1>3, <2>1, <3>1 DEF ExecutedInv
    <2>3. CASE sp_st'.count = 0
      <3>1. sp_segments' = Tail(q)
        BY <1>4, <2>3
      <3>2. Ledger(8 * segment.to)'
        <4>1. 8 * segment.to + sp_st'.count * Eighths(segment.level) = 8 * segment.to
          <5>1. Eighths(segment.level) \in Int
            BY SegmentFacts, FactorValues
          <5> QED
            BY <1>5, <2>3, <5>1
        <4> QED
          BY <1>3, <4>1 DEF Ledger
      <3>3. segment.to = 0 => Finished' /\ sp_position' = EndOfMove(b)
        <4>1. segment.to = 0 => Ledger(0)'
          BY <3>2 DEF Ledger
        <4>2. segment.to = 0 => sp_position' = EndOfMove(b)
          BY <1>3, <1>5, <4>1, LedgerMeansArrived
        <4> QED
          BY <1>3, <4>2 DEF Finished, EndOfMove
      <3>4. ASSUME NEW next \in Blocks, NEW from \in Nat \ {0},
                   Continues(b, segment.to, next, from)
            PROVE  Reaches(next, from)'
        <4>1. CASE next = b /\ from = segment.to
          BY <1>3, <3>2, <4>1 DEF Reaches
        <4>2. CASE /\ segment.to = 0 /\ next.id > b.id /\ next.start = EndOfMove(b)
                   /\ from = Events(next.move)
          <5>1. next.id # sp_st'.block.id
            BY <1>3, <1>5, <4>2, BlockFacts
          <5> QED
            BY <3>3, <4>2, <5>1 DEF Reaches
        <4> QED
          BY <3>4, <4>1, <4>2 DEF Continues
      <3>5. CASE Tail(q) # <<>>
        <4>1. /\ Tail(q)[1] = q[2] /\ 1 \in 1..(Len(q) - 1) /\ 2 \in 1..Len(q)
              /\ q[2] \in Segments
          BY <1>1, <1>6, <3>5
        <4>2. Continues(b, segment.to, q[2].block, q[2].from)
          BY <1>2, <4>1 DEF MovesInv, QueueInv
        <4>3. q[2].block \in Blocks /\ q[2].from \in Nat \ {0}
          BY <4>1, SegmentFacts DEF MovesInv, QueueInv
        <4>4. PICK next \in Segments : next = q[2]
          BY <4>1
        <4>5. Reaches(next.block, next.from)'
          BY <3>4, <4>2, <4>3, <4>4
        <4>6. sp_segments'[1] = next
          BY <3>1, <4>1, <4>4
        <4> QED
          BY <2>1, <2>3, <3>1, <3>5, <4>5, <4>6 DEF ExecutedInv, Reaches
      <3>6. CASE Tail(q) = <<>>
        <4>1. q[Len(q)] = segment
          BY <1>2, <1>6, <3>6
        <4>2. CASE sp_block = NoMove
          <5>1. segment.to = 0 /\ sp_target = EndOfMove(b)
            BY <1>1, <4>1, <4>2 DEF MovesInv, PreparedInv
          <5> QED
            BY <1>1, <2>1, <2>3, <3>1, <3>3, <3>6, <4>2, <5>1 DEF ExecutedInv, spPrep
        <4>3. CASE sp_block # NoMove
          <5>1. Continues(b, segment.to, sp_block, sp_remaining) /\ sp_remaining > 0
            BY <1>1, <4>1, <4>3 DEF MovesInv, PreparedInv
          <5>2. sp_block \in Blocks /\ sp_remaining \in Nat \ {0}
            BY <1>1, <4>3, <5>1
          <5>3. Reaches(sp_block, sp_remaining)'
            BY <1>1, <3>4, <5>1, <5>2 DEF Reaches, spPrep
          <5> QED
            BY <1>1, <2>1, <2>3, <3>1, <3>6, <4>3, <5>3 DEF ExecutedInv, spPrep
        <4> QED
          BY <4>2, <4>3
      <3> QED
        BY <3>5, <3>6
    <2> QED
      BY <2>2, <2>3
  <1> QED
    BY <1>7, <1>8, <1>9 DEF MovesInv

-----------------------------------------------------------------------------
(* The pulses.                                                             *)

LEMMA FlippedTwice ==
  ASSUME NEW S, NEW inverted
  PROVE  Flipped(Flipped(S, inverted), inverted) = S
  BY DEF Flipped

LEMMA InitPulses == SpInit => PulsesInv
  BY SteppingAssumption
  DEF SpInit, PulsesInv, PulsesAsCounted, PulsesNeedDrivers, KilledIsOff

\* The pulse of an axis that the next interrupt will make.
Due(a) ==
  IF sp_timer /\ a \in Flipped(sp_st.outbits, sp_setup.step)
  THEN Way(Flipped(sp_st.dirs, sp_setup.dir), a) ELSE 0

LEMMA PulsesAre ==
  PulsesAsCounted <=>
    \A a \in sp_lock : IF sp_killed THEN sp_position[a] - sp_motor[a] \in -1..1
                       ELSE sp_position[a] = sp_motor[a] + Due(a)
  BY DEF PulsesAsCounted, Due

LEMMA SetupType ==
  ASSUME SpTypeOK
  PROVE  /\ sp_setup.step \subseteq SpAxes /\ sp_setup.dir \subseteq SpAxes
         /\ sp_setup.locks \in BOOLEAN /\ sp_setup.homing \in BOOLEAN
         /\ \A a \in sp_lock : a \in SpAxes /\ sp_position[a] \in Int /\ sp_motor[a] \in Int
                               /\ Due(a) \in -1..1
  BY SteppingAssumption DEF SpTypeOK, Due, Way

LEMMA TickKeepsPulses ==
  ASSUME SpTypeOK, PulsesInv, Tick
  PROVE  PulsesInv'
  <1>1. PICK segment : segment = Head(sp_segments)
    OBVIOUS
  <1>2. /\ sp_timer /\ sp_timer' = sp_timer /\ sp_enabled' = sp_enabled
        /\ sp_killed' = sp_killed /\ sp_lock' = sp_lock /\ sp_setup' = sp_setup
    BY DEF Tick, spDriver
  <1>3. ~sp_killed
    BY <1>2 DEF PulsesInv, KilledIsOff
  <1>4. ASSUME NEW a \in sp_lock
        PROVE  sp_position'[a] = sp_motor'[a] + Due(a)'
    <2> DEFINE back == Backwards(segment.block.move)
    <2>1. a \in SpAxes /\ sp_position[a] \in Int /\ sp_motor[a] \in Int
      BY SetupType
    <2>2. sp_motor'[a] = sp_position[a]
      <3>1. sp_motor'[a] = sp_motor[a] + Due(a)
        BY <1>2, <2>1 DEF Tick, SetPins, Due
      <3> QED
        BY <1>3, <3>1, PulsesAre DEF PulsesInv
    <2>3. sp_position'[a] = sp_position[a] + (IF a \in Stepping(segment) THEN Way(back, a) ELSE 0)
      BY <1>1, <2>1, TickMeans
    <2>4. /\ sp_st'.outbits = Flipped(IF sp_setup.homing THEN Stepping(segment) \cap sp_lock
                                      ELSE Stepping(segment), sp_setup.step)
          /\ sp_st'.dirs = Flipped(back, sp_setup.dir)
      BY <1>1 DEF Tick
    <2>5. /\ a \in Flipped(sp_st'.outbits, sp_setup.step) <=> a \in Stepping(segment)
          /\ Flipped(sp_st'.dirs, sp_setup.dir) = back
      BY <2>4, FlippedTwice
    <2>6. Due(a)' = IF a \in Stepping(segment) THEN Way(back, a) ELSE 0
      BY <1>2, <2>5 DEF Due, Way, Flipped
    <2> QED
      BY <2>2, <2>3, <2>6
  <1>5. PulsesAsCounted'
    BY <1>2, <1>3, <1>4 DEF PulsesAsCounted, Due
  <1> QED
    BY <1>2, <1>5 DEF PulsesInv, PulsesNeedDrivers, KilledIsOff

LEMMA LastTickKeepsPulses ==
  ASSUME SpTypeOK, PulsesInv, TickWithoutSegment
  PROVE  PulsesInv'
  <1>1. /\ sp_timer /\ sp_timer' = FALSE /\ sp_killed' = sp_killed /\ sp_lock' = sp_lock
        /\ sp_position' = sp_position
    BY DEF TickWithoutSegment, GoIdle, spIsr
  <1>2. ~sp_killed
    BY <1>1 DEF PulsesInv, KilledIsOff
  <1>3. ASSUME NEW a \in sp_lock
        PROVE  sp_motor'[a] = sp_position[a] /\ sp_position[a] \in Int
    <2>1. a \in SpAxes /\ sp_position[a] \in Int /\ sp_motor[a] \in Int
      BY SetupType
    <2>2. sp_motor'[a] = sp_motor[a] + Due(a)
      BY <1>1, <2>1 DEF TickWithoutSegment, SetPins, Due
    <2> QED
      BY <1>2, <2>1, <2>2, PulsesAre DEF PulsesInv
  <1>4. PulsesAsCounted'
    BY <1>1, <1>2, <1>3 DEF PulsesAsCounted
  <1> QED
    BY <1>1, <1>2, <1>4 DEF PulsesInv, PulsesNeedDrivers, KilledIsOff

LEMMA StepKeepsPulses ==
  ASSUME SpTypeOK, PulsesInv, SpNext
  PROVE  PulsesInv'
  <1> USE DEF PulsesInv, PulsesNeedDrivers, KilledIsOff
  <1>1. ASSUME UNCHANGED <<sp_setup, sp_lock, sp_position, sp_motor, sp_st, sp_killed, spDriver>>
        PROVE  PulsesInv'
    BY <1>1 DEF PulsesAsCounted, spDriver
  <1>2. CASE \E move \in SpMoves : LoadMove(move)
    BY <1>1, <1>2 DEF LoadMove, spIsr, spPins
  <1>3. CASE \E to \in 0..sp_remaining, level \in 0..MAX_AMASS_LEVEL : PrepareSegment(to, level)
    BY <1>1, <1>3 DEF PrepareSegment, spIsr, spPins
  <1>4. CASE WakeUp
    <2>1. /\ ~sp_timer /\ ~sp_killed /\ sp_timer' = TRUE /\ sp_enabled' = TRUE
          /\ sp_killed' = sp_killed /\ sp_lock' = sp_lock /\ sp_position' = sp_position
          /\ sp_motor' = sp_motor /\ sp_setup' = sp_setup
      BY <1>4 DEF WakeUp, spPins
    <2>2. sp_st'.outbits = sp_setup.step
      BY <1>4 DEF WakeUp, OutbitsAtWakeUp, NoPulse, SpTypeOK
    <2>3. \A a \in sp_lock : a \notin Flipped(sp_st'.outbits, sp_setup'.step)
      BY <2>1, <2>2 DEF Flipped
    <2>4. PulsesAsCounted'
      BY <2>1, <2>3 DEF PulsesAsCounted, Flipped
    <2> QED
      BY <2>1, <2>4
  <1>5. CASE Kill
    <2>1. /\ ~sp_timer' /\ sp_killed' /\ sp_lock' = sp_lock /\ sp_position' = sp_position
          /\ sp_motor' = sp_motor /\ sp_timer
      BY <1>5 DEF Kill, GoIdle, spIsr, spPins
    <2>2. ASSUME NEW a \in sp_lock PROVE sp_position[a] - sp_motor[a] \in -1..1
      BY <2>1, SetupType, PulsesAre
    <2> QED
      BY <2>1, <2>2 DEF PulsesAsCounted
  <1>6. CASE Restart
    <2>1. /\ ~sp_timer' /\ ~sp_killed' /\ sp_lock' = sp_lock /\ sp_position' = sp_position
          /\ sp_motor' = sp_position
      BY <1>6 DEF Restart, GoIdle
    <2> QED
      BY <2>1, SetupType DEF PulsesAsCounted
  <1>7. CASE Tick
    BY <1>7, TickKeepsPulses
  <1>8. CASE TickWithoutSegment
    BY <1>8, LastTickKeepsPulses
  <1>9. CASE PulseEnds
    BY <1>1, <1>9 DEF PulseEnds, spIsr
  <1>10. CASE \E a \in SpAxes : LockAxis(a)
    <2>1. /\ sp_lock' \subseteq sp_lock
          /\ UNCHANGED <<sp_setup, sp_position, sp_motor, sp_st, sp_killed, sp_timer, sp_enabled>>
      BY <1>10 DEF LockAxis, spIsr, spDriver, spPins
    <2> QED
      BY <2>1 DEF PulsesAsCounted
  <1> QED
    BY <1>2, <1>3, <1>4, <1>5, <1>6, <1>7, <1>8, <1>9, <1>10 DEF SpNext

-----------------------------------------------------------------------------
(* The theorem.                                                            *)

LEMMA StepKeepsMoves ==
  ASSUME MovesInv, SpNext
  PROVE  MovesInv'
  <1>1. CASE \E move \in SpMoves : LoadMove(move)
    BY <1>1, LoadKeepsMoves
  <1>2. CASE \E to \in 0..sp_remaining, level \in 0..MAX_AMASS_LEVEL : PrepareSegment(to, level)
    BY <1>2, PrepareKeepsMoves
  <1>3. CASE WakeUp
    <2>1. sp_setup.step \subseteq SpAxes
      BY SetupType DEF MovesInv
    <2>2. SpTypeOK'
      BY <1>3, <2>1 DEF WakeUp, OutbitsAtWakeUp, NoPulse, MovesInv, SpTypeOK, spPrep, spPins
    <2> QED
      BY <1>3, <2>2, MovesUnchanged DEF WakeUp, MovesInv, SpTypeOK
  <1>4. CASE Kill
    <2>1. sp_timer' = FALSE /\ sp_enabled' \in BOOLEAN /\ sp_killed' = TRUE
      BY <1>4 DEF Kill, GoIdle
    <2>2. sp_kills' \in Nat
      BY <1>4 DEF Kill, MovesInv, SpTypeOK
    <2>3. UNCHANGED <<sp_setup, sp_lock, spPrep, sp_segments, sp_st, sp_position, sp_pins, sp_motor>>
      BY <1>4 DEF Kill, spIsr, spPins
    <2>4. SpTypeOK'
      BY <2>1, <2>2, <2>3 DEF MovesInv, SpTypeOK, spPrep
    <2> QED
      BY <2>3, <2>4, MovesUnchanged
  <1>5. CASE Restart
    BY <1>5, RestartKeepsMoves
  <1>6. CASE Tick
    BY <1>6, TickKeepsMoves
  <1>7. CASE TickWithoutSegment
    <2>1. sp_pins' \subseteq SpAxes /\ sp_motor' \in [SpAxes -> Int]
      BY <1>7 DEF TickWithoutSegment, SetPins, Way, MovesInv, SpTypeOK
    <2>2. sp_timer' = FALSE /\ sp_enabled' \in BOOLEAN
      BY <1>7 DEF TickWithoutSegment, GoIdle
    <2>3. SpTypeOK'
      BY <1>7, <2>1, <2>2 DEF TickWithoutSegment, MovesInv, SpTypeOK, spPrep, spIsr
    <2> QED
      BY <1>7, <2>3, MovesUnchanged DEF TickWithoutSegment, spIsr
  <1>8. CASE PulseEnds
    <2>1. SpTypeOK'
      BY <1>8, SetupType
      DEF PulseEnds, NoPulse, MovesInv, SpTypeOK, spPrep, spIsr, spDriver
    <2> QED
      BY <1>8, <2>1, MovesUnchanged DEF PulseEnds, spIsr
  <1>9. CASE \E a \in SpAxes : LockAxis(a)
    <2>1. SpTypeOK'
      BY <1>9 DEF LockAxis, MovesInv, SpTypeOK, spPrep, spIsr, spDriver, spPins
    <2> QED
      BY <1>9, <2>1, MovesUnchanged DEF LockAxis, spIsr
  <1> QED
    BY <1>1, <1>2, <1>3, <1>4, <1>5, <1>6, <1>7, <1>8, <1>9 DEF SpNext

\* What the inductive invariant says of a block that is over, and of rest.
LEMMA MovesAreExact ==
  ASSUME MovesInv
  PROVE  StepsExact /\ RestsOnTarget
  <1>1. BlockIsOver => Finished
    BY DEF BlockIsOver, MovesInv, ExecutedInv, Reaches
  <1>2. StepsExact
    BY <1>1 DEF StepsExact, BlockIsOver, Finished, EndOfMove
  <1>3. RestsOnTarget
    BY DEF RestsOnTarget, MovesInv, ExecutedInv, SpTypeOK
  <1> QED
    BY <1>2, <1>3

\* Every move makes exactly its steps on every axis, whatever segments it was cut into
\* and at whatever level they ran; at rest the machine is where the planner thinks; each
\* counted step of an axis that is not locked is one pulse in its direction; and there
\* are no pulses without drivers (st_prep_buffer(), the stepper driver interrupt).
THEOREM SteppingIsExact == SpSpec => []SpInv
  <1> DEFINE Inv == MovesInv /\ PulsesInv
  <1>1. SpInit => Inv
    BY InitMoves, InitPulses
  <1>2. Inv /\ [SpNext]_spVars => Inv'
    <2> SUFFICES ASSUME Inv, [SpNext]_spVars PROVE Inv'
      OBVIOUS
    <2>1. CASE SpNext
      BY <2>1, StepKeepsMoves, StepKeepsPulses DEF MovesInv
    <2>2. CASE UNCHANGED spVars
      <3>1. SpTypeOK'
        BY <2>2 DEF spVars, spSetup, spPrep, spPins, spIsr, spDriver, MovesInv, SpTypeOK
      <3>2. MovesInv'
        BY <2>2, <3>1, MovesUnchanged DEF spVars, spSetup, spIsr
      <3>3. PulsesInv'
        BY <2>2 DEF spVars, spSetup, spPins, spIsr, spDriver, PulsesInv, PulsesAsCounted,
                    PulsesNeedDrivers, KilledIsOff
      <3> QED
        BY <3>2, <3>3
    <2> QED
      BY <2>1, <2>2
  <1>3. Inv => SpInv
    BY MovesAreExact DEF SpInv
  <1> QED
    BY <1>1, <1>2, <1>3, PTL DEF SpSpec

-----------------------------------------------------------------------------
(***************************************************************************)
(* The plan of the speeds.                                                 *)
(***************************************************************************)

\* A set of numbers has a least one.
LEMMA LeastOf ==
  ASSUME NEW S, S \subseteq Nat, S # {}
  PROVE  \E x \in S : \A y \in S : x <= y
  <1> DEFINE R == {p \in Nat \X Nat : p[1] < p[2]}
  <1>1. IsWellFoundedOn(R, Nat)
    BY NatLessThanWellFounded DEF OpToRel
  <1>2. \A x, y \in Nat : x < y => <<x, y>> \in R
    OBVIOUS
  <1> HIDE DEF R
  <1>3. \E x \in S : \A y \in S : ~(<<y, x>> \in R)
    BY <1>1, WFMin
  <1>4. ASSUME NEW x \in S, NEW y \in S, ~(<<y, x>> \in R) PROVE x <= y
    BY <1>2, <1>4
  <1> QED
    BY <1>3, <1>4

-----------------------------------------------------------------------------
(* The two passes, as functions of the entry speeds.                       *)

\* The fields of a block in a queue.
LEMMA BlockFields ==
  ASSUME NEW q \in Seq(Block), NEW i \in 1 .. Len(q)
  PROVE  /\ q[i] \in Block /\ q[i].length \in Nat \ {0} /\ q[i].max \in Nat /\ q[i].entry \in Nat
         /\ q[i].junction \in Nat /\ q[i].rate \in DOMAIN Nominal
  <1>1. q[i] \in Block
    OBVIOUS
  <1> QED
    BY <1>1 DEF Block

\* The equations of the reverse pass from the last block down to the block m.
SlowsDown(q, m, e) ==
  /\ e \in [m .. Len(q) -> Nat]
  /\ \A i \in m .. Len(q) :
       e[i] = IF i = Len(q) THEN PnMin(q[i].max, q[i].length)
              ELSE IF q[i].entry = q[i].max THEN q[i].max
              ELSE PnMin(q[i].max, e[i + 1] + q[i].length)

\* They have a solution, counted down from the last block.
LEMMA SlowsDownExists ==
  ASSUME NEW q \in Seq(Block), NEW m \in 1 .. Len(q)
  PROVE  \E e : SlowsDown(q, m, e)
  <1> DEFINE n == Len(q)
             Bad == {k \in Nat : n - k \in 1 .. n /\ ~ \E e : SlowsDown(q, n - k, e)}
  <1>1. n \in Nat
    OBVIOUS
  <1>2. ASSUME Bad # {} PROVE FALSE
    <2>1. PICK k \in Bad : \A j \in Bad : k <= j
      BY <1>2, LeastOf
    <2>2. CASE k = 0
      <3> DEFINE e == [i \in n .. n |-> PnMin(q[i].max, q[i].length)]
      <3>1. n \in 1 .. n
        BY <2>1, <2>2, <1>1
      <3>2. q[n].max \in Nat /\ q[n].length \in Nat
        BY <3>1, BlockFields
      <3>3. SlowsDown(q, n, e)
        BY <3>1, <3>2 DEF SlowsDown, PnMin
      <3> QED
        BY <2>1, <2>2, <3>3, <1>1
    <2>3. CASE k > 0
      <3>1. k \in Nat /\ n - k \in 1 .. n /\ n - (k - 1) \in 1 .. n /\ k - 1 \in Nat
        BY <2>1, <2>3, <1>1
      <3>2. k - 1 \notin Bad
        <4> HIDE DEF Bad
        <4> QED
          BY <2>1, <3>1
      <3>3. PICK e : SlowsDown(q, n - (k - 1), e)
        BY <3>1, <3>2
      <3> DEFINE m0 == n - k
                 b == q[m0]
                 f == [i \in m0 .. n |->
                         IF i = m0 THEN IF b.entry = b.max THEN b.max ELSE PnMin(b.max, e[m0 + 1] + b.length)
                         ELSE e[i]]
      <3>4. m0 \in Nat /\ m0 + 1 = n - (k - 1) /\ m0 < n /\ m0 \in 1 .. n
        BY <3>1, <2>3, <1>1
      <3>5. b.max \in Nat /\ b.length \in Nat /\ b.entry \in Nat
        BY <3>1, BlockFields
      <3>6. e \in [m0 + 1 .. n -> Nat] /\ e[m0 + 1] \in Nat
        BY <3>3, <3>4, <1>1 DEF SlowsDown
      <3> HIDE DEF m0, b
      <3>7. f \in [m0 .. n -> Nat]
        BY <3>4, <3>5, <3>6, <1>1 DEF PnMin
      <3>8. ASSUME NEW i \in m0 .. n
            PROVE  f[i] = IF i = n THEN PnMin(q[i].max, q[i].length)
                          ELSE IF q[i].entry = q[i].max THEN q[i].max
                          ELSE PnMin(q[i].max, f[i + 1] + q[i].length)
        <4>1. CASE i = m0
          <5>1. f[i + 1] = e[m0 + 1] /\ i # n
            BY <4>1, <3>4, <1>1
          <5> QED
            BY <4>1, <5>1, <3>4 DEF b
        <4>2. CASE i # m0
          <5>1. i \in m0 + 1 .. n /\ f[i] = e[i] /\ (i # n => f[i + 1] = e[i + 1])
            BY <4>2, <3>4, <1>1
          <5>2. e[i] = IF i = n THEN PnMin(q[i].max, q[i].length)
                       ELSE IF q[i].entry = q[i].max THEN q[i].max
                       ELSE PnMin(q[i].max, e[i + 1] + q[i].length)
            BY <3>3, <3>4, <5>1 DEF SlowsDown
          <5> QED
            BY <5>1, <5>2
        <4> QED
          BY <4>1, <4>2
      <3>9. SlowsDown(q, m0, f)
        BY <3>7, <3>8 DEF SlowsDown
      <3> QED
        BY <3>9, <2>1 DEF m0
    <2> QED
      BY <2>1, <2>2, <2>3
  <1>3. n - m \in Nat /\ n - (n - m) = m
    BY <1>1
  <1>4. n - m \notin Bad
    BY <1>2
  <1> QED
    BY <1>3, <1>4

\* The reverse pass solves them.
LEMMA ReverseIs ==
  ASSUME NEW q \in Seq(Block), NEW p \in 1 .. Len(q), p < Len(q)
  PROVE  /\ SlowsDown(q, p + 1, [i \in p + 1 .. Len(q) |-> ReversePass(q, p)[i]])
         /\ ReversePass(q, p) \in [1 .. Len(q) -> Nat]
         /\ \A i \in 1 .. p : ReversePass(q, p)[i] = q[i].entry
  <1> DEFINE n == Len(q)
             body(i, x) == IF i = n THEN PnMin(q[n].max, q[n].length)
                           ELSE IF q[i].entry = q[i].max THEN q[i].max
                           ELSE PnMin(q[i].max, x + q[i].length)
             P(e) == e = [i \in p + 1 .. n |-> body(i, e[i + 1])]
             c == CHOOSE e : P(e)
  <1>1. n \in Nat /\ p + 1 \in 1 .. n
    OBVIOUS
  <1>2. PICK e : SlowsDown(q, p + 1, e)
    BY <1>1, SlowsDownExists
  <1>3. P(e)
    BY <1>2 DEF SlowsDown
  <1>4. P(c)
    BY <1>3
  <1>5. ReversePass(q, p) = [i \in 1 .. n |-> IF i <= p THEN q[i].entry ELSE c[i]]
    BY DEF ReversePass
  <1>6. \A i \in p + 1 .. n : c[i] = body(i, c[i + 1])
    BY <1>4
  <1> HIDE DEF c
  <1> DEFINE Bad == {k \in Nat : n - k \in p + 1 .. n /\ c[n - k] \notin Nat}
  <1>7. ASSUME Bad # {} PROVE FALSE
    <2>1. PICK k \in Bad : \A j \in Bad : k <= j
      BY <1>7, LeastOf
    <2> DEFINE i == n - k
    <2>2. i \in p + 1 .. n /\ i \in 1 .. n /\ c[i] \notin Nat /\ k \in Nat
      BY <2>1, <1>1
    <2>3. i # n => c[i + 1] \in Nat
      <3> SUFFICES ASSUME i # n, c[i + 1] \notin Nat PROVE FALSE
        OBVIOUS
      <3>1. k - 1 \in Nat /\ n - (k - 1) = i + 1 /\ i + 1 \in p + 1 .. n
        BY <2>2, <1>1
      <3>2. k - 1 \in Bad
        BY <3>1
      <3> HIDE DEF Bad
      <3> QED
        BY <3>2, <2>1, <2>2
    <2> HIDE DEF i
    <2>4. q[i].max \in Nat /\ q[i].length \in Nat /\ q[n].max \in Nat /\ q[n].length \in Nat
      BY <2>2, <1>1, BlockFields
    <2>5. c[i] = body(i, c[i + 1])
      BY <2>2, <1>6
    <2>6. \A a, b \in Nat : PnMin(a, b) \in Nat
      BY DEF PnMin
    <2>7. CASE i = n
      BY <2>2, <2>4, <2>5, <2>6, <2>7
    <2>8. CASE i # n
      <3>1. c[i + 1] + q[i].length \in Nat
        BY <2>3, <2>4, <2>8
      <3> QED
        BY <2>2, <2>4, <2>5, <2>6, <2>8, <3>1
    <2> QED
      BY <2>7, <2>8
  <1>8. \A i \in p + 1 .. n : c[i] \in Nat
    <2> SUFFICES ASSUME NEW i \in p + 1 .. n PROVE c[i] \in Nat
      OBVIOUS
    <2>1. n - i \in Nat /\ n - (n - i) = i
      BY <1>1
    <2> QED
      BY <2>1, <1>7
  <1>9. \A i \in p + 1 .. n : ReversePass(q, p)[i] = c[i]
    BY <1>5, <1>1
  <1>10. \A i \in 1 .. p : ReversePass(q, p)[i] = q[i].entry /\ q[i].entry \in Nat
    <2> SUFFICES ASSUME NEW i \in 1 .. p PROVE ReversePass(q, p)[i] = q[i].entry /\ q[i].entry \in Nat
      OBVIOUS
    <2>1. i \in 1 .. n /\ i <= p
      BY <1>1
    <2> QED
      BY <1>5, <2>1, BlockFields
  <1>11. ReversePass(q, p) \in [1 .. n -> Nat]
    <2>1. ASSUME NEW i \in 1 .. n PROVE ReversePass(q, p)[i] \in Nat
      <3>1. CASE i <= p
        BY <3>1, <1>10
      <3>2. CASE ~(i <= p)
        <4>1. i \in p + 1 .. n
          BY <3>2, <1>1
        <4> QED
          BY <4>1, <1>8, <1>9
      <3> QED
        BY <3>1, <3>2
    <2> QED
      BY <2>1, <1>5
  <1> DEFINE r == [i \in p + 1 .. n |-> ReversePass(q, p)[i]]
  <1>12. \A i \in p + 1 .. n : r[i] = c[i] /\ (i # n => r[i + 1] = c[i + 1])
    BY <1>1, <1>9
  <1>13. r \in [p + 1 .. n -> Nat]
    BY <1>8, <1>9
  <1> HIDE DEF r
  <1>14. SlowsDown(q, p + 1, r)
    BY <1>6, <1>12, <1>13 DEF SlowsDown
  <1> QED
    BY <1>10, <1>11, <1>14 DEF r

\* A recursive definition over a..b, from v with the steps g, has a value.
HasRecursion(a, b, V, v, g) ==
  \E e \in [a .. b -> V] : e[a] = v /\ \A i \in a + 1 .. b : e[i] = g[i][e[i - 1]]

\* By well-founded induction: before the least index without a value there is one.
LEMMA RecursionExists ==
  ASSUME NEW a \in Nat, NEW b \in Nat, a <= b, NEW V, NEW v \in V,
         NEW g \in [a .. b -> [V -> V]]
  PROVE  HasRecursion(a, b, V, v, g)
  <1> DEFINE Upto(m) == \E e \in [a .. m -> V] :
                          e[a] = v /\ \A i \in a + 1 .. m : e[i] = g[i][e[i - 1]]
             Bad == {m \in Nat : m \in a .. b /\ ~Upto(m)}
  <1>1. Upto(a)
    <2> DEFINE e == [i \in a .. a |-> v]
    <2>1. e \in [a .. a -> V] /\ e[a] = v /\ a + 1 .. a = {}
      OBVIOUS
    <2> QED
      BY <2>1
  <1>2. ASSUME NEW m \in a .. b, m < b, Upto(m) PROVE Upto(m + 1)
    <2>1. PICK e \in [a .. m -> V] :
            e[a] = v /\ \A i \in a + 1 .. m : e[i] = g[i][e[i - 1]]
      BY <1>2
    <2> DEFINE f == [i \in a .. m + 1 |-> IF i = m + 1 THEN g[m + 1][e[m]] ELSE e[i]]
    <2>2. m \in Nat /\ m + 1 \in a .. b /\ m \in a .. m /\ a # m + 1 /\ a \in a .. m + 1
      BY <1>2
    <2>3. g[m + 1][e[m]] \in V
      BY <2>2
    <2>4. f \in [a .. m + 1 -> V]
      BY <2>2, <2>3
    <2>5. f[a] = v
      BY <2>1, <2>2
    <2>6. ASSUME NEW i \in a + 1 .. m + 1 PROVE f[i] = g[i][f[i - 1]]
      <3>1. i - 1 # m + 1 /\ i - 1 \in a .. m + 1 /\ i \in a .. m + 1 /\ f[i - 1] = e[i - 1]
        BY <2>2
      <3>2. CASE i = m + 1
        <4>1. i - 1 = m
          BY <3>2, <2>2
        <4> QED
          BY <3>1, <3>2, <4>1
      <3>3. CASE i # m + 1
        <4>1. i \in a + 1 .. m
          BY <3>3, <2>2
        <4> QED
          BY <2>1, <3>1, <3>3, <4>1
      <3> QED
        BY <3>2, <3>3
    <2> HIDE DEF f
    <2> QED
      BY <2>4, <2>5, <2>6
  <1> HIDE DEF Upto
  <1>3. ASSUME Bad # {} PROVE FALSE
    <2>1. PICK m \in Bad : \A j \in Bad : m <= j
      BY <1>3, LeastOf
    <2>2. m \in Nat /\ m \in a .. b /\ ~Upto(m) /\ m # a
      BY <2>1, <1>1
    <2>3. m - 1 \in Nat /\ m - 1 \in a .. b /\ m - 1 < b /\ (m - 1) + 1 = m /\ ~(m <= m - 1)
      BY <2>2
    <2>4. Upto(m - 1)
      BY <2>1, <2>3
    <2> QED
      BY <1>2, <2>2, <2>3, <2>4
  <1>4. b \notin Bad /\ b \in a .. b
    BY <1>3
  <1> QED
    BY <1>4 DEF Upto, HasRecursion

\* And whatever satisfies it takes its values where the step does.
LEMMA RecursionTyped ==
  ASSUME NEW a \in Nat, NEW b \in Nat, NEW V, NEW f,
         \A i \in a .. b : (i > a => f[i - 1] \in V) => f[i] \in V
  PROVE  \A i \in a .. b : f[i] \in V
  <1> DEFINE Bad == {i \in Nat : i \in a .. b /\ f[i] \notin V}
  <1>1. ASSUME Bad # {} PROVE FALSE
    <2>1. PICK i \in Bad : \A j \in Bad : i <= j
      BY <1>1, LeastOf
    <2>2. i \in Nat /\ i \in a .. b /\ f[i] \notin V
      BY <2>1
    <2>3. i > a => i - 1 \in Nat /\ i - 1 \in a .. b /\ ~(i <= i - 1)
      BY <2>2
    <2>4. i > a => f[i - 1] \in V
      BY <2>1, <2>3
    <2> QED
      BY <2>2, <2>4
  <1> QED
    BY <1>1

\* What the forward pass computes for the planned block and for each after it.
LEMMA ForwardIs ==
  ASSUME NEW q \in Seq(Block), NEW p \in 1 .. Len(q), NEW r \in [1 .. Len(q) -> Nat]
  PROVE  LET e == Forward(q, r, p)
         IN  /\ e \in [1 .. Len(q) -> Nat]
             /\ \A i \in 1 .. p : e[i] = r[i]
             /\ \A i \in p + 1 .. Len(q) : e[i] = PnMin(e[i - 1] + q[i - 1].length, r[i])
  <1> DEFINE n == Len(q)
             g == [i \in p .. n |-> [x \in Nat |->
                     IF i = p THEN 0 ELSE PnMin(x + q[i - 1].length, r[i])]]
             body(i, x) == LET reached == x + q[i - 1].length
                           IN  IF reached < r[i] THEN reached ELSE r[i]
             P(e) == e = [i \in p .. n |-> IF i = p THEN r[i] ELSE body(i, e[i - 1])]
             c == CHOOSE e : P(e)
             e == Forward(q, r, p)
  <1>1. n \in Nat /\ p \in Nat /\ p <= n /\ p \in 1 .. n
    OBVIOUS
  <1>2. ASSUME NEW i \in p + 1 .. n
        PROVE  /\ q[i - 1].length \in Nat /\ r[i] \in Nat /\ i \in p .. n /\ i - 1 \in p .. n /\ i # p
               /\ i \in 1 .. n /\ i - 1 \in 1 .. n
    <2>1. i \in p .. n /\ i - 1 \in p .. n /\ i # p /\ i \in 1 .. n /\ i - 1 \in 1 .. n
      BY <1>1
    <2> QED
      BY <2>1, BlockFields
  <1>3. g \in [p .. n -> [Nat -> Nat]]
    <2>1. ASSUME NEW i \in p .. n, NEW x \in Nat, i # p
          PROVE  PnMin(x + q[i - 1].length, r[i]) \in Nat
      <3>1. i \in p + 1 .. n
        BY <1>1, <2>1
      <3> QED
        BY <1>2, <3>1 DEF PnMin
    <2> QED
      BY <2>1
  <1>4. PICK d \in [p .. n -> Nat] :
          d[p] = r[p] /\ \A i \in p + 1 .. n : d[i] = g[i][d[i - 1]]
    <2>1. r[p] \in Nat
      BY <1>1
    <2> HIDE DEF g, n
    <2>2. p \in Nat /\ n \in Nat /\ p <= n /\ r[p] \in Nat /\ g \in [p .. n -> [Nat -> Nat]]
      BY <1>1, <1>3, <2>1
    <2>3. HasRecursion(p, n, Nat, r[p], g)
      BY <2>2, RecursionExists
    <2> QED
      BY <2>3 DEF HasRecursion
  <1>5. P(d)
    <2>1. ASSUME NEW i \in p + 1 .. n PROVE d[i] = body(i, d[i - 1])
      <3>1. d[i] = PnMin(d[i - 1] + q[i - 1].length, r[i])
        BY <1>2, <1>4
      <3> QED
        BY <3>1 DEF PnMin
    <2>2. \A i \in p .. n : i = p \/ i \in p + 1 .. n
      BY <1>1
    <2> HIDE DEF body
    <2> QED
      BY <1>4, <2>1, <2>2
  <1>6. P(c)
    BY <1>5
  <1>7. e = [i \in 1 .. n |-> IF i < p THEN r[i] ELSE c[i]]
    BY DEF Forward
  <1> HIDE DEF c
  <1>8. c[p] = r[p] /\ \A i \in p + 1 .. n : c[i] = body(i, c[i - 1])
    <2> HIDE DEF body
    <2> QED
      BY <1>1, <1>2, <1>6
  <1>9. \A i \in p .. n : c[i] \in Nat
    <2>1. ASSUME NEW i \in p .. n, i > p => c[i - 1] \in Nat PROVE c[i] \in Nat
      <3>1. CASE i = p
        BY <1>1, <1>8, <3>1
      <3>2. CASE i # p
        <4>1. i \in p + 1 .. n /\ i > p
          BY <3>2, <1>1
        <4>2. c[i - 1] + q[i - 1].length \in Nat /\ r[i] \in Nat
          BY <1>2, <2>1, <4>1
        <4> QED
          BY <1>8, <4>1, <4>2
      <3> QED
        BY <3>1, <3>2
    <2> QED
      BY <1>1, <2>1, RecursionTyped
  <1> HIDE DEF e
  <1>10. \A i \in p .. n : e[i] = c[i]
    BY <1>1, <1>7
  <1>11. \A i \in 1 .. p : e[i] = r[i]
    BY <1>1, <1>7, <1>8
  <1>12. e \in [1 .. n -> Nat]
    <2>1. ASSUME NEW i \in 1 .. n PROVE e[i] \in Nat
      <3>1. i \in 1 .. p \/ i \in p .. n
        BY <1>1
      <3> QED
        BY <1>9, <1>10, <1>11, <3>1
    <2> QED
      BY <1>7, <2>1
  <1>13. ASSUME NEW i \in p + 1 .. n PROVE e[i] = PnMin(e[i - 1] + q[i - 1].length, r[i])
    <2>1. e[i] = c[i] /\ e[i - 1] = c[i - 1]
      BY <1>2, <1>10
    <2>2. c[i] = body(i, c[i - 1])
      BY <1>8
    <2> QED
      BY <2>1, <2>2 DEF PnMin
  <1> QED
    BY <1>11, <1>12, <1>13 DEF e

-----------------------------------------------------------------------------
(* The plan that the two passes make.                                      *)

\* What CanStop says of the block i.
LEMMA CanStopMeans ==
  ASSUME NEW q \in Seq(Block), NEW now, CanStop(q, now), NEW i \in 2 .. Len(q)
  PROVE  /\ q[i].entry <= q[i].max
         /\ q[i].entry <= (IF i = Len(q) THEN 0 ELSE q[i + 1].entry) + q[i].length
  <1>1. i \in 1 .. Len(q) /\ i # 1 /\ i > 1 /\ i <= Len(q) /\ i + 1 # 1 /\ (i + 1 <= Len(q) <=> i # Len(q))
    OBVIOUS
  <1> QED
    BY <1>1 DEF CanStop, EntryAt

\* What the reverse pass has found for the block i.
Reversed(q, r, i) ==
  LET after == (IF i = Len(q) THEN 0 ELSE r[i + 1]) + q[i].length
  IN  q[i].entry <= r[i] /\ r[i] <= q[i].max /\ r[i] <= after /\ r[i] \in {q[i].max, after}

\* The reverse pass raises no entry above its limits, and lowers none.
LEMMA ReverseBounds ==
  ASSUME NEW q \in Seq(Block), NEW p \in 1 .. Len(q), p < Len(q), NEW now, CanStop(q, now)
  PROVE  \A i \in p + 1 .. Len(q) : Reversed(q, ReversePass(q, p), i)
  <1> DEFINE n == Len(q)
             r == ReversePass(q, p)
             Bad == {k \in Nat : n - k \in p + 1 .. n /\ ~Reversed(q, r, n - k)}
  <1>1. n \in Nat /\ p \in Nat
    OBVIOUS
  <1>2. /\ r \in [1 .. n -> Nat]
        /\ \A i \in p + 1 .. n :
             r[i] = IF i = n THEN PnMin(q[i].max, q[i].length)
                    ELSE IF q[i].entry = q[i].max THEN q[i].max
                    ELSE PnMin(q[i].max, r[i + 1] + q[i].length)
    <2> DEFINE s == [i \in p + 1 .. n |-> r[i]]
    <2>1. r \in [1 .. n -> Nat] /\ SlowsDown(q, p + 1, s)
      BY ReverseIs
    <2>2. \A i \in p + 1 .. n : s[i] = r[i] /\ (i # n => s[i + 1] = r[i + 1])
      BY <1>1
    <2> HIDE DEF s, r
    <2> QED
      BY <2>1, <2>2 DEF SlowsDown
  <1> HIDE DEF r
  <1>3. ASSUME Bad # {} PROVE FALSE
    <2>1. PICK k \in Bad : \A j \in Bad : k <= j
      BY <1>3, LeastOf
    <2> DEFINE i == n - k
    <2>2. k \in Nat /\ i \in p + 1 .. n /\ ~Reversed(q, r, i) /\ i \in 2 .. n /\ i \in 1 .. n
      BY <2>1, <1>1
    <2>3. ASSUME i # n PROVE q[i + 1].entry <= r[i + 1] /\ i + 1 \in 1 .. n
      <3>1. k - 1 \in Nat /\ n - (k - 1) = i + 1 /\ i + 1 \in p + 1 .. n /\ ~(k <= k - 1) /\ i + 1 \in 1 .. n
        BY <2>2, <2>3, <1>1
      <3>2. Reversed(q, r, i + 1)
        BY <2>1, <3>1
      <3> QED
        BY <3>1, <3>2 DEF Reversed
    <2> HIDE DEF i
    <2> DEFINE b == q[i]
    <2>4. b.max \in Nat /\ b.length \in Nat /\ b.entry \in Nat /\ r[i] \in Nat
      BY <2>2, <1>2, BlockFields
    <2>5. b.entry <= b.max /\ b.entry <= (IF i = n THEN 0 ELSE q[i + 1].entry) + b.length
      BY <2>2, CanStopMeans
    <2>6. r[i] = IF i = n THEN PnMin(b.max, b.length)
                 ELSE IF b.entry = b.max THEN b.max ELSE PnMin(b.max, r[i + 1] + b.length)
      BY <2>2, <1>2
    <2> HIDE DEF b
    <2>7. CASE i = n
      <3>1. r[i] = PnMin(b.max, b.length) /\ b.entry <= 0 + b.length
        BY <2>5, <2>6, <2>7
      <3>2. b.entry <= r[i] /\ r[i] <= b.max /\ r[i] <= 0 + b.length /\ r[i] \in {b.max, 0 + b.length}
        BY <2>4, <2>5, <3>1 DEF PnMin
      <3> QED
        BY <2>2, <2>7, <3>2 DEF Reversed, b
    <2>8. CASE i # n
      <3>1. /\ q[i + 1].entry <= r[i + 1] /\ q[i + 1].entry \in Nat /\ r[i + 1] \in Nat
            /\ b.entry <= q[i + 1].entry + b.length
            /\ r[i] = IF b.entry = b.max THEN b.max ELSE PnMin(b.max, r[i + 1] + b.length)
        BY <2>3, <2>5, <2>6, <2>8, <1>2, BlockFields
      <3>2. /\ b.entry <= r[i] /\ r[i] <= b.max /\ r[i] <= r[i + 1] + b.length
            /\ r[i] \in {b.max, r[i + 1] + b.length}
        <4>1. r[i + 1] + b.length \in Nat /\ b.entry <= r[i + 1] + b.length
          BY <2>4, <3>1
        <4>2. CASE b.entry = b.max
          BY <2>4, <3>1, <4>1, <4>2
        <4>3. CASE b.entry # b.max
          BY <2>4, <2>5, <3>1, <4>1, <4>3 DEF PnMin
        <4> QED
          BY <4>2, <4>3
      <3> QED
        BY <2>2, <2>8, <3>2 DEF Reversed, b
    <2> QED
      BY <2>7, <2>8
  <1> SUFFICES ASSUME NEW i \in p + 1 .. n PROVE Reversed(q, r, i)
    BY DEF r
  <1>4. n - i \in Nat /\ n - (n - i) = i
    BY <1>1
  <1>5. n - i \notin Bad
    BY <1>3
  <1> QED
    BY <1>4, <1>5

\* The planned pointer stays or goes on to a block that nothing can raise.
LEMMA NextPlannedIs ==
  ASSUME NEW q, NEW r, NEW e, Len(q) \in Nat, NEW p \in 1 .. Len(q)
  PROVE  LET next == NextPlanned(q, r, e, p)
         IN  /\ next \in p .. Len(q)
             /\ next = p \/ (next > p /\ (e[next] < r[next] \/ e[next] = q[next].max))
  <1> DEFINE n == Len(q)
             stops == {i \in p + 1 .. n : e[i] < r[i] \/ e[i] = q[i].max}
             next == NextPlanned(q, r, e, p)
  <1>1. n \in Nat /\ p \in Nat /\ p <= n
    OBVIOUS
  <1>2. CASE stops = {}
    BY <1>1, <1>2 DEF NextPlanned
  <1>3. CASE stops # {}
    <2> DEFINE D == {n - i : i \in stops}
    <2>1. D \subseteq Nat /\ D # {}
      BY <1>1, <1>3
    <2>2. PICK x \in D : \A y \in D : x <= y
      BY <2>1, LeastOf
    <2>3. PICK i \in stops : x = n - i
      OBVIOUS
    <2>4. \A j \in stops : j <= i
      <3>1. ASSUME NEW j \in stops PROVE j <= i
        <4>1. n - i <= n - j
          BY <2>2, <2>3
        <4>2. i \in Nat /\ j \in Nat
          BY <1>1
        <4> HIDE DEF stops, n
        <4> QED
          BY <1>1, <4>1, <4>2
      <3> QED
        BY <3>1
    <2>5. next = CHOOSE j \in stops : \A k \in stops : k <= j
      BY <1>3 DEF NextPlanned
    <2> HIDE DEF next
    <2>6. next \in stops
      BY <2>4, <2>5
    <2> QED
      BY <1>1, <2>6 DEF next
  <1> QED
    BY <1>2, <1>3

\* The queue with the entry speeds e.
WithEntries(q, e) == [i \in DOMAIN q |-> [q[i] EXCEPT !.entry = e[i]]]

\* They are blocks, and nothing but the entries differs.
LEMMA WithEntriesIs ==
  ASSUME NEW q \in Seq(Block), NEW e \in [1 .. Len(q) -> Nat]
  PROVE  /\ WithEntries(q, e) \in Seq(Block) /\ Len(WithEntries(q, e)) = Len(q)
         /\ \A i \in 1 .. Len(q) :
              /\ WithEntries(q, e)[i] = [q[i] EXCEPT !.entry = e[i]]
              /\ WithEntries(q, e)[i].entry = e[i] /\ WithEntries(q, e)[i].length = q[i].length
              /\ WithEntries(q, e)[i].max = q[i].max
  <1> DEFINE n == Len(q)
             w == WithEntries(q, e)
  <1>1. n \in Nat /\ DOMAIN q = 1 .. n
    OBVIOUS
  <1>2. w = [i \in 1 .. n |-> [q[i] EXCEPT !.entry = e[i]]]
    BY <1>1 DEF WithEntries
  <1>3. ASSUME NEW i \in 1 .. n
        PROVE  /\ w[i] = [q[i] EXCEPT !.entry = e[i]] /\ w[i] \in Block
               /\ w[i].entry = e[i] /\ w[i].length = q[i].length /\ w[i].max = q[i].max
    <2>1. q[i] \in Block /\ e[i] \in Nat
      BY <1>1
    <2>2. w[i] = [q[i] EXCEPT !.entry = e[i]]
      BY <1>2
    <2> QED
      BY <2>1, <2>2 DEF Block
  <1>4. w \in [1 .. n -> Block]
    BY <1>2, <1>3
  <1>5. w \in Seq(Block) /\ Len(w) = n
    BY <1>1, <1>4, SeqDef
  <1> QED
    BY <1>3, <1>5

\* An entry that was raised as far as it can be reached can still be left in time.
LEMMA StillStops ==
  ASSUME NEW from \in Nat, NEW to \in Nat, NEW wanted \in Nat, NEW cells \in Nat, NEW raised \in Nat,
         from <= to + cells, to <= wanted, raised = wanted \/ raised = from + cells
  PROVE  from <= raised + cells
  OBVIOUS

\* From a plan that can stop, the passes make one that can stop, and one that
\* uses all of the way if the part before the planned pointer did.
LEMMA PassesPlan ==
  ASSUME NEW q \in Seq(Block), NEW p \in 1 .. Len(q), p < Len(q), NEW now \in Nat,
         CanStop(q, now), p = 1 => q[1].entry = now
  PROVE  LET r == ReversePass(q, p)
             e == Forward(q, r, p)
             w == WithEntries(q, e)
             next == NextPlanned(q, r, e, p)
         IN  /\ e \in [1 .. Len(q) -> Nat] /\ next \in 1 .. Len(q)
             /\ CanStop(w, now)
             /\ \A i \in 1 .. p : e[i] = q[i].entry
             /\ e[2] <= q[2].max
             /\ (\A i \in 2 .. p : CannotBeRaised(q, now, p, i)) => FullyUsed(w, now, next)
  <1> DEFINE n == Len(q)
             r == ReversePass(q, p)
             e == Forward(q, r, p)
             w == WithEntries(q, e)
             next == NextPlanned(q, r, e, p)
             before(i) == IF i = 1 THEN now ELSE e[i]
             after(i) == IF i = n THEN 0 ELSE e[i + 1]
  <1>1. n \in Nat /\ p \in Nat /\ 1 <= p /\ p <= n
    OBVIOUS
  <1>2. r \in [1 .. n -> Nat] /\ \A i \in 1 .. p : r[i] = q[i].entry
    BY ReverseIs
  <1>3. \A i \in p + 1 .. n : Reversed(q, r, i)
    BY ReverseBounds
  <1> HIDE DEF r
  <1>4. /\ e \in [1 .. n -> Nat] /\ \A i \in 1 .. p : e[i] = q[i].entry
        /\ \A i \in p + 1 .. n : e[i] = PnMin(e[i - 1] + q[i - 1].length, r[i])
    BY <1>2, ForwardIs
  <1>5. next \in p .. n /\ (next = p \/ (next > p /\ (e[next] < r[next] \/ e[next] = q[next].max)))
    BY <1>1, NextPlannedIs
  <1> HIDE DEF e, next
  <1>6. w \in Seq(Block) /\ Len(w) = n
        /\ \A i \in 1 .. n : w[i].entry = e[i] /\ w[i].length = q[i].length /\ w[i].max = q[i].max
    BY <1>4, WithEntriesIs
  <1> HIDE DEF w
  <1>7. ASSUME NEW i \in 1 .. n
        PROVE  /\ q[i].length \in Nat \ {0} /\ q[i].max \in Nat /\ q[i].entry \in Nat
               /\ r[i] \in Nat /\ e[i] \in Nat /\ before(i) \in Nat /\ after(i) \in Nat
    <2>1. i # n => i + 1 \in 1 .. n
      BY <1>1
    <2> QED
      BY <1>2, <1>4, <2>1, BlockFields
  <1>8. ASSUME NEW i \in p + 1 .. n
        PROVE  /\ i \in 2 .. n /\ i \in 1 .. n /\ i - 1 \in 1 .. n
               /\ e[i] = PnMin(before(i - 1) + q[i - 1].length, r[i])
    <2>1. i \in 2 .. n /\ i \in 1 .. n /\ i - 1 \in 1 .. n
      BY <1>1
    <2>2. before(i - 1) = e[i - 1]
      <3>1. i - 1 = 1 => p = 1 /\ 1 \in 1 .. p
        BY <1>1
      <3>2. CASE i - 1 = 1
        BY <1>4, <3>1, <3>2
      <3>3. CASE i - 1 # 1
        BY <3>3
      <3> QED
        BY <3>2, <3>3
    <2> QED
      BY <1>4, <2>1, <2>2
  <1>9. ASSUME NEW i \in p + 1 .. n
        PROVE  /\ e[i] <= r[i] /\ e[i] <= before(i - 1) + q[i - 1].length
               /\ e[i] = r[i] \/ e[i] = before(i - 1) + q[i - 1].length
    <2> DEFINE reached == before(i - 1) + q[i - 1].length
    <2>1. reached \in Nat /\ r[i] \in Nat
      BY <1>7, <1>8
    <2>2. e[i] = PnMin(reached, r[i])
      BY <1>8
    <2> HIDE DEF reached
    <2>3. e[i] <= r[i] /\ e[i] <= reached /\ (e[i] = r[i] \/ e[i] = reached)
      BY <2>1, <2>2 DEF PnMin
    <2> QED
      BY <2>3 DEF reached
  \* From each entry the next can be reached.
  <1>10. ASSUME NEW i \in 1 .. n PROVE before(i) <= after(i) + q[i].length
    <2>1. CASE i < p
      <3>1. i + 1 \in 1 .. p /\ i # n /\ i + 1 \in 1 .. n
        BY <1>1, <2>1
      <3>2. before(i) = EntryAt(q, now, i) /\ after(i) = EntryAt(q, now, i + 1)
        BY <1>1, <1>4, <2>1, <3>1 DEF EntryAt
      <3> QED
        BY <3>2 DEF CanStop
    <2>2. CASE i = p
      <3>1. i + 1 \in p + 1 .. n /\ i + 1 \in 1 .. n /\ i # n /\ i + 1 # 1 /\ (i + 1) - 1 = i
        BY <1>1, <2>2
      <3>2. before(i) = EntryAt(q, now, i) /\ q[i + 1].entry = EntryAt(q, now, i + 1)
        BY <1>1, <1>4, <2>2, <3>1 DEF EntryAt
      <3>3. before(i) <= q[i + 1].entry + q[i].length
        BY <3>2 DEF CanStop
      <3>4. q[i + 1].entry <= r[i + 1]
        BY <1>3, <3>1 DEF Reversed
      <3>5. e[i + 1] = r[i + 1] \/ e[i + 1] = before(i) + q[i].length
        BY <1>9, <3>1
      <3>6. before(i) \in Nat /\ q[i + 1].entry \in Nat /\ r[i + 1] \in Nat /\ q[i].length \in Nat
            /\ after(i) = e[i + 1] /\ e[i + 1] \in Nat
        BY <1>7, <3>1
      <3> HIDE DEF before, after
      <3>7. before(i) <= e[i + 1] + q[i].length
        BY <3>3, <3>4, <3>5, <3>6, StillStops
      <3> QED
        BY <3>6, <3>7
    <2>3. CASE i > p
      <3>1. i \in p + 1 .. n /\ before(i) = e[i] /\ e[i] <= r[i] /\ q[i].length \in Nat /\ e[i] \in Nat /\ r[i] \in Nat
        BY <1>1, <1>7, <1>9, <2>3
      <3>2. CASE i = n
        <4>1. r[i] <= 0 + q[i].length
          BY <1>3, <3>1, <3>2 DEF Reversed
        <4> QED
          BY <3>1, <3>2, <4>1
      <3>3. CASE i # n
        <4>1. i + 1 \in p + 1 .. n /\ (i + 1) - 1 = i /\ i + 1 \in 1 .. n
          BY <1>1, <3>1, <3>3
        <4>2. r[i] <= r[i + 1] + q[i].length
          BY <1>3, <3>1, <3>3 DEF Reversed
        <4>3. e[i + 1] = r[i + 1] \/ e[i + 1] = e[i] + q[i].length
          BY <1>9, <3>1, <4>1
        <4>4. r[i + 1] \in Nat /\ e[i + 1] \in Nat /\ after(i) = e[i + 1]
          BY <1>7, <3>3, <4>1
        <4> HIDE DEF before, after
        <4> QED
          BY <3>1, <4>2, <4>3, <4>4
      <3> QED
        BY <3>2, <3>3
    <2> QED
      BY <1>1, <2>1, <2>2, <2>3
  <1>11. ASSUME NEW i \in 2 .. n PROVE e[i] <= q[i].max
    <2>1. CASE i \in p + 1 .. n
      <3>1. e[i] <= r[i] /\ r[i] <= q[i].max /\ i \in 1 .. n
        BY <1>3, <1>8, <1>9, <2>1 DEF Reversed
      <3> QED
        BY <1>7, <3>1
    <2>2. CASE i \in 1 .. p
      BY <1>4, <2>2, CanStopMeans
    <2> QED
      BY <1>1, <2>1, <2>2
  <1>12. \A i \in 1 .. n : EntryAt(w, now, i) = before(i) /\ EntryAt(w, now, i + 1) = after(i)
    <2>1. ASSUME NEW i \in 1 .. n
          PROVE  /\ i <= n /\ i + 1 # 1 /\ (i + 1 <= n <=> i # n) /\ (i # n => i + 1 \in 1 .. n)
      BY <1>1
    <2> QED
      BY <1>6, <2>1 DEF EntryAt
  <1>13. CanStop(w, now)
    <2>1. ASSUME NEW i \in 1 .. n, i > 1 PROVE i \in 2 .. n
      BY <2>1
    <2> HIDE DEF before, after
    <2> QED
      BY <1>6, <1>10, <1>11, <1>12, <2>1 DEF CanStop
  \* And none can be raised.
  <1>14. ASSUME NEW i \in p + 1 .. n PROVE CannotBeRaised(w, now, next, i)
    <2> DEFINE reached == before(i - 1) + q[i - 1].length
               stopping == after(i) + q[i].length
    <2>1. /\ i \in 1 .. n /\ i - 1 \in 1 .. n /\ (i - 1) + 1 = i /\ (i # n => i + 1 \in p + 1 .. n) /\ i # 1
          /\ before(i) = e[i]
      BY <1>1
    <2>2. /\ EntryAt(w, now, i - 1) + w[i - 1].length = reached
          /\ EntryAt(w, now, i + 1) + w[i].length = stopping
          /\ w[i].entry = e[i] /\ w[i].max = q[i].max
      BY <1>6, <1>12, <2>1
    <2>3. e[i] <= reached /\ (e[i] = r[i] \/ e[i] = reached)
      BY <1>9
    <2>4. e[i] <= stopping /\ e[i] \in Nat /\ stopping \in Nat /\ r[i] \in Nat /\ q[i].max \in Nat
      BY <1>7, <1>10, <2>1
    <2>5. ASSUME e[i] # reached, e[i] # q[i].max PROVE i # next /\ e[i] = stopping
      <3>1. e[i] = r[i]
        BY <2>3, <2>5
      <3>2. i # next
        <4>1. i # p
          BY <1>1
        <4> QED
          BY <1>5, <2>4, <2>5, <3>1, <4>1
      <3>3. r[i] = (IF i = n THEN 0 ELSE r[i + 1]) + q[i].length
        BY <1>3, <2>5, <3>1 DEF Reversed
      <3>4. CASE i = n
        BY <3>1, <3>2, <3>3, <3>4
      <3>5. CASE i # n
        <4>1. e[i + 1] <= r[i + 1] /\ e[i + 1] \in Nat /\ r[i + 1] \in Nat /\ q[i].length \in Nat
              /\ stopping = e[i + 1] + q[i].length /\ r[i] = r[i + 1] + q[i].length
          BY <1>1, <1>7, <1>9, <2>1, <3>3, <3>5
        <4> HIDE DEF stopping
        <4> QED
          BY <2>4, <3>1, <3>2, <4>1
      <3> QED
        BY <3>4, <3>5
    <2> HIDE DEF reached, stopping
    <2> QED
      BY <2>2, <2>3, <2>5 DEF CannotBeRaised
  <1>15. ASSUME NEW i \in 2 .. p, CannotBeRaised(q, now, p, i) PROVE CannotBeRaised(w, now, next, i)
    <2>1. /\ i \in 1 .. n /\ i - 1 \in 1 .. n /\ (i - 1) + 1 = i /\ i \in 1 .. p /\ i - 1 \in 1 .. p
          /\ i # 1 /\ i + 1 # 1 /\ i <= n /\ i - 1 <= n
      BY <1>1
    <2>2. EntryAt(w, now, i - 1) = EntryAt(q, now, i - 1)
      BY <1>4, <1>12, <2>1 DEF EntryAt
    <2>3. w[i].entry = q[i].entry /\ w[i].max = q[i].max /\ w[i].length = q[i].length
          /\ w[i - 1].length = q[i - 1].length
      BY <1>4, <1>6, <2>1
    <2>4. CASE i = p
      BY <1>15, <2>2, <2>3, <2>4 DEF CannotBeRaised
    <2>5. CASE i # p
      <3>1. i # next /\ i # n /\ i + 1 \in 1 .. p /\ i + 1 <= n
        BY <1>1, <1>5, <2>1, <2>5
      <3>2. EntryAt(w, now, i + 1) = EntryAt(q, now, i + 1)
        BY <1>4, <1>12, <2>1, <3>1 DEF EntryAt
      <3> QED
        BY <1>15, <2>2, <2>3, <3>1, <3>2 DEF CannotBeRaised
    <2> QED
      BY <2>4, <2>5
  <1>16. (\A i \in 2 .. p : CannotBeRaised(q, now, p, i)) => FullyUsed(w, now, next)
    <2>1. \A i \in 2 .. n : i \in 2 .. p \/ i \in p + 1 .. n
      BY <1>1
    <2> QED
      BY <1>6, <1>14, <1>15, <2>1 DEF FullyUsed
  <1>17. next \in 1 .. n /\ 2 \in 2 .. n
    BY <1>1, <1>5
  <1> QED
    BY <1>4, <1>11, <1>13, <1>16, <1>17 DEF r, e, w, next

-----------------------------------------------------------------------------
(* A plan in which no entry can be raised alone is the fastest one.        *)

\* What does not fall from one index to the next does not fall at all.
LEMMA Monotone ==
  ASSUME NEW a \in Nat, NEW b \in Nat, NEW f,
         \A i \in a .. b : f[i] \in Int, \A i \in a .. b : i > a => f[i - 1] <= f[i]
  PROVE  \A i, j \in a .. b : i <= j => f[i] <= f[j]
  <1> SUFFICES ASSUME NEW i \in a .. b PROVE \A j \in a .. b : i <= j => f[i] <= f[j]
    OBVIOUS
  <1> DEFINE Bad == {j \in Nat : j \in a .. b /\ i <= j /\ ~(f[i] <= f[j])}
  <1>1. ASSUME Bad # {} PROVE FALSE
    <2>1. PICK j \in Bad : \A k \in Bad : j <= k
      BY <1>1, LeastOf
    <2>2. j \in Nat /\ j \in a .. b /\ i <= j /\ ~(f[i] <= f[j])
      BY <2>1
    <2>3. i # j
      BY <2>2
    <2>4. j - 1 \in Nat /\ j - 1 \in a .. b /\ i <= j - 1 /\ j > a /\ ~(j <= j - 1)
      BY <2>2, <2>3
    <2>5. f[i] <= f[j - 1]
      BY <2>1, <2>4
    <2> QED
      BY <2>2, <2>4, <2>5
  <1>2. \A j \in a .. b : j \in Nat
    OBVIOUS
  <1> QED
    BY <1>1, <1>2

\* The cells before each block.
CellsBefore(q, s) ==
  /\ s \in [1 .. Len(q) + 1 -> Nat] /\ s[1] = 0
  /\ \A i \in 1 .. Len(q) : s[i + 1] = s[i] + q[i].length

\* Every queue has them.
LEMMA CellsBeforeExist ==
  ASSUME NEW q \in Seq(Block)
  PROVE  \E s : CellsBefore(q, s)
  <1> DEFINE n == Len(q) + 1
             g == [i \in 1 .. n |-> [x \in Nat |-> IF i = 1 THEN 0 ELSE x + q[i - 1].length]]
  <1>1. n \in Nat /\ 1 \in Nat /\ 1 <= n /\ 0 \in Nat /\ Len(q) \in Nat
    OBVIOUS
  <1>2. g \in [1 .. n -> [Nat -> Nat]]
    <2>1. ASSUME NEW i \in 1 .. n, i # 1 PROVE q[i - 1].length \in Nat
      <3>1. i - 1 \in 1 .. Len(q)
        BY <1>1, <2>1
      <3> QED
        BY <3>1, BlockFields
    <2> QED
      BY <2>1
  <1>3. PICK s \in [1 .. n -> Nat] : s[1] = 0 /\ \A i \in 1 + 1 .. n : s[i] = g[i][s[i - 1]]
    <2> HIDE DEF g, n
    <2>1. HasRecursion(1, n, Nat, 0, g)
      BY <1>1, <1>2, RecursionExists
    <2> QED
      BY <2>1 DEF HasRecursion
  <1>4. ASSUME NEW i \in 1 .. Len(q) PROVE s[i + 1] = s[i] + q[i].length
    <2>1. i + 1 \in 1 + 1 .. n /\ i + 1 \in 1 .. n /\ (i + 1) - 1 = i /\ i \in 1 .. n /\ i + 1 # 1
      BY <1>1
    <2>2. s[i + 1] = g[i + 1][s[i]] /\ s[i] \in Nat
      BY <1>3, <2>1
    <2> QED
      BY <2>1, <2>2
  <1> QED
    BY <1>3, <1>4 DEF CellsBefore

\* The cells between two blocks, by those before each of them.
LEMMA CellsBetweenIs ==
  ASSUME pn_queue \in Seq(Block), NEW s, CellsBefore(pn_queue, s),
         NEW i \in 1 .. Len(pn_queue) + 1, NEW j \in 1 .. Len(pn_queue) + 1, i <= j
  PROVE  CellsBetween(i, j) = s[j] - s[i]
  <1> DEFINE n == Len(pn_queue)
             P(d) == d = [k \in i .. j |-> IF k = i THEN 0 ELSE d[k - 1] + pn_queue[k - 1].length]
             c == CHOOSE d : P(d)
             e == [k \in i .. j |-> s[k] - s[i]]
  <1>1. n \in Nat /\ i \in Nat /\ j \in Nat
    OBVIOUS
  <1>2. ASSUME NEW k \in i .. j, k # i
        PROVE  /\ k - 1 \in i .. j /\ k \in Nat /\ k - 1 \in Nat /\ ~(k <= k - 1)
               /\ s[k] = s[k - 1] + pn_queue[k - 1].length
               /\ s[k - 1] \in Nat /\ pn_queue[k - 1].length \in Nat
    <2>1. k - 1 \in i .. j /\ k \in Nat /\ k - 1 \in Nat /\ k - 1 \in 1 .. n /\ (k - 1) + 1 = k
          /\ ~(k <= k - 1) /\ k - 1 \in 1 .. n + 1
      BY <1>1, <1>2
    <2>2. pn_queue[k - 1].length \in Nat
      BY <2>1, BlockFields
    <2>3. s[k - 1] \in Nat /\ s[(k - 1) + 1] = s[k - 1] + pn_queue[k - 1].length
      BY <2>1 DEF CellsBefore
    <2>4. s[k] = s[k - 1] + pn_queue[k - 1].length
      <3>1. (k - 1) + 1 = k
        BY <2>1
      <3> QED
        BY <2>3, <3>1
    <2> HIDE DEF n
    <2> QED
      BY <2>1, <2>2, <2>3, <2>4
  <1>3. s[i] \in Nat /\ \A k \in i .. j : s[k] \in Nat
    <2>1. \A k \in i .. j : k \in 1 .. n + 1
      BY <1>1
    <2> QED
      BY <2>1 DEF CellsBefore
  <1>4. P(e)
    <2>1. ASSUME NEW k \in i .. j, k # i PROVE s[k] - s[i] = e[k - 1] + pn_queue[k - 1].length
      <3> DEFINE l == pn_queue[k - 1].length
      <3>1. /\ k - 1 \in i .. j /\ s[k] = s[k - 1] + l /\ s[k - 1] \in Nat /\ l \in Nat
        BY <1>2, <2>1
      <3>2. e[k - 1] = s[k - 1] - s[i]
        BY <3>1
      <3> HIDE DEF e, l
      <3>3. s[k] - s[i] = e[k - 1] + l
        BY <1>3, <3>1, <3>2
      <3> QED
        BY <3>3 DEF l
    <2>2. s[i] - s[i] = 0
      BY <1>3
    <2> QED
      BY <2>1, <2>2
  <1>5. P(c)
    BY <1>4
  <1>6. CellsBetween(i, j) = c[j]
    BY DEF CellsBetween
  <1> HIDE DEF c
  <1>7. \A k \in i .. j : c[k] = IF k = i THEN 0 ELSE c[k - 1] + pn_queue[k - 1].length
    BY <1>5
  <1> HIDE DEF P, e
  <1> DEFINE Bad == {k \in Nat : k \in i .. j /\ c[k] # s[k] - s[i]}
  <1>8. ASSUME Bad # {} PROVE FALSE
    <2>1. PICK k \in Bad : \A m \in Bad : k <= m
      BY <1>8, LeastOf
    <2>2. k \in Nat /\ k \in i .. j /\ c[k] # s[k] - s[i]
      BY <2>1
    <2>3. CASE k = i
      BY <1>3, <1>7, <2>2, <2>3
    <2>4. CASE k # i
      <3>1. c[k - 1] = s[k - 1] - s[i]
        BY <1>2, <2>1, <2>2, <2>4
      <3>2. c[k] = c[k - 1] + pn_queue[k - 1].length
        BY <1>7, <2>2, <2>4
      <3> QED
        BY <1>2, <1>3, <2>2, <2>4, <3>1, <3>2
    <2> QED
      BY <2>3, <2>4
  <1>9. j \in i .. j /\ j \in Nat
    BY <1>1
  <1> QED
    BY <1>6, <1>8, <1>9

\* Between two blocks s - E and s + E cannot both stay the same.
LEMMA RisesOnOneSide ==
  ASSUME NEW a \in Nat, NEW b \in Nat, NEW c \in Nat, NEW d \in Nat, NEW l \in Nat \ {0},
         b = a + l, b - d = a - c, b + d = a + c
  PROVE  FALSE
  <1>1. d = c + l /\ c = d + l
    OBVIOUS
  <1> QED
    BY <1>1

\* A plan that can stop, and in which no entry can be raised, is the optimal one.
\* With s the cells before a block and E its entry, neither s - E nor s + E ever
\* falls from block to block.  An entry below its maximum leaves s - E as it was at
\* the block before or s + E as it is at the block after; the chain of such ties
\* ends at the maximum, the speed of now or the stop that limits it.
LEMMA UsedPlanIsOptimal ==
  ASSUME pn_queue \in Seq(Block), pn_speed \in Nat,
         CanStop(pn_queue, Now), FullyUsed(pn_queue, Now, pn_planned)
  PROVE  PlanIsOptimal
  <1> DEFINE q == pn_queue
             n == Len(pn_queue)
             limits(i) == {Now + CellsBetween(1, i), CellsBetween(i, n + 1)}
                            \cup {q[j].max + CellsBetween(i, j) : j \in i .. n}
                            \cup {q[j].max + CellsBetween(j, i) : j \in 2 .. i}
             E(i) == EntryAt(q, Now, i)
  <1> SUFFICES ASSUME n > 1, NEW i \in 2 .. n
               PROVE  q[i].entry = CHOOSE m \in limits(i) : \A k \in limits(i) : m <= k
    BY DEF PlanIsOptimal, Now
  <1>1. n \in Nat /\ 1 \in 1 .. n
    OBVIOUS
  <1>2. PICK s : CellsBefore(q, s)
    BY CellsBeforeExist
  <1>3. ASSUME NEW j \in 1 .. n + 1 PROVE s[j] \in Nat /\ E(j) \in Nat
    <2>1. s[j] \in Nat
      BY <1>2 DEF CellsBefore
    <2>2. Now \in Nat
      BY <1>1, BlockFields DEF Now
    <2>3. j <= n => q[j].entry \in Nat
      <3>1. j <= n => j \in 1 .. n
        BY <1>1
      <3> QED
        BY <3>1, BlockFields
    <2> QED
      BY <2>1, <2>2, <2>3 DEF EntryAt
  <1>4. /\ E(1) = Now /\ E(n + 1) = 0
        /\ \A j \in 2 .. n : E(j) = q[j].entry
    BY <1>1 DEF EntryAt
  <1>5. ASSUME NEW j \in 1 .. n
        PROVE  /\ E(j) <= E(j + 1) + q[j].length /\ s[j + 1] = s[j] + q[j].length
               /\ q[j].length \in Nat \ {0} /\ j \in 1 .. n + 1 /\ j + 1 \in 1 .. n + 1
    <2>1. j \in 1 .. n + 1 /\ j + 1 \in 1 .. n + 1
      BY <1>1
    <2>2. s[j + 1] = s[j] + q[j].length
      BY <1>2 DEF CellsBefore
    <2>3. E(j) <= E(j + 1) + q[j].length
      BY DEF CanStop
    <2> QED
      BY <2>1, <2>2, <2>3, BlockFields
  <1>6. ASSUME NEW j \in 2 .. n
        PROVE  /\ E(j) <= E(j - 1) + q[j - 1].length /\ E(j) <= q[j].max /\ q[j].max \in Nat
               /\ E(j) \in {q[j].max, E(j - 1) + q[j - 1].length, E(j + 1) + q[j].length}
               /\ j \in 1 .. n /\ j - 1 \in 1 .. n /\ (j - 1) + 1 = j
    <2>1. j \in 1 .. n /\ j - 1 \in 1 .. n /\ (j - 1) + 1 = j /\ j > 1
      BY <1>1
    <2>2. CannotBeRaised(q, Now, pn_planned, j)
      BY DEF FullyUsed
    <2>3. q[j].entry = E(j)
      BY <1>4
    <2>4. q[j].entry <= q[j].max
      BY <2>1 DEF CanStop
    <2>5. q[j].max \in Nat
      BY <2>1, BlockFields
    <2> HIDE DEF E
    <2> QED
      BY <2>1, <2>2, <2>3, <2>4, <2>5 DEF CannotBeRaised, E
  \* The entries, less and more the way to them, change in one direction only.
  <1> DEFINE F == [j \in 1 .. n |-> s[j] - E(j)]
             G == [j \in 1 .. n + 1 |-> s[j] + E(j)]
  <1>7. \A j \in 1 .. n : F[j] = s[j] - E(j) /\ F[j] \in Int
    BY <1>3, <1>5
  <1>8. \A j \in 1 .. n + 1 : G[j] = s[j] + E(j) /\ G[j] \in Int
    BY <1>3
  <1> HIDE DEF E, F, G
  <1>9. \A j, k \in 1 .. n : j <= k => F[j] <= F[k]
    <2>1. ASSUME NEW j \in 1 .. n, j > 1 PROVE F[j - 1] <= F[j]
      <3>1. j \in 2 .. n /\ j - 1 \in 1 .. n /\ (j - 1) + 1 = j
        BY <1>1, <2>1
      <3>2. /\ E(j) <= E(j - 1) + q[j - 1].length /\ s[j] = s[j - 1] + q[j - 1].length
            /\ q[j - 1].length \in Nat
        BY <1>5, <1>6, <3>1
      <3>3. E(j) \in Nat /\ E(j - 1) \in Nat /\ s[j] \in Nat /\ s[j - 1] \in Nat
        BY <1>3, <1>5, <3>1
      <3>4. F[j] = s[j] - E(j) /\ F[j - 1] = s[j - 1] - E(j - 1)
        BY <1>7, <3>1
      <3> QED
        BY <3>2, <3>3, <3>4
    <2> QED
      BY <1>1, <1>7, <2>1, Monotone
  <1>10. \A j, k \in 1 .. n + 1 : j <= k => G[j] <= G[k]
    <2>1. ASSUME NEW j \in 1 .. n + 1, j > 1 PROVE G[j - 1] <= G[j]
      <3>1. j - 1 \in 1 .. n /\ (j - 1) + 1 = j /\ j - 1 \in 1 .. n + 1
        BY <1>1, <2>1
      <3>2. /\ E(j - 1) <= E(j) + q[j - 1].length /\ s[j] = s[j - 1] + q[j - 1].length
            /\ q[j - 1].length \in Nat
        BY <1>5, <3>1
      <3>3. E(j) \in Nat /\ E(j - 1) \in Nat /\ s[j] \in Nat /\ s[j - 1] \in Nat
        BY <1>3, <3>1
      <3>4. G[j] = s[j] + E(j) /\ G[j - 1] = s[j - 1] + E(j - 1)
        BY <1>8, <3>1
      <3> QED
        BY <3>2, <3>3, <3>4
    <2>2. 1 \in Nat /\ n + 1 \in Nat
      BY <1>1
    <2> QED
      BY <1>8, <2>1, <2>2, Monotone
  <1>11. i \in 1 .. n /\ i \in 1 .. n + 1 /\ 1 <= i /\ i <= n /\ i <= n + 1 /\ q[i].entry = E(i)
         /\ n + 1 \in 1 .. n + 1
    BY <1>1, <1>4
  \* The four kinds of limits.
  <1>12. \A k, l \in 1 .. n + 1 : k <= l => CellsBetween(k, l) = s[l] - s[k]
    BY <1>2, CellsBetweenIs
  <1>13. /\ Now + CellsBetween(1, i) = s[i] - F[1]
         /\ CellsBetween(i, n + 1) = G[n + 1] - s[i]
    <2>1. CellsBetween(1, i) = s[i] - s[1] /\ CellsBetween(i, n + 1) = s[n + 1] - s[i]
      BY <1>5, <1>11, <1>12
    <2>2. Now = E(1) /\ E(1) \in Nat /\ s[1] \in Nat /\ s[i] \in Nat /\ s[n + 1] \in Nat /\ E(n + 1) = 0
      BY <1>3, <1>4, <1>5, <1>11
    <2>3. F[1] = s[1] - E(1) /\ G[n + 1] = s[n + 1] + E(n + 1)
      BY <1>1, <1>7, <1>8, <1>11
    <2> QED
      BY <2>1, <2>2, <2>3
  <1>14. ASSUME NEW j \in i .. n
         PROVE  /\ q[j].max + CellsBetween(i, j) = q[j].max - E(j) + G[j] - s[i]
                /\ j \in 2 .. n /\ j \in 1 .. n + 1
    <2>1. j \in 2 .. n /\ j \in 1 .. n + 1 /\ j \in 1 .. n /\ i <= j
      BY <1>1
    <2>2. CellsBetween(i, j) = s[j] - s[i] /\ s[j] \in Nat /\ s[i] \in Nat /\ E(j) \in Nat /\ q[j].max \in Nat
      BY <1>3, <1>6, <1>11, <1>12, <2>1
    <2>3. G[j] = s[j] + E(j)
      BY <1>8, <2>1
    <2> QED
      BY <2>1, <2>2, <2>3
  <1>15. ASSUME NEW j \in 2 .. i
         PROVE  /\ q[j].max + CellsBetween(j, i) = q[j].max - E(j) + s[i] - F[j]
                /\ j \in 2 .. n /\ j \in 1 .. n
    <2>1. j \in 2 .. n /\ j \in 1 .. n + 1 /\ j \in 1 .. n /\ j <= i
      BY <1>1
    <2>2. CellsBetween(j, i) = s[i] - s[j] /\ s[j] \in Nat /\ s[i] \in Nat /\ E(j) \in Nat /\ q[j].max \in Nat
      BY <1>3, <1>6, <1>11, <1>12, <2>1
    <2>3. F[j] = s[j] - E(j)
      BY <1>7, <2>1
    <2> QED
      BY <2>1, <2>2, <2>3
  <1>16. /\ E(i) \in Nat /\ s[i] \in Nat /\ F[i] = s[i] - E(i) /\ G[i] = s[i] + E(i)
         /\ F[1] \in Int /\ F[i] \in Int /\ G[i] \in Int /\ G[n + 1] \in Int
    BY <1>1, <1>3, <1>7, <1>8, <1>11
  <1>17. \A k \in limits(i) : k \in Int /\ E(i) <= k
    <2>1. Now + CellsBetween(1, i) \in Int /\ E(i) <= Now + CellsBetween(1, i)
      <3>1. F[1] <= F[i]
        BY <1>1, <1>9, <1>11
      <3> QED
        BY <1>13, <1>16, <3>1
    <2>2. CellsBetween(i, n + 1) \in Int /\ E(i) <= CellsBetween(i, n + 1)
      <3>1. G[i] <= G[n + 1]
        BY <1>10, <1>11
      <3> QED
        BY <1>13, <1>16, <3>1
    <2>3. ASSUME NEW j \in i .. n
          PROVE  q[j].max + CellsBetween(i, j) \in Int /\ E(i) <= q[j].max + CellsBetween(i, j)
      <3>1. G[i] <= G[j] /\ G[j] \in Int
        BY <1>8, <1>10, <1>11, <1>14
      <3>2. E(j) <= q[j].max /\ E(j) \in Nat /\ q[j].max \in Nat
        BY <1>3, <1>6, <1>14
      <3>3. q[j].max + CellsBetween(i, j) = q[j].max - E(j) + G[j] - s[i]
        BY <1>14
      <3>4. \A m, e, x, y \in Nat, g \in Int :
              e <= m /\ x + y <= g => m - e + g - x \in Int /\ y <= m - e + g - x
        OBVIOUS
      <3>5. s[i] + E(i) <= G[j]
        BY <1>16, <3>1
      <3>6. q[j].max - E(j) + G[j] - s[i] \in Int /\ E(i) <= q[j].max - E(j) + G[j] - s[i]
        <4>1. s[i] \in Nat /\ E(i) \in Nat
          BY <1>16
        <4> HIDE DEF q
        <4> QED
          BY <3>1, <3>2, <3>4, <3>5, <4>1
      <3> QED
        BY <3>3, <3>6
    <2>4. ASSUME NEW j \in 2 .. i
          PROVE  q[j].max + CellsBetween(j, i) \in Int /\ E(i) <= q[j].max + CellsBetween(j, i)
      <3>1. F[j] <= F[i] /\ F[j] \in Int
        <4>1. j <= i
          OBVIOUS
        <4> QED
          BY <1>7, <1>9, <1>11, <1>15, <4>1
      <3>2. E(j) <= q[j].max /\ E(j) \in Nat /\ q[j].max \in Nat
        BY <1>3, <1>5, <1>6, <1>15
      <3>3. q[j].max + CellsBetween(j, i) = q[j].max - E(j) + s[i] - F[j]
        BY <1>15
      <3>4. \A m, e, x, y \in Nat, f \in Int :
              e <= m /\ f <= x - y => m - e + x - f \in Int /\ y <= m - e + x - f
        OBVIOUS
      <3>5. F[j] <= s[i] - E(i)
        BY <1>16, <3>1
      <3>6. q[j].max - E(j) + s[i] - F[j] \in Int /\ E(i) <= q[j].max - E(j) + s[i] - F[j]
        <4>1. s[i] \in Nat /\ E(i) \in Nat
          BY <1>16
        <4> HIDE DEF q
        <4> QED
          BY <3>1, <3>2, <3>4, <3>5, <4>1
      <3> QED
        BY <3>3, <3>6
    <2> QED
      BY <2>1, <2>2, <2>3, <2>4
  \* A block entered as fast as it can be reached is not left as slowly as it can stop.
  <1>18. ASSUME NEW j \in 1 .. n PROVE F[j + 1] # F[j] \/ G[j + 1] # G[j] \/ j = n
    <2> SUFFICES ASSUME j # n, F[j + 1] = F[j], G[j + 1] = G[j] PROVE FALSE
      OBVIOUS
    <2>1. j + 1 \in 1 .. n
      BY <1>1
    <2>2. /\ s[j + 1] = s[j] + q[j].length /\ q[j].length \in Nat \ {0}
          /\ s[j] \in Nat /\ s[j + 1] \in Nat /\ E(j) \in Nat /\ E(j + 1) \in Nat
      BY <1>3, <1>5
    <2>3. F[j + 1] = s[j + 1] - E(j + 1) /\ F[j] = s[j] - E(j)
          /\ G[j + 1] = s[j + 1] + E(j + 1) /\ G[j] = s[j] + E(j)
      BY <1>5, <1>7, <1>8, <2>1
    <2>4. s[j + 1] - E(j + 1) = s[j] - E(j) /\ s[j + 1] + E(j + 1) = s[j] + E(j)
      BY <2>3
    <2> QED
      BY <2>2, <2>4, RisesOnOneSide
  \* The limit of a block, as a tie.
  <1>19. ASSUME NEW j \in 2 .. n PROVE E(j) = q[j].max \/ F[j] = F[j - 1] \/ G[j] = G[j + 1]
    <2>1. /\ j \in 1 .. n /\ j - 1 \in 1 .. n /\ (j - 1) + 1 = j /\ j + 1 \in 1 .. n + 1 /\ j \in 1 .. n + 1
          /\ E(j) \in {q[j].max, E(j - 1) + q[j - 1].length, E(j + 1) + q[j].length}
      BY <1>5, <1>6
    <2>2. s[j] = s[j - 1] + q[j - 1].length /\ s[j + 1] = s[j] + q[j].length
          /\ q[j].length \in Nat /\ q[j - 1].length \in Nat
      BY <1>5, <2>1
    <2>3. s[j] \in Nat /\ s[j - 1] \in Nat /\ s[j + 1] \in Nat
          /\ E(j) \in Nat /\ E(j - 1) \in Nat /\ E(j + 1) \in Nat
      BY <1>3, <1>5, <2>1
    <2>4. F[j] = s[j] - E(j) /\ F[j - 1] = s[j - 1] - E(j - 1)
          /\ G[j] = s[j] + E(j) /\ G[j + 1] = s[j + 1] + E(j + 1)
      BY <1>7, <1>8, <2>1
    <2>5. CASE E(j) = E(j - 1) + q[j - 1].length
      <3>1. s[j - 1] \in Nat /\ E(j - 1) \in Nat /\ q[j - 1].length \in Nat
        BY <2>2, <2>3
      <3>2. s[j] = s[j - 1] + q[j - 1].length
        BY <2>2
      <3>3. s[j] - E(j) = s[j - 1] - E(j - 1)
        BY <2>5, <3>1, <3>2
      <3> QED
        BY <2>4, <3>3
    <2>6. CASE E(j) = E(j + 1) + q[j].length
      <3>1. s[j] \in Nat /\ E(j + 1) \in Nat /\ q[j].length \in Nat
        BY <2>2, <2>3
      <3>2. s[j + 1] = s[j] + q[j].length
        BY <2>2
      <3>3. s[j] + E(j) = s[j + 1] + E(j + 1)
        BY <2>6, <3>1, <3>2
      <3> QED
        BY <2>4, <3>3
    <2> QED
      BY <2>1, <2>5, <2>6
  \* What ties with the first block, the end or a block at its maximum is a limit.
  <1>20. /\ F[1] = F[i] => E(i) \in limits(i)
         /\ G[n + 1] = G[i] => E(i) \in limits(i)
         /\ \A j \in 2 .. i : F[j] = F[i] /\ E(j) = q[j].max => E(i) \in limits(i)
         /\ \A j \in i .. n : G[j] = G[i] /\ E(j) = q[j].max => E(i) \in limits(i)
    <2>1. E(i) = s[i] - F[i] /\ E(i) = G[i] - s[i]
      BY <1>16
    <2>2. ASSUME F[1] = F[i] PROVE E(i) \in limits(i)
      <3>1. E(i) = Now + CellsBetween(1, i)
        BY <1>13, <2>1, <2>2
      <3> QED
        BY <3>1
    <2>3. ASSUME G[n + 1] = G[i] PROVE E(i) \in limits(i)
      <3>1. E(i) = CellsBetween(i, n + 1)
        BY <1>13, <2>1, <2>3
      <3> QED
        BY <3>1
    <2>4. ASSUME NEW j \in 2 .. i, F[j] = F[i], E(j) = q[j].max PROVE E(i) \in limits(i)
      <3>1. E(j) - E(j) + s[i] - F[i] = s[i] - F[i]
        <4>1. E(j) \in Nat
          BY <1>3, <1>5, <1>15
        <4> QED
          BY <1>16, <4>1
      <3>2. E(i) = q[j].max + CellsBetween(j, i)
        BY <1>15, <2>1, <2>4, <3>1
      <3> QED
        BY <3>2
    <2>5. ASSUME NEW j \in i .. n, G[j] = G[i], E(j) = q[j].max PROVE E(i) \in limits(i)
      <3>1. E(j) - E(j) + G[i] - s[i] = G[i] - s[i]
        <4>1. E(j) \in Nat
          BY <1>3, <1>14
        <4> QED
          BY <1>16, <4>1
      <3>2. E(i) = q[j].max + CellsBetween(i, j)
        BY <1>14, <2>1, <2>5, <3>1
      <3> QED
        BY <3>2
    <2> HIDE DEF limits
    <2> QED
      BY <2>2, <2>3, <2>4, <2>5
  <1> HIDE DEF limits
  <1>21. ASSUME G[i] = G[i + 1], F[i] # F[i - 1] PROVE E(i) \in limits(i)
    <2> DEFINE T == {x \in Nat : n + 1 - x \in i .. n + 1 /\ G[n + 1 - x] = G[i]}
    <2>1. n + 1 - i \in T
      BY <1>1, <1>11
    <2>2. PICK x \in T : \A y \in T : x <= y
      BY <2>1, LeastOf
    <2> DEFINE j == n + 1 - x
    <2>3. x \in Nat /\ j \in i .. n + 1 /\ G[j] = G[i]
      BY <2>2
    <2>4. CASE j = n + 1
      BY <1>20, <2>3, <2>4
    <2>5. CASE j # n + 1
      <3>1. j \in i .. n /\ j \in 2 .. n /\ j \in 1 .. n + 1 /\ x - 1 \in Nat /\ n + 1 - (x - 1) = j + 1
            /\ j + 1 \in i .. n + 1 /\ ~(x <= x - 1)
        BY <1>1, <2>3, <2>5
      <3>2. G[j + 1] # G[j]
        <4> SUFFICES ASSUME G[j + 1] = G[j] PROVE FALSE
          OBVIOUS
        <4>1. x - 1 \in T
          BY <2>3, <3>1
        <4> QED
          BY <2>2, <3>1, <4>1
      <3> HIDE DEF j, T
      <3>3. F[j] # F[j - 1]
        <4>1. CASE j = i
          BY <1>21, <4>1
        <4>2. CASE j # i
          <5>1. j - 1 \in 1 .. n /\ (j - 1) + 1 = j /\ j - 1 # n /\ i <= j - 1 /\ j - 1 <= j /\ j - 1 \in 1 .. n + 1
            BY <1>1, <3>1, <4>2
          <5>2. G[i] <= G[j - 1] /\ G[j - 1] <= G[j]
            BY <1>10, <1>11, <3>1, <5>1
          <5>3. G[i] \in Int /\ G[j - 1] \in Int /\ G[j] \in Int
            BY <1>8, <1>11, <3>1, <5>1
          <5>4. G[j] = G[j - 1]
            BY <2>3, <5>2, <5>3
          <5> QED
            BY <1>18, <5>1, <5>4
        <4> QED
          BY <4>1, <4>2
      <3>4. E(j) = q[j].max
        BY <1>19, <3>1, <3>2, <3>3
      <3> QED
        BY <1>20, <2>3, <3>1, <3>4
    <2> QED
      BY <2>4, <2>5
  <1>22. E(i) \in limits(i)
    <2> DEFINE T == {x \in Nat : x \in 1 .. i /\ F[x] = F[i]}
    <2>1. i \in T
      BY <1>1, <1>11
    <2>2. PICK k \in T : \A y \in T : k <= y
      BY <2>1, LeastOf
    <2>3. k \in Nat /\ k \in 1 .. i /\ F[k] = F[i]
      BY <2>2
    <2>4. CASE k = 1
      BY <1>20, <2>3, <2>4
    <2>5. CASE k # 1
      <3>1. /\ k \in 2 .. i /\ k \in 2 .. n /\ k \in 1 .. n /\ k - 1 \in Nat /\ k - 1 \in 1 .. i /\ ~(k <= k - 1)
            /\ k <= i
        BY <1>1, <2>3, <2>5
      <3>2. F[k] # F[k - 1]
        <4> SUFFICES ASSUME F[k] = F[k - 1] PROVE FALSE
          OBVIOUS
        <4>1. k - 1 \in T
          BY <2>3, <3>1
        <4> QED
          BY <2>2, <3>1, <4>1
      <3>3. CASE E(k) = q[k].max
        BY <1>20, <2>3, <3>1, <3>3
      <3>4. CASE G[k] = G[k + 1] /\ k = i
        BY <1>21, <3>2, <3>4
      <3>5. CASE G[k] = G[k + 1] /\ k # i
        <4>1. k + 1 \in 1 .. n /\ k <= k + 1 /\ k + 1 <= i /\ k # n
          BY <1>1, <3>1, <3>5
        <4>2. F[k] <= F[k + 1] /\ F[k + 1] <= F[i]
          BY <1>9, <1>11, <3>1, <4>1
        <4>3. F[k] \in Int /\ F[k + 1] \in Int /\ F[i] \in Int
          BY <1>7, <1>11, <3>1, <4>1
        <4>4. F[k + 1] = F[k]
          BY <2>3, <4>2, <4>3
        <4> QED
          BY <1>18, <3>1, <3>5, <4>1, <4>4
      <3> QED
        BY <1>19, <3>1, <3>2, <3>3, <3>4, <3>5
    <2> QED
      BY <2>4, <2>5
  <1>23. \A m \in limits(i) : (\A k \in limits(i) : m <= k) => m = E(i)
    BY <1>16, <1>17, <1>22
  <1> QED
    BY <1>11, <1>17, <1>22, <1>23

-----------------------------------------------------------------------------
(* The plan made again.                                                    *)

\* The same motions, limited in the same way.
SameBlocks(q, w) ==
  /\ w \in Seq(Block) /\ Len(w) = Len(q)
  /\ \A i \in 1 .. Len(q) : /\ w[i].length = q[i].length /\ w[i].max = q[i].max
                            /\ w[i].junction = q[i].junction /\ w[i].rate = q[i].rate

\* With the same entries after the first, or higher limits, a plan can stop as before.
LEMMA StopsAsBefore ==
  ASSUME NEW q \in Seq(Block), NEW w \in Seq(Block), Len(w) = Len(q), NEW now,
         \A i \in 1 .. Len(q) : w[i].length = q[i].length,
         \A i \in 2 .. Len(q) : w[i].entry = q[i].entry /\ w[i].max >= q[i].max,
         CanStop(q, now)
  PROVE  CanStop(w, now)
  <1> DEFINE n == Len(q)
  <1>1. n \in Nat
    OBVIOUS
  <1>2. ASSUME NEW i \in 1 .. n
        PROVE  /\ EntryAt(w, now, i) <= EntryAt(w, now, i + 1) + w[i].length
               /\ i > 1 => w[i].entry <= w[i].max
    <2>1. EntryAt(w, now, i) = EntryAt(q, now, i)
      <3>1. i = 1 \/ i \in 2 .. n
        BY <1>1
      <3> QED
        BY <3>1 DEF EntryAt
    <2>2. EntryAt(w, now, i + 1) = EntryAt(q, now, i + 1)
      <3>1. i + 1 # 1 /\ (i + 1 <= n => i + 1 \in 2 .. n)
        BY <1>1
      <3> QED
        BY <3>1 DEF EntryAt
    <2>3. ASSUME i > 1 PROVE w[i].entry <= w[i].max
      <3>1. i \in 2 .. n /\ i \in 1 .. n
        BY <1>1, <2>3
      <3>2. q[i].entry <= q[i].max
        BY <2>3 DEF CanStop
      <3>3. w[i].max \in Nat /\ q[i].max \in Nat /\ q[i].entry \in Nat
        BY <3>1, BlockFields
      <3> QED
        BY <3>1, <3>2, <3>3
    <2> QED
      BY <2>1, <2>2, <2>3 DEF CanStop
  <1> QED
    BY <1>2 DEF CanStop

\* With the same blocks after the first, all of the way is used as before.
LEMMA UsedAsBefore ==
  ASSUME NEW q \in Seq(Block), NEW w \in Seq(Block), Len(w) = Len(q), NEW now, NEW p,
         \A i \in 1 .. Len(q) : w[i].length = q[i].length,
         \A i \in 2 .. Len(q) : w[i].entry = q[i].entry /\ w[i].max = q[i].max,
         FullyUsed(q, now, p)
  PROVE  FullyUsed(w, now, p)
  <1> DEFINE n == Len(q)
  <1>1. n \in Nat
    OBVIOUS
  <1>2. ASSUME NEW i \in 2 .. n PROVE CannotBeRaised(w, now, p, i)
    <2>1. EntryAt(w, now, i - 1) = EntryAt(q, now, i - 1)
      <3>1. i - 1 = 1 \/ (i - 1 # 1 /\ i - 1 \in 2 .. n)
        BY <1>1
      <3> QED
        BY <3>1 DEF EntryAt
    <2>2. EntryAt(w, now, i + 1) = EntryAt(q, now, i + 1)
      <3>1. i + 1 # 1 /\ (i + 1 <= n => i + 1 \in 2 .. n)
        BY <1>1
      <3> QED
        BY <3>1 DEF EntryAt
    <2>3. w[i - 1].length = q[i - 1].length /\ w[i].length = q[i].length
      <3>1. i \in 1 .. n /\ i - 1 \in 1 .. n
        BY <1>1
      <3> QED
        BY <3>1
    <2>4. CannotBeRaised(q, now, p, i)
      BY DEF FullyUsed
    <2> QED
      BY <2>1, <2>2, <2>3, <2>4 DEF CannotBeRaised
  <1> QED
    BY <1>2 DEF FullyUsed

\* The speed of now as the entry of the first block changes nothing else.
LEMMA FirstEntryIs ==
  ASSUME NEW q \in Seq(Block), Len(q) > 0, NEW v \in Nat
  PROVE  LET w == [q EXCEPT ![1].entry = v]
         IN  SameBlocks(q, w) /\ w[1].entry = v /\ \A i \in 2 .. Len(q) : w[i] = q[i]
  <1> DEFINE n == Len(q)
             w == [q EXCEPT ![1].entry = v]
  <1>1. n \in Nat /\ 1 \in 1 .. n
    OBVIOUS
  <1>2. q[1] \in Block
    BY <1>1
  <1> DEFINE b == [q[1] EXCEPT !.entry = v]
  <1>3. b \in Block /\ b.entry = v /\ b.length = q[1].length /\ b.max = q[1].max
        /\ b.junction = q[1].junction /\ b.rate = q[1].rate
    BY <1>2 DEF Block
  <1>4. w = [q EXCEPT ![1] = b]
    OBVIOUS
  <1> HIDE DEF b, w
  <1>5. w \in Seq(Block) /\ Len(w) = n /\ w[1] = b /\ \A i \in 1 .. n : i # 1 => w[i] = q[i]
    BY <1>1, <1>3, <1>4
  <1>6. \A i \in 1 .. n : /\ w[i].length = q[i].length /\ w[i].max = q[i].max
                          /\ w[i].junction = q[i].junction /\ w[i].rate = q[i].rate
    BY <1>3, <1>5
  <1>7. \A i \in 2 .. n : w[i] = q[i]
    <2>1. \A i \in 2 .. n : i \in 1 .. n /\ i # 1
      BY <1>1
    <2> QED
      BY <1>5, <2>1
  <1> QED
    BY <1>3, <1>5, <1>6, <1>7 DEF SameBlocks, w

\* planner_recalculate keeps the motions and makes a plan that can stop and uses all of
\* the way.
LEMMA RecalculatedPlan ==
  ASSUME pn_speed \in Nat, NEW q \in Seq(Block), NEW p \in 1 .. Len(q), p < Len(q), NEW now \in Nat,
         CanStop(q, now),
         p = 1 => now = IF pn_loaded THEN pn_speed ELSE q[1].entry
  PROVE  LET made == Recalculated(q, p)
         IN  /\ SameBlocks(q, made.queue) /\ made.planned \in 1 .. Len(q)
             /\ made.updated = (p = 1 /\ pn_loaded)
             /\ CanStop(made.queue, now)
             /\ (\A i \in 2 .. p : CannotBeRaised(q, now, p, i)) => FullyUsed(made.queue, now, made.planned)
             /\ ~pn_loaded => made.queue[1].entry = q[1].entry
             /\ p # 1 => made.queue[2].entry = q[2].entry
  <1> DEFINE n == Len(q)
             made == Recalculated(q, p)
             q1 == IF p = 1 THEN Updated(q) ELSE q
             r == ReversePass(q1, p)
             e == Forward(q1, r, p)
  <1>1. n \in Nat /\ p \in Nat /\ p # n /\ n > 0
    OBVIOUS
  <1>2. made = [queue |-> WithEntries(q1, e), planned |-> NextPlanned(q1, r, e, p),
                updated |-> p = 1 /\ pn_loaded]
    BY <1>1 DEF Recalculated, WithEntries
  <1>3. /\ SameBlocks(q, q1) /\ \A i \in 2 .. n : q1[i] = q[i]
        /\ p = 1 => q1[1].entry = now
        /\ ~pn_loaded \/ p # 1 => q1 = q
    <2>1. CASE p = 1 /\ pn_loaded
      BY <1>1, <2>1, FirstEntryIs DEF Updated
    <2>2. CASE ~(p = 1 /\ pn_loaded)
      <3>1. q1 = q
        BY <2>2 DEF Updated
      <3> QED
        BY <2>2, <3>1 DEF SameBlocks
    <2> QED
      BY <2>1, <2>2
  <1> HIDE DEF q1
  <1>4. q1 \in Seq(Block) /\ Len(q1) = n
    BY <1>3 DEF SameBlocks
  <1>5. CanStop(q1, now)
    <2>1. \A i \in 1 .. n : q1[i].length = q[i].length
      BY <1>3 DEF SameBlocks
    <2>2. \A i \in 2 .. n : q1[i].entry = q[i].entry /\ q1[i].max >= q[i].max
      <3>1. \A i \in 2 .. n : i \in 1 .. n
        BY <1>1
      <3> QED
        BY <1>3, <3>1, BlockFields
    <2> QED
      BY <1>4, <2>1, <2>2, StopsAsBefore
  <1>6. /\ e \in [1 .. n -> Nat] /\ NextPlanned(q1, r, e, p) \in 1 .. n
        /\ CanStop(WithEntries(q1, e), now)
        /\ \A i \in 1 .. p : e[i] = q1[i].entry
        /\ (\A i \in 2 .. p : CannotBeRaised(q1, now, p, i))
             => FullyUsed(WithEntries(q1, e), now, NextPlanned(q1, r, e, p))
    BY <1>3, <1>4, <1>5, PassesPlan
  <1> HIDE DEF e, r
  <1>7. /\ WithEntries(q1, e) \in Seq(Block) /\ Len(WithEntries(q1, e)) = n
        /\ \A i \in 1 .. n : /\ WithEntries(q1, e)[i] = [q1[i] EXCEPT !.entry = e[i]]
                             /\ WithEntries(q1, e)[i].entry = e[i]
    BY <1>4, <1>6, WithEntriesIs
  <1>8. SameBlocks(q, WithEntries(q1, e))
    <2>1. ASSUME NEW i \in 1 .. n
          PROVE  /\ WithEntries(q1, e)[i].length = q[i].length /\ WithEntries(q1, e)[i].max = q[i].max
                 /\ WithEntries(q1, e)[i].junction = q[i].junction /\ WithEntries(q1, e)[i].rate = q[i].rate
      <3>1. q1[i] \in Block
        BY <1>4
      <3>2. /\ q1[i].length = q[i].length /\ q1[i].max = q[i].max
            /\ q1[i].junction = q[i].junction /\ q1[i].rate = q[i].rate
        BY <1>3 DEF SameBlocks
      <3> QED
        BY <1>7, <3>1, <3>2 DEF Block
    <2> QED
      BY <1>7, <2>1 DEF SameBlocks
  <1>9. (\A i \in 2 .. p : CannotBeRaised(q, now, p, i)) => \A i \in 2 .. p : CannotBeRaised(q1, now, p, i)
    <2>1. CASE p = 1
      <3>1. 2 .. p = {}
        BY <2>1
      <3> QED
        BY <3>1
    <2>2. CASE p # 1
      BY <1>3, <2>2
    <2> QED
      BY <2>1, <2>2
  <1>10. ~pn_loaded => e[1] = q[1].entry
    <2>1. 1 \in 1 .. p
      BY <1>1
    <2> QED
      BY <1>3, <1>6, <2>1
  <1>11. p # 1 => e[2] = q[2].entry /\ 2 \in 1 .. n
    <2>1. p # 1 => 2 \in 1 .. p /\ 2 \in 1 .. n
      BY <1>1
    <2> QED
      BY <1>3, <1>6, <2>1
  <1>12. 1 \in 1 .. n
    BY <1>1
  <1> HIDE DEF made
  <1>13. made.queue = WithEntries(q1, e) /\ made.planned = NextPlanned(q1, r, e, p)
         /\ made.updated = (p = 1 /\ pn_loaded)
    BY <1>2
  <1>14. SameBlocks(q, made.queue) /\ made.planned \in 1 .. n /\ CanStop(made.queue, now)
    BY <1>6, <1>8, <1>13
  <1>15. (\A i \in 2 .. p : CannotBeRaised(q, now, p, i)) => FullyUsed(made.queue, now, made.planned)
    BY <1>6, <1>9, <1>13
  <1>16. /\ ~pn_loaded => made.queue[1].entry = q[1].entry
         /\ p # 1 => made.queue[2].entry = q[2].entry
    BY <1>7, <1>10, <1>11, <1>12, <1>13
  <1> QED
    BY <1>13, <1>14, <1>15, <1>16 DEF made

\* A nominal speed is positive.
LEMMA NominalIs ==
  ASSUME NEW b \in Block, NEW f \in Overrides
  PROVE  NominalSpeed(b, f) \in Nat \ {0}
  <1>1. b.rate \in DOMAIN Nominal
    BY DEF Block
  <1>2. Nominal[b.rate] \in [Overrides -> Nat \ {0}]
    BY <1>1, PnAssumption
  <1> QED
    BY <1>2 DEF NominalSpeed

\* The maximum of an entry is the least of the junction and both nominal speeds.
LEMMA MaxEntryIs ==
  ASSUME NEW j \in Nat, NEW a \in Nat, NEW b \in Nat
  PROVE  MaxEntry(j, a, b) \in Nat /\ MaxEntry(j, a, b) <= j /\ MaxEntry(j, a, b) <= a /\ MaxEntry(j, a, b) <= b
  <1>1. \A x, y \in Nat : PnMin(x, y) \in Nat /\ PnMin(x, y) <= x /\ PnMin(x, y) <= y
    BY DEF PnMin
  <1>2. PnMin(a, b) \in Nat /\ PnMin(a, b) <= a /\ PnMin(a, b) <= b
    BY <1>1
  <1> HIDE DEF PnMin
  <1> DEFINE m == PnMin(a, b)
  <1>3. m \in Nat /\ m <= a /\ m <= b
    BY <1>2
  <1>4. MaxEntry(j, a, b) = PnMin(j, m)
    BY DEF MaxEntry
  <1> HIDE DEF m
  <1>5. PnMin(j, m) \in Nat /\ PnMin(j, m) <= j /\ PnMin(j, m) <= m
    BY <1>1, <1>3
  <1> QED
    BY <1>3, <1>4, <1>5

\* The maxima depend on the motions alone.
LEMMA SameMaxima ==
  ASSUME NEW q \in Seq(Block), NEW w, SameBlocks(q, w), NEW f, MaximaAreCurrent(q, f)
  PROVE  MaximaAreCurrent(w, f) /\ \A i \in 1 .. Len(q) : NominalSpeed(w[i], f) = NominalSpeed(q[i], f)
  <1>1. \A i \in 1 .. Len(q) : NominalSpeed(w[i], f) = NominalSpeed(q[i], f)
    BY DEF SameBlocks, NominalSpeed
  <1>2. ASSUME NEW i \in 2 .. Len(q)
        PROVE  w[i].max = MaxEntry(w[i].junction, NominalSpeed(w[i], f), NominalSpeed(w[i - 1], f))
    <2>1. i \in 1 .. Len(q) /\ i - 1 \in 1 .. Len(q)
      OBVIOUS
    <2>2. q[i].max = MaxEntry(q[i].junction, NominalSpeed(q[i], f), NominalSpeed(q[i - 1], f))
      BY DEF MaximaAreCurrent
    <2> QED
      BY <1>1, <2>1, <2>2 DEF SameBlocks
  <1> QED
    BY <1>1, <1>2 DEF MaximaAreCurrent, SameBlocks

\* Those of the blocks after the first one too.
LEMMA TailMaxima ==
  ASSUME NEW q \in Seq(Block), Len(q) > 0, NEW f, MaximaAreCurrent(q, f)
  PROVE  MaximaAreCurrent(Tail(q), f)
  <1> DEFINE n == Len(q)
             w == Tail(q)
  <1>1. n \in Nat /\ n > 0 /\ Len(w) = n - 1 /\ \A i \in 1 .. n - 1 : w[i] = q[i + 1]
    OBVIOUS
  <1> HIDE DEF w
  <1>2. ASSUME NEW i \in 2 .. n - 1
        PROVE  w[i].max = MaxEntry(w[i].junction, NominalSpeed(w[i], f), NominalSpeed(w[i - 1], f))
    <2>1. i \in 1 .. n - 1 /\ i - 1 \in 1 .. n - 1 /\ i + 1 \in 2 .. n /\ i + 1 - 1 = i /\ i - 1 + 1 = i
      BY <1>1
    <2>2. w[i] = q[i + 1] /\ w[i - 1] = q[i - 1 + 1]
      BY <1>1, <2>1
    <2>3. q[i + 1].max = MaxEntry(q[i + 1].junction, NominalSpeed(q[i + 1], f), NominalSpeed(q[i + 1 - 1], f))
      BY <2>1 DEF MaximaAreCurrent
    <2> QED
      BY <2>1, <2>2, <2>3
  <1> QED
    BY <1>1, <1>2 DEF MaximaAreCurrent, w

\* plan_cycle_reinitialize makes a plan that can stop and uses all of the way.
LEMMA ReinitializedPlan ==
  ASSUME pn_speed \in Nat, NEW q \in Seq(Block), Len(q) > 0, NEW now \in Nat,
         CanStop(q, now), now = IF pn_loaded THEN pn_speed ELSE q[1].entry
  PROVE  LET made == Recalculated(Updated(q), 1)
         IN  /\ SameBlocks(q, made.queue) /\ made.planned \in 1 .. Len(q)
             /\ CanStop(made.queue, now) /\ FullyUsed(made.queue, now, made.planned)
             /\ ~pn_loaded => made.queue[1].entry = q[1].entry
  <1> DEFINE n == Len(q)
             q1 == Updated(q)
             made == Recalculated(q1, 1)
  <1>1. n \in Nat /\ n > 0 /\ 1 \in 1 .. n /\ q # <<>>
    OBVIOUS
  <1>2. made = Recalculated(q1, 1)
    OBVIOUS
  <1>3. /\ SameBlocks(q, q1) /\ \A i \in 2 .. n : q1[i] = q[i]
        /\ pn_loaded => q1[1].entry = pn_speed
        /\ ~pn_loaded => q1 = q
    <2>1. CASE pn_loaded
      BY <2>1, FirstEntryIs DEF Updated
    <2>2. CASE ~pn_loaded
      BY <2>2 DEF Updated, SameBlocks
    <2> QED
      BY <2>1, <2>2
  <1> HIDE DEF q1
  <1>4. q1 \in Seq(Block) /\ Len(q1) = n
    BY <1>3 DEF SameBlocks
  <1>5. CanStop(q1, now)
    <2>1. \A i \in 1 .. n : q1[i].length = q[i].length
      BY <1>3 DEF SameBlocks
    <2>2. \A i \in 2 .. n : q1[i].entry = q[i].entry /\ q1[i].max >= q[i].max
      <3>1. \A i \in 2 .. n : i \in 1 .. n
        BY <1>1
      <3> QED
        BY <1>3, <3>1, BlockFields
    <2> QED
      BY <1>4, <2>1, <2>2, StopsAsBefore
  <1>6. now = IF pn_loaded THEN pn_speed ELSE q1[1].entry
    BY <1>3
  <1>7. CASE n = 1
    <2>1. made.queue = q1 /\ made.planned = 1
      BY <1>2, <1>4, <1>7 DEF Recalculated
    <2>2. FullyUsed(q1, now, 1)
      BY <1>4, <1>7 DEF FullyUsed
    <2> QED
      BY <1>1, <1>3, <1>5, <2>1, <2>2 DEF made, q1
  <1>8. CASE n # 1
    <2>1. 1 < Len(q1) /\ 1 \in 1 .. Len(q1) /\ 2 .. 1 = {}
      BY <1>1, <1>4, <1>8
    <2>2. /\ SameBlocks(q1, made.queue) /\ made.planned \in 1 .. Len(q1)
          /\ CanStop(made.queue, now) /\ FullyUsed(made.queue, now, made.planned)
          /\ ~pn_loaded => made.queue[1].entry = q1[1].entry
      BY <1>2, <1>4, <1>5, <1>6, <2>1, RecalculatedPlan
    <2>3. SameBlocks(q, made.queue)
      <3> HIDE DEF made
      <3> QED
        BY <1>3, <1>4, <2>2 DEF SameBlocks
    <2> QED
      BY <1>3, <1>4, <2>2, <2>3 DEF made, q1
  <1> QED
    BY <1>7, <1>8

\* Over an empty queue plan_cycle_reinitialize moves the planned pointer alone.
LEMMA EmptyReinitialized ==
  ASSUME NEW q, q = <<>>, NEW made \in Reinitialized(q)
  PROVE  made.queue = <<>> /\ made.planned \in Nat \ {0} /\ made.updated = FALSE
  <1>1. PICK i \in 1 .. BufferSize : made = [queue |-> q, planned |-> i, updated |-> FALSE]
    BY DEF Reinitialized
  <1>2. i \in Nat \ {0}
    BY PnAssumption
  <1> QED
    BY <1>1, <1>2

\* The maxima of an override belong to it, and nothing else changes.
LEMMA MaximaOfOverride ==
  ASSUME NEW q \in Seq(Block), NEW f \in Overrides
  PROVE  LET w == WithMaxima(q, f)
         IN  /\ w \in Seq(Block) /\ Len(w) = Len(q) /\ MaximaAreCurrent(w, f)
             /\ \A i \in 1 .. Len(q) :
                  /\ w[i].entry = q[i].entry /\ w[i].length = q[i].length
                  /\ w[i].junction = q[i].junction /\ w[i].rate = q[i].rate
  <1> DEFINE n == Len(q)
             max(i) == IF i = 1 THEN PnMin(q[i].junction, NominalSpeed(q[i], f))
                       ELSE MaxEntry(q[i].junction, NominalSpeed(q[i], f), NominalSpeed(q[i - 1], f))
             w == WithMaxima(q, f)
  <1>1. n \in Nat /\ DOMAIN q = 1 .. n
    OBVIOUS
  <1>2. w = [i \in 1 .. n |-> [q[i] EXCEPT !.max = max(i)]]
    BY <1>1 DEF WithMaxima
  <1>3. ASSUME NEW i \in 1 .. n PROVE q[i] \in Block /\ NominalSpeed(q[i], f) \in Nat
    <2>1. q[i] \in Block
      OBVIOUS
    <2> QED
      BY <2>1, NominalIs
  <1>4. ASSUME NEW i \in 1 .. n PROVE max(i) \in Nat
    <2>1. CASE i = 1
      <3>1. \A x, y \in Nat : PnMin(x, y) \in Nat
        BY DEF PnMin
      <3> QED
        BY <1>3, <2>1, <3>1, BlockFields
    <2>2. CASE i # 1
      <3>1. i - 1 \in 1 .. n
        BY <1>1, <2>2
      <3> QED
        BY <1>3, <2>2, <3>1, BlockFields, MaxEntryIs
    <2> QED
      BY <2>1, <2>2
  <1> HIDE DEF w, max
  <1>5. ASSUME NEW i \in 1 .. n
        PROVE  /\ w[i] \in Block /\ w[i].max = max(i) /\ w[i].entry = q[i].entry
               /\ w[i].length = q[i].length /\ w[i].junction = q[i].junction /\ w[i].rate = q[i].rate
    <2>1. w[i] = [q[i] EXCEPT !.max = max(i)]
      BY <1>2
    <2> QED
      BY <1>3, <1>4, <2>1 DEF Block
  <1>6. w \in Seq(Block) /\ Len(w) = n
    <2>1. w \in [1 .. n -> Block]
      BY <1>2, <1>5
    <2> QED
      BY <1>1, <2>1, SeqDef
  <1>7. \A i \in 1 .. n : NominalSpeed(w[i], f) = NominalSpeed(q[i], f)
    BY <1>5 DEF NominalSpeed
  <1>8. MaximaAreCurrent(w, f)
    <2>1. ASSUME NEW i \in 2 .. n
          PROVE  w[i].max = MaxEntry(w[i].junction, NominalSpeed(w[i], f), NominalSpeed(w[i - 1], f))
      <3>1. i \in 1 .. n /\ i - 1 \in 1 .. n /\ i # 1
        BY <1>1
      <3> QED
        BY <1>5, <1>7, <3>1 DEF max
    <2> QED
      BY <1>6, <2>1 DEF MaximaAreCurrent
  <1> QED
    BY <1>5, <1>6, <1>8 DEF w

\* An override that slows no block leaves the plan one that can stop.
LEMMA WithMaximaIs ==
  ASSUME NEW q \in Seq(Block), Len(q) > 0, NEW g \in Overrides, NEW f \in Overrides,
         \A i \in 1 .. Len(q) : NominalSpeed(q[i], g) <= NominalSpeed(q[i], f),
         MaximaAreCurrent(q, g), NEW now, CanStop(q, now)
  PROVE  CanStop(WithMaxima(q, f), now)
  <1> DEFINE n == Len(q)
             w == WithMaxima(q, f)
  <1>1. n \in Nat
    OBVIOUS
  <1>2. /\ w \in Seq(Block) /\ Len(w) = n /\ MaximaAreCurrent(w, f)
        /\ \A i \in 1 .. n : /\ w[i].entry = q[i].entry /\ w[i].length = q[i].length
                             /\ w[i].junction = q[i].junction /\ w[i].rate = q[i].rate
    BY MaximaOfOverride
  <1> HIDE DEF w
  <1>3. \A i \in 1 .. n : NominalSpeed(w[i], f) = NominalSpeed(q[i], f)
    BY <1>2 DEF NominalSpeed
  <1>4. ASSUME NEW i \in 1 .. n
        PROVE  NominalSpeed(q[i], f) \in Nat /\ NominalSpeed(q[i], g) \in Nat
               /\ NominalSpeed(q[i], g) <= NominalSpeed(q[i], f)
    <2>1. q[i] \in Block
      OBVIOUS
    <2>2. NominalSpeed(q[i], g) <= NominalSpeed(q[i], f)
      OBVIOUS
    <2> QED
      BY <2>1, <2>2, NominalIs
  <1>5. ASSUME NEW i \in 2 .. n PROVE w[i].max >= q[i].max
    <2>1. i \in 1 .. n /\ i - 1 \in 1 .. n /\ i # 1
      BY <1>1
    <2> DEFINE a == NominalSpeed(q[i], g)
               b == NominalSpeed(q[i - 1], g)
               c == NominalSpeed(q[i], f)
               d == NominalSpeed(q[i - 1], f)
               j == q[i].junction
    <2>2. a \in Nat /\ b \in Nat /\ c \in Nat /\ d \in Nat /\ a <= c /\ b <= d /\ j \in Nat
      BY <1>4, <2>1, BlockFields
    <2>3. q[i].max = MaxEntry(j, a, b)
      BY DEF MaximaAreCurrent
    <2>4. w[i].max = MaxEntry(j, c, d)
      BY <1>2, <1>3, <2>1 DEF MaximaAreCurrent
    <2> HIDE DEF a, b, c, d, j
    <2>5. MaxEntry(j, a, b) <= MaxEntry(j, c, d)
      BY <2>2 DEF MaxEntry, PnMin
    <2>6. MaxEntry(j, a, b) \in Nat /\ MaxEntry(j, c, d) \in Nat
      BY <2>2, MaxEntryIs
    <2> QED
      BY <2>3, <2>4, <2>5, <2>6
  <1>6. \A i \in 2 .. n : w[i].entry = q[i].entry /\ w[i].max >= q[i].max
    <2>1. \A i \in 2 .. n : i \in 1 .. n
      BY <1>1
    <2> QED
      BY <1>2, <1>5, <2>1
  <1> QED
    BY <1>2, <1>6, StopsAsBefore DEF w

-----------------------------------------------------------------------------
(* The steps.                                                              *)

\* The inductive invariant.
PlanSound == PlanKept /\ AccelerationKept /\ PlanEndsInStop

\* The exit speed of the first block is the entry of the second one, or a stop.
LEMMA ExitIs ==
  ASSUME NEW q \in Seq(Block), NEW now
  PROVE  ExitOf(q) \in Nat /\ ExitOf(q) = EntryAt(q, now, 2)
  <1>1. Len(q) \in Nat
    OBVIOUS
  <1>2. CASE Len(q) < 2
    <2>1. ~(2 <= Len(q))
      BY <1>1, <1>2
    <2> QED
      BY <1>2, <2>1 DEF ExitOf, EntryAt
  <1>3. CASE ~(Len(q) < 2)
    <2>1. 2 <= Len(q) /\ 2 \in 1 .. Len(q)
      BY <1>1, <1>3
    <2>2. q[2].entry \in Nat
      BY <2>1, BlockFields
    <2> QED
      BY <1>3, <2>1, <2>2 DEF ExitOf, EntryAt
  <1> QED
    BY <1>2, <1>3

\* What the invariant says of the types.
LEMMA KeptMeans ==
  ASSUME PlanKept
  PROVE  /\ pn_queue \in Seq(Block) /\ Len(pn_queue) \in Nat /\ (pn_queue = <<>> <=> Len(pn_queue) = 0)
         /\ pn_planned \in Nat \ {0}
         /\ (pn_queue # <<>> => pn_planned \in 1 .. Len(pn_queue) /\ Now \in Nat /\ 1 \in 1 .. Len(pn_queue))
         /\ (pn_queue = <<>> => ~pn_loaded)
         /\ pn_speed \in Nat /\ pn_exit \in Nat /\ pn_previous \in Nat /\ pn_override \in Overrides
  <1>1. /\ pn_queue \in Seq(Block) /\ pn_planned \in Nat \ {0} /\ (pn_queue = <<>> \/ pn_planned <= Len(pn_queue))
        /\ pn_speed \in Nat /\ pn_exit \in Nat /\ pn_previous \in Nat /\ pn_override \in Overrides
    BY DEF PlanKept, PnTypeOK
  <1>2. Len(pn_queue) \in Nat /\ (pn_queue = <<>> <=> Len(pn_queue) = 0)
    BY <1>1
  <1>3. pn_queue # <<>> => 1 \in 1 .. Len(pn_queue)
    BY <1>2
  <1>4. pn_queue # <<>> => Now \in Nat
    BY <1>1, <1>3, BlockFields DEF Now
  <1>5. pn_queue = <<>> => ~pn_loaded
    BY DEF PlanKept, ProfileJoins
  <1> QED
    BY <1>1, <1>2, <1>3, <1>4, <1>5

\* The invariant holds in the beginning.
LEMMA PlanStartsSound == PnInit => PlanSound
  <1> SUFFICES ASSUME PnInit PROVE PlanSound
    OBVIOUS
  <1>1. Len(pn_queue) = 0 /\ pn_queue = <<>> /\ pn_queue \in Seq(Block)
    BY DEF PnInit
  <1>2. PnTypeOK
    <2>1. pn_loaded \in BOOLEAN /\ pn_hold \in BOOLEAN /\ pn_decel \in BOOLEAN /\ pn_lowered \in BOOLEAN
      BY DEF PnInit
    <2>2. /\ pn_planned \in Nat \ {0} /\ pn_planned = 1
          /\ pn_speed \in Nat /\ pn_exit \in Nat /\ pn_previous \in Nat /\ pn_override \in Overrides
      BY DEF PnInit
    <2> QED
      BY <1>1, <2>1, <2>2 DEF PnTypeOK
  <1>3. MaximaAreCurrent(pn_queue, pn_override) /\ SpeedsAreCurrent /\ ProfileJoins
    BY <1>1 DEF PnInit, MaximaAreCurrent, SpeedsAreCurrent, ProfileJoins
  <1>4. CanStop(pn_queue, Now) /\ FullyUsed(pn_queue, Now, pn_planned)
    BY <1>1 DEF CanStop, FullyUsed
  <1>5. AccelerationKept /\ PlanEndsInStop
    BY DEF PnInit, AccelerationKept, PlanEndsInStop
  <1> QED
    BY <1>2, <1>3, <1>4, <1>5 DEF PlanSound, PlanKept

\* The block that plan_buffer_line appends for the line l.
LineBlock(l) ==
  [length |-> l.length, junction |-> IF pn_queue = <<>> THEN 0 ELSE l.junction, rate |-> l.rate,
   max |-> MaxEntry(IF pn_queue = <<>> THEN 0 ELSE l.junction, Nominal[l.rate][pn_override], pn_previous),
   entry |-> 0]

\* Its maximum is current, if the speed that it is joined to is.
LEMMA LineBlockIs ==
  ASSUME NEW l \in Lines, pn_queue \in Seq(Block), pn_previous \in Nat, pn_override \in Overrides,
         MaximaAreCurrent(pn_queue, pn_override),
         pn_queue # <<>> => pn_previous = NominalSpeed(pn_queue[Len(pn_queue)], pn_override)
  PROVE  /\ LineBlock(l) \in Block /\ LineBlock(l).entry = 0 /\ LineBlock(l).length \in Nat
         /\ Nominal[l.rate][pn_override] \in Nat
         /\ NominalSpeed(LineBlock(l), pn_override) = Nominal[l.rate][pn_override]
         /\ MaximaAreCurrent(Append(pn_queue, LineBlock(l)), pn_override)
  <1> DEFINE n == Len(pn_queue)
             nominal == Nominal[l.rate][pn_override]
             j == IF pn_queue = <<>> THEN 0 ELSE l.junction
             b == LineBlock(l)
             q == Append(pn_queue, b)
  <1>1. l.length \in Nat \ {0} /\ l.junction \in Nat /\ l.rate \in DOMAIN Nominal
    BY PnAssumption
  <1>2. nominal \in Nat
    <2>1. Nominal[l.rate] \in [Overrides -> Nat \ {0}]
      BY <1>1, PnAssumption
    <2> QED
      BY <2>1
  <1>3. j \in Nat
    BY <1>1
  <1>4. MaxEntry(j, nominal, pn_previous) \in Nat
    BY <1>2, <1>3, MaxEntryIs
  <1>5. b = [length |-> l.length, junction |-> j, rate |-> l.rate,
             max |-> MaxEntry(j, nominal, pn_previous), entry |-> 0]
    BY DEF LineBlock
  <1> HIDE DEF j, nominal, b
  <1>6. b \in Block /\ b.entry = 0 /\ b.rate = l.rate /\ b.junction = j
        /\ b.max = MaxEntry(j, nominal, pn_previous) /\ b.length \in Nat
    BY <1>1, <1>3, <1>4, <1>5 DEF Block
  <1>7. NominalSpeed(b, pn_override) = nominal
    BY <1>6 DEF NominalSpeed, nominal
  <1>8. n \in Nat /\ Len(q) = n + 1 /\ q[n + 1] = b /\ (\A i \in 1 .. n : q[i] = pn_queue[i])
        /\ (n # 0 => pn_queue # <<>>)
    BY <1>6
  <1> HIDE DEF q
  <1>9. ASSUME NEW i \in 2 .. n + 1
        PROVE  q[i].max = MaxEntry(q[i].junction, NominalSpeed(q[i], pn_override),
                                   NominalSpeed(q[i - 1], pn_override))
    <2>1. CASE i \in 2 .. n
      <3>1. i \in 1 .. n /\ i - 1 \in 1 .. n
        BY <1>8, <2>1
      <3> QED
        BY <1>8, <2>1, <3>1 DEF MaximaAreCurrent
    <2>2. CASE i = n + 1
      <3>1. i - 1 = n /\ n \in 1 .. n /\ n # 0
        BY <1>8, <2>2
      <3>2. pn_previous = NominalSpeed(q[n], pn_override)
        BY <1>8, <3>1
      <3> QED
        BY <1>6, <1>7, <1>8, <2>2, <3>1, <3>2
    <2> QED
      BY <1>8, <2>1, <2>2
  <1>10. MaximaAreCurrent(q, pn_override)
    BY <1>8, <1>9 DEF MaximaAreCurrent
  <1> QED
    BY <1>2, <1>6, <1>7, <1>10 DEF q, b, nominal

\* A line joined to the plan.
LEMMA AppendedPlan ==
  ASSUME NEW q \in Seq(Block), Len(q) > 0, NEW b \in Block, b.entry = 0, NEW now \in Nat, CanStop(q, now)
  PROVE  /\ Append(q, b) \in Seq(Block) /\ Len(Append(q, b)) = Len(q) + 1
         /\ CanStop(Append(q, b), now)
         /\ \A i \in 2 .. Len(q), p \in Nat :
              CannotBeRaised(q, now, p, i) => CannotBeRaised(Append(q, b), now, p, i)
  <1> DEFINE n == Len(q)
             w == Append(q, b)
  <1>1. n \in Nat /\ w \in Seq(Block) /\ Len(w) = n + 1 /\ w[n + 1] = b /\ \A i \in 1 .. n : w[i] = q[i]
    OBVIOUS
  <1> HIDE DEF w
  <1>2. b.length \in Nat /\ b.max \in Nat
    BY DEF Block
  <1>3. ASSUME NEW i \in 1 .. n
        PROVE EntryAt(w, now, i) = EntryAt(q, now, i) /\ EntryAt(w, now, i + 1) = EntryAt(q, now, i + 1)
    <2>1. i <= n /\ i <= n + 1 /\ i + 1 # 1 /\ i + 1 <= n + 1 /\ (i + 1 <= n <=> i + 1 # n + 1)
          /\ (i + 1 <= n => i + 1 \in 1 .. n)
      BY <1>1
    <2>2. EntryAt(w, now, i) = EntryAt(q, now, i)
      BY <1>1, <2>1 DEF EntryAt
    <2>3. CASE i + 1 <= n
      BY <1>1, <2>1, <2>2, <2>3 DEF EntryAt
    <2>4. CASE ~(i + 1 <= n)
      <3>1. i + 1 = n + 1
        BY <2>1, <2>4
      <3>2. EntryAt(w, now, i + 1) = 0
        BY <1>1, <2>1, <3>1 DEF EntryAt
      <3> QED
        BY <2>1, <2>2, <2>4, <3>2 DEF EntryAt
    <2> QED
      BY <2>3, <2>4
  <1>4. CanStop(w, now)
    <2>1. ASSUME NEW i \in 1 .. n
          PROVE  /\ EntryAt(w, now, i) <= EntryAt(w, now, i + 1) + w[i].length
                 /\ i > 1 => w[i].entry <= w[i].max
      BY <1>1, <1>3 DEF CanStop
    <2>2. /\ EntryAt(w, now, n + 1) <= EntryAt(w, now, (n + 1) + 1) + w[n + 1].length
          /\ w[n + 1].entry <= w[n + 1].max
      <3>1. EntryAt(w, now, n + 1) = 0 /\ EntryAt(w, now, (n + 1) + 1) = 0
        BY <1>1 DEF EntryAt
      <3> QED
        BY <1>1, <1>2, <3>1
    <2>3. \A i \in 1 .. n + 1 : i \in 1 .. n \/ i = n + 1
      BY <1>1
    <2> QED
      BY <1>1, <2>1, <2>2, <2>3 DEF CanStop
  <1>5. ASSUME NEW i \in 2 .. n, NEW p \in Nat, CannotBeRaised(q, now, p, i)
        PROVE  CannotBeRaised(w, now, p, i)
    <2>1. i \in 1 .. n /\ i - 1 \in 1 .. n
      BY <1>1
    <2>2. /\ w[i] = q[i] /\ w[i - 1] = q[i - 1]
          /\ EntryAt(w, now, i - 1) = EntryAt(q, now, i - 1) /\ EntryAt(w, now, i + 1) = EntryAt(q, now, i + 1)
      BY <1>1, <1>3, <2>1
    <2> QED
      BY <1>5, <2>2 DEF CannotBeRaised
  <1> QED
    BY <1>1, <1>4, <1>5 DEF w

\* plan_buffer_line keeps the invariant.
LEMMA BufferLineKeeps ==
  ASSUME PlanSound, NEW l \in Lines, BufferLine(l)
  PROVE  PlanSound'
  <1> DEFINE n == Len(pn_queue)
             nominal == Nominal[l.rate][pn_override]
             b == LineBlock(l)
             q == Append(pn_queue, b)
             made == Recalculated(q, IF pn_queue = <<>> THEN 1 ELSE pn_planned)
  <1>1. PlanKept
    BY DEF PlanSound
  <1>2. /\ pn_queue' = made.queue /\ pn_planned' = made.planned /\ pn_previous' = nominal
        /\ pn_exit' = IF made.updated THEN made.queue[2].entry ELSE pn_exit
        /\ pn_override' = pn_override /\ pn_loaded' = pn_loaded /\ pn_speed' = pn_speed
        /\ pn_decel' = pn_decel /\ pn_hold' = pn_hold /\ pn_jump' = pn_jump /\ pn_lowered' = pn_lowered
    BY DEF BufferLine, Planned, LineBlock
  <1>3. /\ b \in Block /\ b.entry = 0 /\ nominal \in Nat /\ NominalSpeed(b, pn_override) = nominal
        /\ b.length \in Nat /\ MaximaAreCurrent(Append(pn_queue, b), pn_override)
    <2>1. pn_queue \in Seq(Block) /\ pn_previous \in Nat /\ pn_override \in Overrides
          /\ MaximaAreCurrent(pn_queue, pn_override)
      BY <1>1, KeptMeans DEF PlanKept
    <2>2. pn_queue # <<>> => pn_previous = NominalSpeed(pn_queue[Len(pn_queue)], pn_override)
      BY <1>1 DEF PlanKept, SpeedsAreCurrent
    <2> QED
      BY <2>1, <2>2, LineBlockIs
  <1> HIDE DEF b
  <1>4. /\ pn_loaded \in BOOLEAN /\ pn_hold \in BOOLEAN /\ pn_decel \in BOOLEAN /\ pn_lowered \in BOOLEAN
    BY <1>1 DEF PlanKept, PnTypeOK
  <1> USE <1>1
  <1>5. CASE n = 0
    <2>1. /\ pn_queue = <<>> /\ ~pn_loaded /\ pn_speed = 0 /\ pn_exit = 0 /\ ~pn_decel
      BY <1>5, KeptMeans DEF PlanSound, PlanEndsInStop, PlanKept, ProfileJoins
    <2>2. q = <<b>> /\ Len(q) = 1 /\ q[1] = b /\ q \in Seq(Block) /\ q # <<>>
      BY <1>3, <2>1
    <2>3. made.queue = q /\ made.planned = 1 /\ made.updated = FALSE
      BY <2>1, <2>2 DEF Recalculated
    <2> HIDE DEF q, made, nominal
    <2>4. /\ pn_queue' = q /\ pn_planned' = 1 /\ pn_exit' = pn_exit
      BY <1>2, <2>3
    <2>5. Now' = 0
      BY <1>2, <1>3, <2>1, <2>2, <2>4 DEF Now
    <2>6. PnTypeOK'
      <3>1. pn_speed \in Nat /\ pn_exit \in Nat /\ pn_override \in Overrides
        BY KeptMeans
      <3>2. 1 \in Nat \ {0} /\ pn_planned' <= Len(pn_queue')
        BY <2>2, <2>4
      <3> QED
        BY <1>2, <1>3, <1>4, <2>2, <2>4, <3>1, <3>2, Zenon DEF PnTypeOK
    <2>7. 2 .. Len(q) = {} /\ 1 .. Len(q) = {1}
      BY <2>2
    <2>8. MaximaAreCurrent(pn_queue', pn_override') /\ FullyUsed(pn_queue', Now', pn_planned')
      BY <2>4, <2>7 DEF MaximaAreCurrent, FullyUsed
    <2>9. CanStop(pn_queue', Now')
      <3>1. EntryAt(q, 0, 1) = 0 /\ EntryAt(q, 0, 2) = 0
        BY <2>2 DEF EntryAt
      <3> QED
        BY <1>3, <2>2, <2>4, <2>5, <2>7, <3>1 DEF CanStop
    <2>10. SpeedsAreCurrent'
      <3>1. pn_previous' = NominalSpeed(q[Len(q)], pn_override)
        BY <1>2, <1>3, <2>2
      <3>2. 0 <= NominalSpeed(q[1], pn_override)
        BY <1>3, <2>2
      <3> QED
        BY <1>2, <2>4, <2>5, <3>1, <3>2 DEF SpeedsAreCurrent
    <2>11. ProfileJoins'
      BY <1>2, <2>1, <2>2, <2>4, <2>5 DEF ProfileJoins
    <2>12. AccelerationKept' /\ PlanEndsInStop'
      BY <1>2, <2>2, <2>4 DEF PlanSound, AccelerationKept, PlanEndsInStop
    <2> QED
      BY <2>6, <2>8, <2>9, <2>10, <2>11, <2>12 DEF PlanSound, PlanKept
  <1>6. CASE n # 0
    <2>1. /\ pn_queue # <<>> /\ n > 0 /\ n \in Nat /\ pn_queue \in Seq(Block) /\ Now \in Nat
          /\ pn_planned \in 1 .. n /\ CanStop(pn_queue, Now) /\ pn_speed \in Nat /\ pn_override \in Overrides
          /\ 1 \in 1 .. n
      BY <1>6, KeptMeans DEF PlanKept
    <2>2. /\ q \in Seq(Block) /\ Len(q) = n + 1 /\ CanStop(q, Now)
          /\ \A i \in 2 .. n, p \in Nat : CannotBeRaised(pn_queue, Now, p, i) => CannotBeRaised(q, Now, p, i)
      BY <1>3, <2>1, AppendedPlan
    <2>3. q[n + 1] = b /\ (\A i \in 1 .. n : q[i] = pn_queue[i])
      BY <1>3, <2>1
    <2> HIDE DEF q
    <2> DEFINE made2 == Recalculated(q, pn_planned)
    <2>3a. made = made2
      BY <2>1
    <2>4. pn_planned \in 1 .. Len(q) /\ pn_planned < Len(q) /\ pn_planned \in Nat
      BY <2>1, <2>2
    <2>5. Now = IF pn_loaded THEN pn_speed ELSE q[1].entry
      BY <2>1, <2>3 DEF Now
    <2>6. /\ SameBlocks(q, made.queue) /\ made.planned \in 1 .. Len(q)
          /\ made.updated = (pn_planned = 1 /\ pn_loaded)
          /\ CanStop(made.queue, Now)
          /\ (\A i \in 2 .. pn_planned : CannotBeRaised(q, Now, pn_planned, i))
               => FullyUsed(made.queue, Now, made.planned)
          /\ ~pn_loaded => made.queue[1].entry = q[1].entry
          /\ pn_planned # 1 => made.queue[2].entry = q[2].entry
      <3>1. /\ SameBlocks(q, made2.queue) /\ made2.planned \in 1 .. Len(q)
            /\ made2.updated = (pn_planned = 1 /\ pn_loaded)
            /\ CanStop(made2.queue, Now)
            /\ (\A i \in 2 .. pn_planned : CannotBeRaised(q, Now, pn_planned, i))
                 => FullyUsed(made2.queue, Now, made2.planned)
            /\ ~pn_loaded => made2.queue[1].entry = q[1].entry
            /\ pn_planned # 1 => made2.queue[2].entry = q[2].entry
        BY <2>1, <2>2, <2>4, <2>5, RecalculatedPlan
      <3> HIDE DEF made, made2
      <3> QED
        BY <2>3a, <3>1
    <2> HIDE DEF made, made2
    <2>7. /\ pn_queue' \in Seq(Block) /\ Len(pn_queue') = n + 1 /\ SameBlocks(q, pn_queue')
          /\ pn_queue' # <<>>
      <3>1. Len(pn_queue') = n + 1
        BY <1>2, <2>2, <2>6 DEF SameBlocks
      <3>2. pn_queue' # <<>>
        BY <2>1, <3>1
      <3> QED
        BY <1>2, <2>6, <3>1, <3>2 DEF SameBlocks
    <2>8. Now' = Now
      BY <1>2, <2>5, <2>6 DEF Now
    <2>9. PnTypeOK'
      <3>1. pn_planned' \in Nat \ {0} /\ pn_planned' <= Len(pn_queue')
        BY <1>2, <2>1, <2>2, <2>6, <2>7
      <3>2. nominal \in Nat /\ pn_speed \in Nat /\ pn_override \in Overrides
        BY <1>3, <2>1
      <3>3. pn_exit' \in Nat
        <4>1. made.queue[2].entry \in Nat
          <5>1. 2 \in 1 .. Len(pn_queue')
            BY <2>1, <2>7
          <5> QED
            BY <1>2, <2>7, <5>1, BlockFields
        <4>2. pn_exit \in Nat
          BY KeptMeans
        <4> QED
          BY <1>2, <4>1, <4>2
      <3> HIDE DEF nominal
      <3> QED
        BY <1>2, <1>4, <2>7, <3>1, <3>2, <3>3, Zenon DEF PnTypeOK
    <2>10. MaximaAreCurrent(q, pn_override)
      BY <1>3 DEF q
    <2>11. /\ MaximaAreCurrent(pn_queue', pn_override')
           /\ \A i \in 1 .. n + 1 : NominalSpeed(pn_queue'[i], pn_override) = NominalSpeed(q[i], pn_override)
      BY <1>2, <2>2, <2>7, <2>10, SameMaxima
    <2>12. SpeedsAreCurrent'
      <3>1. n + 1 \in 1 .. n + 1 /\ 1 \in 1 .. n + 1
        BY <2>1
      <3>2. Now <= NominalSpeed(pn_queue[1], pn_override)
        BY <2>1 DEF PlanKept, SpeedsAreCurrent
      <3> HIDE DEF nominal
      <3>3. pn_previous' = NominalSpeed(pn_queue'[n + 1], pn_override)
        BY <1>2, <1>3, <2>3, <2>11, <3>1
      <3>4. Now' <= NominalSpeed(pn_queue'[1], pn_override)
        BY <2>1, <2>3, <2>8, <2>11, <3>1, <3>2
      <3> QED
        BY <1>2, <2>7, <3>3, <3>4 DEF SpeedsAreCurrent
    <2>13. ProfileJoins'
      <3>1. ProfileJoins
        BY DEF PlanKept
      <3>2. pn_loaded => pn_exit' = ExitOf(pn_queue')
        <4>1. ExitOf(pn_queue') = made.queue[2].entry
          BY <1>2, <2>1, <2>7 DEF ExitOf
        <4>2. CASE pn_planned = 1
          BY <1>2, <2>6, <4>1, <4>2
        <4>3. CASE pn_planned # 1
          <5>1. 2 \in 1 .. n /\ ~(n < 2)
            BY <2>1, <4>3
          <5>2. ExitOf(pn_queue) = pn_queue[2].entry
            BY <5>1 DEF ExitOf
          <5> QED
            BY <1>2, <2>3, <2>6, <3>1, <4>1, <4>3, <5>1, <5>2 DEF ProfileJoins
        <4> QED
          BY <4>2, <4>3
      <3>3. ~pn_loaded => pn_exit' = pn_exit
        BY <1>2, <2>6
      <3> QED
        BY <1>2, <2>1, <2>7, <2>8, <3>1, <3>2, <3>3 DEF ProfileJoins
    <2>14. CanStop(pn_queue', Now')
      BY <1>2, <2>6, <2>8
    <2>15. ~pn_hold' => FullyUsed(pn_queue', Now', pn_planned')
      <3> SUFFICES ASSUME ~pn_hold PROVE FullyUsed(made.queue, Now, made.planned)
        BY <1>2, <2>8
      <3>1. \A i \in 2 .. pn_planned : i \in 2 .. n
        BY <2>1
      <3>2. \A i \in 2 .. n : CannotBeRaised(pn_queue, Now, pn_planned, i)
        BY DEF PlanKept, FullyUsed
      <3> QED
        BY <2>2, <2>4, <2>6, <3>1, <3>2
    <2>16. AccelerationKept' /\ PlanEndsInStop'
      BY <1>2, <2>7 DEF PlanSound, AccelerationKept, PlanEndsInStop
    <2> QED
      BY <2>9, <2>11, <2>12, <2>13, <2>14, <2>15, <2>16 DEF PlanSound, PlanKept
  <1> QED
    BY <1>5, <1>6

\* So does an override that slows no block of the queue.
LEMMA ChangeOverrideKeeps ==
  ASSUME PlanSound, NEW f \in Overrides, ChangeOverride(f), ~Slows(f), pn_lowered' \in BOOLEAN
  PROVE  PlanSound'
  <1> DEFINE n == Len(pn_queue)
             q == WithMaxima(pn_queue, f)
  <1>1. PlanKept
    BY DEF PlanSound
  <1> USE <1>1
  <1>2. PICK made \in Reinitialized(q) :
           /\ pn_queue' = made.queue /\ pn_planned' = made.planned
           /\ pn_exit' = IF pn_loaded THEN ExitOf(made.queue) ELSE pn_exit
           /\ pn_previous' = IF pn_queue = <<>> THEN SOME_LARGE_VALUE ELSE NominalSpeed(pn_queue[n], f)
           /\ pn_decel' = (pn_decel /\ ~pn_loaded)
           /\ pn_override' = f
           /\ pn_loaded' = pn_loaded /\ pn_speed' = pn_speed /\ pn_hold' = pn_hold /\ pn_jump' = pn_jump
    BY DEF ChangeOverride, Planned
  <1>3. /\ pn_override \in Overrides
        /\ \A i \in 1 .. n : NominalSpeed(pn_queue[i], pn_override) <= NominalSpeed(pn_queue[i], f)
    <2>1. pn_override \in Overrides /\ pn_queue \in Seq(Block)
      BY KeptMeans
    <2>2. ASSUME NEW i \in 1 .. n
          PROVE  NominalSpeed(pn_queue[i], pn_override) <= NominalSpeed(pn_queue[i], f)
      <3>1. pn_queue[i] \in Block /\ i \in DOMAIN pn_queue
        BY <2>1
      <3>2. NominalSpeed(pn_queue[i], pn_override) \in Nat /\ NominalSpeed(pn_queue[i], f) \in Nat
        BY <2>1, <3>1, NominalIs
      <3>3. ~(NominalSpeed(pn_queue[i], f) < NominalSpeed(pn_queue[i], pn_override))
        BY <3>1 DEF Slows
      <3> QED
        BY <3>2, <3>3
    <2> QED
      BY <2>1, <2>2
  <1>4. /\ pn_loaded \in BOOLEAN /\ pn_hold \in BOOLEAN /\ ~pn_decel /\ pn_decel' = FALSE
    BY <1>2 DEF PlanKept, PnTypeOK, ProfileJoins
  <1>5. CASE n = 0
    <2>1. pn_queue = <<>> /\ ~pn_loaded /\ pn_speed = 0 /\ pn_exit = 0
          /\ pn_previous \in Nat /\ pn_queue \in Seq(Block)
      BY <1>5, KeptMeans DEF PlanSound, PlanEndsInStop, PlanKept, ProfileJoins
    <2>2. q = <<>>
      BY <2>1 DEF WithMaxima
    <2>3. made.queue = <<>> /\ made.planned \in Nat \ {0}
      BY <2>2, EmptyReinitialized
    <2> HIDE DEF q
    <2>4. /\ pn_queue' = <<>> /\ pn_planned' \in Nat \ {0} /\ pn_exit' = 0 /\ pn_previous' \in Nat
          /\ Len(pn_queue') = 0
      BY <1>2, <2>1, <2>3 DEF SOME_LARGE_VALUE
    <2>5. PnTypeOK'
      <3>1. pn_queue' \in Seq(Block) /\ pn_queue' = <<>> /\ pn_planned' \in Nat \ {0}
            /\ pn_speed' \in Nat /\ pn_exit' \in Nat /\ pn_previous' \in Nat /\ pn_override' \in Overrides
        BY <1>2, <2>1, <2>4
      <3>2. pn_loaded' \in BOOLEAN /\ pn_hold' \in BOOLEAN /\ pn_decel' \in BOOLEAN
          /\ pn_lowered' \in BOOLEAN
        BY <1>2, <1>4
      <3> QED
        BY <3>1, <3>2 DEF PnTypeOK
    <2>6. MaximaAreCurrent(pn_queue', pn_override') /\ SpeedsAreCurrent'
          /\ CanStop(pn_queue', Now') /\ FullyUsed(pn_queue', Now', pn_planned')
      <3>1. 2 .. Len(pn_queue') = {} /\ 1 .. Len(pn_queue') = {}
        BY <2>4
      <3> QED
        BY <2>4, <3>1 DEF MaximaAreCurrent, SpeedsAreCurrent, CanStop, FullyUsed
    <2>7. ProfileJoins' /\ AccelerationKept' /\ PlanEndsInStop'
      BY <1>2, <1>4, <2>1, <2>4 DEF ProfileJoins, PlanSound, AccelerationKept, PlanEndsInStop
    <2> QED
      BY <2>5, <2>6, <2>7 DEF PlanSound, PlanKept
  <1>6. CASE n # 0
    <2>1. /\ pn_queue # <<>> /\ n > 0 /\ n \in Nat /\ pn_queue \in Seq(Block) /\ Now \in Nat
          /\ CanStop(pn_queue, Now) /\ pn_speed \in Nat /\ MaximaAreCurrent(pn_queue, pn_override)
          /\ 1 \in 1 .. n /\ n \in 1 .. n
      BY <1>6, KeptMeans DEF PlanKept
    <2>2. /\ q \in Seq(Block) /\ Len(q) = n /\ MaximaAreCurrent(q, f) /\ CanStop(q, Now)
          /\ \A i \in 1 .. n : q[i].entry = pn_queue[i].entry /\ q[i].rate = pn_queue[i].rate
      BY <1>3, <2>1, WithMaximaIs, MaximaOfOverride
    <2> HIDE DEF q
    <2>3. Now = IF pn_loaded THEN pn_speed ELSE q[1].entry
      BY <2>1, <2>2 DEF Now
    <2>3a. made = Recalculated(Updated(q), 1)
      BY <2>1, <2>2 DEF Reinitialized
    <2>4. /\ SameBlocks(q, made.queue) /\ made.planned \in 1 .. n
          /\ CanStop(made.queue, Now) /\ FullyUsed(made.queue, Now, made.planned)
          /\ ~pn_loaded => made.queue[1].entry = q[1].entry
      BY <2>1, <2>2, <2>3, <2>3a, ReinitializedPlan
    <2>5. pn_queue' \in Seq(Block) /\ Len(pn_queue') = n /\ pn_queue' # <<>>
      <3>1. made.queue \in Seq(Block) /\ Len(made.queue) = n
        BY <2>2, <2>4 DEF SameBlocks
      <3> QED
        BY <1>2, <2>1, <3>1
    <2>6. Now' = Now
      BY <1>2, <2>3, <2>4 DEF Now
    <2>7. ExitOf(made.queue) \in Nat
      <3>1. made.queue \in Seq(Block)
        BY <1>2, <2>5
      <3> QED
        BY <3>1, ExitIs
    <2>8. PnTypeOK'
      <3>1. pn_planned' \in Nat \ {0} /\ pn_planned' <= Len(pn_queue')
        BY <1>2, <2>1, <2>4, <2>5
      <3>2. pn_exit' \in Nat
        BY <1>2, <2>7, KeptMeans
      <3>3. pn_previous' \in Nat
        BY <1>2, <2>1, BlockFields, NominalIs
      <3>4. pn_loaded' \in BOOLEAN /\ pn_hold' \in BOOLEAN /\ pn_decel' \in BOOLEAN
          /\ pn_lowered' \in BOOLEAN
        BY <1>2, <1>4
      <3>5. pn_speed' \in Nat /\ pn_override' \in Overrides
        BY <1>2, <2>1
      <3> QED
        BY <2>5, <3>1, <3>2, <3>3, <3>4, <3>5, Zenon DEF PnTypeOK
    <2>9. /\ MaximaAreCurrent(pn_queue', f)
          /\ \A i \in 1 .. n : NominalSpeed(pn_queue'[i], f) = NominalSpeed(q[i], f)
      BY <1>2, <2>2, <2>4, SameMaxima
    <2>10. \A i \in 1 .. n : NominalSpeed(pn_queue'[i], f) = NominalSpeed(pn_queue[i], f)
      BY <2>2, <2>9 DEF NominalSpeed
    <2>11. SpeedsAreCurrent'
      <3>1. pn_previous' = NominalSpeed(pn_queue'[n], f)
        BY <1>2, <2>1, <2>10
      <3>2. Now <= NominalSpeed(pn_queue[1], pn_override)
        BY <2>1 DEF PlanKept, SpeedsAreCurrent
      <3>3. NominalSpeed(pn_queue[1], pn_override) <= NominalSpeed(pn_queue[1], f)
        BY <1>3, <2>1, BlockFields DEF NominalSpeed
      <3>4. NominalSpeed(pn_queue[1], pn_override) \in Nat /\ NominalSpeed(pn_queue[1], f) \in Nat
        BY <1>3, <2>1, BlockFields, NominalIs
      <3>5. Now' <= NominalSpeed(pn_queue'[1], f)
        BY <2>1, <2>6, <2>10, <3>2, <3>3, <3>4
      <3> QED
        BY <1>2, <2>5, <3>1, <3>5 DEF SpeedsAreCurrent
    <2>12. ProfileJoins'
      <3>1. ProfileJoins
        BY DEF PlanKept
      <3> QED
        BY <1>2, <1>4, <2>1, <2>5, <2>6, <3>1 DEF ProfileJoins
    <2>13. CanStop(pn_queue', Now') /\ FullyUsed(pn_queue', Now', pn_planned')
      BY <1>2, <2>4, <2>6
    <2>14. AccelerationKept' /\ PlanEndsInStop'
      BY <1>2, <2>5 DEF PlanSound, AccelerationKept, PlanEndsInStop
    <2> QED
      BY <1>2, <2>8, <2>9, <2>11, <2>12, <2>13, <2>14 DEF PlanSound, PlanKept
  <1> QED
    BY <1>5, <1>6

\* So does the new plan at the end of a hold.
LEMMA HoldEndsKeeps ==
  ASSUME PlanSound, HoldEnds
  PROVE  PlanSound'
  <1> DEFINE n == Len(pn_queue)
  <1>1. PlanKept
    BY DEF PlanSound
  <1> USE <1>1
  <1>1a. ~pn_decel
    BY DEF PlanKept, ProfileJoins
  <1>2. PICK made \in Reinitialized(pn_queue) :
           /\ pn_queue' = made.queue /\ pn_planned' = made.planned
           /\ pn_exit' = IF pn_loaded THEN ExitOf(made.queue) ELSE pn_exit
           /\ pn_previous' = pn_previous /\ pn_decel' = FALSE /\ pn_override' = pn_override
           /\ pn_loaded' = pn_loaded /\ pn_speed' = pn_speed /\ pn_hold' = FALSE /\ pn_jump' = pn_jump
           /\ pn_speed = 0 /\ (pn_loaded \/ pn_queue = <<>>) /\ pn_lowered' = pn_lowered
    BY <1>1a DEF HoldEnds, Planned
  <1>3. pn_loaded \in BOOLEAN /\ pn_lowered \in BOOLEAN
    BY DEF PlanKept, PnTypeOK
  <1>4. CASE n = 0
    <2>1. pn_queue = <<>> /\ ~pn_loaded /\ pn_previous \in Nat /\ pn_override \in Overrides
          /\ pn_exit = pn_speed
      BY <1>4, KeptMeans DEF PlanKept, ProfileJoins
    <2>2. made.queue = <<>> /\ made.planned \in Nat \ {0}
      BY <2>1, EmptyReinitialized
    <2>3. /\ pn_queue' = <<>> /\ pn_planned' \in Nat \ {0} /\ pn_exit' = 0 /\ Len(pn_queue') = 0
      BY <1>2, <2>1, <2>2
    <2>4. PnTypeOK'
      <3>1. pn_queue' \in Seq(Block) /\ pn_planned' \in Nat \ {0} /\ pn_queue' = <<>>
            /\ pn_speed' \in Nat /\ pn_exit' \in Nat /\ pn_previous' \in Nat /\ pn_override' \in Overrides
        BY <1>2, <2>1, <2>3
      <3>2. pn_loaded' \in BOOLEAN /\ pn_hold' \in BOOLEAN /\ pn_decel' \in BOOLEAN
          /\ pn_lowered' \in BOOLEAN
        BY <1>2, <1>3
      <3> QED
        BY <3>1, <3>2 DEF PnTypeOK
    <2>5. MaximaAreCurrent(pn_queue', pn_override') /\ SpeedsAreCurrent'
          /\ CanStop(pn_queue', Now') /\ FullyUsed(pn_queue', Now', pn_planned')
      <3>1. 2 .. Len(pn_queue') = {} /\ 1 .. Len(pn_queue') = {}
        BY <2>3
      <3> QED
        BY <2>3, <3>1 DEF MaximaAreCurrent, SpeedsAreCurrent, CanStop, FullyUsed
    <2>6. ProfileJoins' /\ AccelerationKept' /\ PlanEndsInStop'
      BY <1>2, <2>1, <2>3 DEF ProfileJoins, PlanSound, AccelerationKept, PlanEndsInStop
    <2> QED
      BY <2>4, <2>5, <2>6 DEF PlanSound, PlanKept
  <1>5. CASE n # 0
    <2>1. /\ pn_queue # <<>> /\ n > 0 /\ n \in Nat /\ pn_queue \in Seq(Block) /\ Now \in Nat
          /\ CanStop(pn_queue, Now) /\ pn_speed \in Nat /\ MaximaAreCurrent(pn_queue, pn_override)
          /\ 1 \in 1 .. n /\ n \in 1 .. n /\ pn_loaded /\ pn_previous \in Nat /\ pn_override \in Overrides
      BY <1>2, <1>5, KeptMeans DEF PlanKept
    <2>2. Now = IF pn_loaded THEN pn_speed ELSE pn_queue[1].entry
      BY DEF Now
    <2>2a. made = Recalculated(Updated(pn_queue), 1)
      BY <2>1 DEF Reinitialized
    <2>3. /\ SameBlocks(pn_queue, made.queue) /\ made.planned \in 1 .. n
          /\ CanStop(made.queue, Now) /\ FullyUsed(made.queue, Now, made.planned)
      BY <2>1, <2>2, <2>2a, ReinitializedPlan
    <2>4. pn_queue' \in Seq(Block) /\ Len(pn_queue') = n /\ pn_queue' # <<>>
      <3>1. made.queue \in Seq(Block) /\ Len(made.queue) = n
        BY <2>3 DEF SameBlocks
      <3> QED
        BY <1>2, <2>1, <3>1
    <2>5. Now' = Now
      BY <1>2, <2>1 DEF Now
    <2>6. PnTypeOK'
      <3>1. pn_planned' \in Nat \ {0} /\ pn_planned' <= Len(pn_queue')
        BY <1>2, <2>1, <2>3, <2>4
      <3>2. pn_exit' \in Nat
        <4>1. n >= 2 => 2 \in 1 .. Len(pn_queue')
          BY <2>1, <2>4
        <4> QED
          BY <1>2, <2>1, <2>4, <4>1, BlockFields DEF ExitOf
      <3>3. pn_loaded' \in BOOLEAN /\ pn_hold' \in BOOLEAN /\ pn_decel' \in BOOLEAN
          /\ pn_lowered' \in BOOLEAN
        BY <1>2, <1>3
      <3>4. pn_speed' \in Nat /\ pn_override' \in Overrides /\ pn_previous' \in Nat
        BY <1>2, <2>1
      <3> QED
        BY <2>4, <3>1, <3>2, <3>3, <3>4, Zenon DEF PnTypeOK
    <2>7. /\ MaximaAreCurrent(pn_queue', pn_override)
          /\ \A i \in 1 .. n : NominalSpeed(pn_queue'[i], pn_override) = NominalSpeed(pn_queue[i], pn_override)
      BY <1>2, <2>1, <2>3, SameMaxima
    <2>8. SpeedsAreCurrent'
      <3>1. /\ pn_previous = NominalSpeed(pn_queue[n], pn_override)
            /\ Now <= NominalSpeed(pn_queue[1], pn_override)
        BY <2>1 DEF PlanKept, SpeedsAreCurrent
      <3> QED
        BY <1>2, <2>1, <2>4, <2>5, <2>7, <3>1 DEF SpeedsAreCurrent
    <2>9. ProfileJoins'
      BY <1>2, <2>1, <2>4 DEF ProfileJoins
    <2>10. CanStop(pn_queue', Now') /\ FullyUsed(pn_queue', Now', pn_planned')
      BY <1>2, <2>3, <2>5
    <2>11. AccelerationKept' /\ PlanEndsInStop'
      BY <1>2, <2>4 DEF PlanSound, AccelerationKept, PlanEndsInStop
    <2> QED
      BY <1>2, <2>6, <2>7, <2>8, <2>9, <2>10, <2>11 DEF PlanSound, PlanKept
  <1> QED
    BY <1>4, <1>5

\* So does the start of a hold, which updates the block that is executed.
LEMMA StartHoldKeeps ==
  ASSUME PlanSound, StartHold
  PROVE  PlanSound'
  <1> DEFINE n == Len(pn_queue)
             q == [pn_queue EXCEPT ![1].entry = pn_speed]
  <1>1. PlanKept
    BY DEF PlanSound
  <1> USE <1>1
  <1>1a. /\ pn_queue' = Updated(pn_queue) /\ pn_planned' = pn_planned /\ pn_exit' = pn_exit
         /\ pn_previous' = pn_previous /\ pn_decel' = pn_decel /\ pn_override' = pn_override
         /\ pn_loaded' = pn_loaded /\ pn_speed' = pn_speed /\ pn_hold' = TRUE /\ pn_jump' = pn_jump
         /\ pn_lowered' = pn_lowered
    BY DEF StartHold
  <1>3. pn_loaded \in BOOLEAN /\ pn_decel \in BOOLEAN /\ ProfileJoins /\ PnTypeOK
    BY DEF PlanKept, PnTypeOK
  <1>3a. CASE ~pn_loaded
    <2>1. pn_queue' = pn_queue
      BY <1>1a, <1>3a DEF Updated
    <2>2. Now' = Now
      BY <1>1a, <2>1 DEF Now
    <2>3. PnTypeOK' /\ MaximaAreCurrent(pn_queue', pn_override') /\ SpeedsAreCurrent'
          /\ CanStop(pn_queue', Now')
      BY <1>1a, <1>3, <2>1, <2>2 DEF PlanKept, PnTypeOK, SpeedsAreCurrent
    <2>4. ProfileJoins'
      BY <1>1a, <1>3, <2>1, <2>2 DEF ProfileJoins
    <2>5. AccelerationKept' /\ PlanEndsInStop'
      BY <1>1a, <2>1 DEF PlanSound, AccelerationKept, PlanEndsInStop
    <2> QED
      BY <1>1a, <2>3, <2>4, <2>5 DEF PlanSound, PlanKept
  <1> SUFFICES ASSUME pn_loaded PROVE PlanSound'
    BY <1>3a
  <1>2. /\ pn_queue' = q /\ pn_planned' = pn_planned /\ pn_exit' = pn_exit
        /\ pn_previous' = pn_previous /\ pn_decel' = pn_decel /\ pn_override' = pn_override
        /\ pn_loaded' = pn_loaded /\ pn_speed' = pn_speed /\ pn_hold' = TRUE /\ pn_jump' = pn_jump
        /\ pn_loaded /\ pn_lowered' = pn_lowered
    BY <1>1a DEF Updated
  <1>4. /\ pn_queue # <<>> /\ n > 0 /\ n \in Nat /\ pn_queue \in Seq(Block) /\ Now \in Nat
        /\ CanStop(pn_queue, Now) /\ pn_speed \in Nat /\ MaximaAreCurrent(pn_queue, pn_override)
        /\ 1 \in 1 .. n /\ n \in 1 .. n /\ pn_previous \in Nat /\ pn_override \in Overrides
        /\ pn_exit = ExitOf(pn_queue) /\ pn_exit \in Nat
    BY <1>2, <1>3, KeptMeans DEF PlanKept, ProfileJoins
  <1>5. SameBlocks(pn_queue, q) /\ \A i \in 2 .. n : q[i] = pn_queue[i]
    BY <1>4, FirstEntryIs
  <1> HIDE DEF q
  <1>6. q \in Seq(Block) /\ Len(q) = n /\ q # <<>>
    BY <1>4, <1>5 DEF SameBlocks
  <1>7. Now' = Now /\ Now = pn_speed
    BY <1>2 DEF Now
  <1>8. ExitOf(q) = ExitOf(pn_queue)
    <2>1. n < 2 \/ 2 \in 2 .. n
      BY <1>4
    <2> QED
      BY <1>5, <1>6, <2>1 DEF ExitOf
  <1>9. PnTypeOK'
    BY <1>2, <1>3, <1>6 DEF PnTypeOK
  <1>10. /\ MaximaAreCurrent(q, pn_override)
         /\ \A i \in 1 .. n : NominalSpeed(q[i], pn_override) = NominalSpeed(pn_queue[i], pn_override)
    BY <1>4, <1>5, SameMaxima
  <1>11. SpeedsAreCurrent'
    <2>1. /\ pn_previous = NominalSpeed(pn_queue[n], pn_override)
          /\ Now <= NominalSpeed(pn_queue[1], pn_override)
      BY <1>4 DEF PlanKept, SpeedsAreCurrent
    <2> QED
      BY <1>2, <1>4, <1>6, <1>7, <1>10, <2>1 DEF SpeedsAreCurrent
  <1>12. ProfileJoins'
    BY <1>2, <1>3, <1>4, <1>6, <1>8 DEF ProfileJoins
  <1>13. CanStop(q, Now)
    <2>1. \A i \in 1 .. n : q[i].length = pn_queue[i].length
      BY <1>5 DEF SameBlocks
    <2>2. \A i \in 2 .. n : q[i].entry = pn_queue[i].entry /\ q[i].max >= pn_queue[i].max
      <3>1. \A i \in 2 .. n : i \in 1 .. n
        BY <1>4
      <3> QED
        BY <1>4, <1>5, <3>1, BlockFields
    <2> QED
      BY <1>4, <1>6, <2>1, <2>2, StopsAsBefore
  <1>14. AccelerationKept' /\ PlanEndsInStop'
    BY <1>2, <1>6 DEF PlanSound, AccelerationKept, PlanEndsInStop
  <1> QED
    BY <1>2, <1>7, <1>9, <1>10, <1>11, <1>12, <1>13, <1>14 DEF PlanSound, PlanKept

\* A plan that can stop from some speed can stop from a lower one.
LEMMA SlowerStops ==
  ASSUME NEW q \in Seq(Block), Len(q) > 0, NEW now \in Nat, NEW v \in Nat, v <= now, CanStop(q, now)
  PROVE  CanStop(q, v)
  <1> DEFINE n == Len(q)
  <1>1. n \in Nat
    OBVIOUS
  <1>2. ASSUME NEW i \in 1 .. n
        PROVE  /\ EntryAt(q, v, i) <= EntryAt(q, v, i + 1) + q[i].length
               /\ i > 1 => q[i].entry <= q[i].max
    <2>1. /\ EntryAt(q, now, i) <= EntryAt(q, now, i + 1) + q[i].length
          /\ i > 1 => q[i].entry <= q[i].max
      BY DEF CanStop
    <2>2. i + 1 # 1
      BY <1>1
    <2>3. EntryAt(q, v, i + 1) = EntryAt(q, now, i + 1)
      BY <2>2 DEF EntryAt
    <2>4. CASE i # 1
      <3>1. EntryAt(q, v, i) = EntryAt(q, now, i)
        BY <2>4 DEF EntryAt
      <3> QED
        BY <2>1, <2>3, <3>1
    <2>5. CASE i = 1
      <3>1. EntryAt(q, v, i) = v /\ EntryAt(q, now, i) = now
        BY <2>5 DEF EntryAt
      <3>2. EntryAt(q, now, i + 1) \in Nat
        BY <2>5, ExitIs
      <3>3. q[i].length \in Nat
        BY BlockFields
      <3> QED
        BY <2>1, <2>3, <3>1, <3>2, <3>3
    <2> QED
      BY <2>4, <2>5
  <1> QED
    BY <1>2 DEF CanStop

\* So does loading the next block, in a hold too.
LEMMA LoadBlockKeeps ==
  ASSUME PlanSound, LoadBlock
  PROVE  PlanSound'
  <1> DEFINE n == Len(pn_queue)
             v == IF pn_hold \/ pn_decel THEN pn_exit ELSE pn_queue[1].entry
             q == [pn_queue EXCEPT ![1].entry = v]
  <1>1. PlanKept
    BY DEF PlanSound
  <1> USE <1>1
  <1>2. /\ pn_queue' = q /\ pn_planned' = pn_planned /\ pn_exit' = ExitOf(pn_queue)
        /\ pn_previous' = pn_previous /\ pn_decel' = FALSE /\ pn_override' = pn_override
        /\ pn_loaded' = TRUE /\ pn_speed' = v /\ pn_hold' = pn_hold /\ pn_jump' = v - pn_speed
        /\ ~pn_loaded /\ pn_queue # <<>> /\ pn_lowered' = pn_lowered
    BY DEF LoadBlock
  <1>3. pn_hold \in BOOLEAN /\ pn_lowered \in BOOLEAN /\ ProfileJoins /\ PnTypeOK /\ ~pn_decel
    BY DEF PlanKept, PnTypeOK, ProfileJoins
  <1>4. /\ n > 0 /\ n \in Nat /\ pn_queue \in Seq(Block) /\ Now \in Nat
        /\ CanStop(pn_queue, Now) /\ pn_speed \in Nat /\ MaximaAreCurrent(pn_queue, pn_override)
        /\ 1 \in 1 .. n /\ n \in 1 .. n /\ pn_previous \in Nat /\ pn_override \in Overrides
        /\ pn_planned \in Nat \ {0} /\ pn_planned <= n
    BY <1>2, KeptMeans DEF PlanKept
  <1>5. Now = pn_queue[1].entry
    BY <1>2 DEF Now
  <1>6. v = pn_speed /\ v <= Now /\ (~pn_hold => v = Now)
    BY <1>2, <1>3, <1>5 DEF ProfileJoins
  <1> HIDE DEF v
  <1>7. v \in Nat
    BY <1>4, <1>6
  <1>8. SameBlocks(pn_queue, q) /\ \A i \in 2 .. n : q[i] = pn_queue[i]
    BY <1>4, <1>7, FirstEntryIs
  <1> HIDE DEF q
  <1>9. q \in Seq(Block) /\ Len(q) = n /\ q # <<>>
    BY <1>4, <1>8 DEF SameBlocks
  <1>10. Now' = v
    BY <1>2 DEF Now
  <1>11. ExitOf(q) = ExitOf(pn_queue) /\ ExitOf(q) \in Nat
    <2>1. n < 2 \/ 2 \in 2 .. n
      BY <1>4
    <2>2. ExitOf(q) = ExitOf(pn_queue)
      BY <1>8, <1>9, <2>1 DEF ExitOf
    <2> QED
      BY <1>9, <2>2, ExitIs
  <1>12. PnTypeOK'
    <2>1. pn_planned' \in Nat \ {0} /\ pn_planned' <= Len(pn_queue')
      BY <1>2, <1>4, <1>9
    <2>2. pn_queue' \in Seq(Block) /\ pn_speed' \in Nat /\ pn_exit' \in Nat /\ pn_previous' \in Nat
          /\ pn_override' \in Overrides
      BY <1>2, <1>4, <1>7, <1>9, <1>11
    <2>3. pn_loaded' \in BOOLEAN /\ pn_hold' \in BOOLEAN /\ pn_decel' \in BOOLEAN
          /\ pn_lowered' \in BOOLEAN
      BY <1>2, <1>3
    <2> QED
      BY <2>1, <2>2, <2>3, Zenon DEF PnTypeOK
  <1>13. /\ MaximaAreCurrent(q, pn_override)
         /\ \A i \in 1 .. n : NominalSpeed(q[i], pn_override) = NominalSpeed(pn_queue[i], pn_override)
    BY <1>4, <1>8, SameMaxima
  <1>14. SpeedsAreCurrent'
    <2>1. /\ pn_previous = NominalSpeed(pn_queue[n], pn_override)
          /\ Now <= NominalSpeed(pn_queue[1], pn_override)
      BY <1>2 DEF PlanKept, SpeedsAreCurrent
    <2>2. NominalSpeed(pn_queue[1], pn_override) \in Nat
      BY <1>4, BlockFields, NominalIs
    <2>3. v <= NominalSpeed(q[1], pn_override)
      BY <1>4, <1>6, <1>7, <1>13, <2>1, <2>2
    <2>4. pn_previous = NominalSpeed(q[n], pn_override)
      BY <1>4, <1>13, <2>1
    <2> QED
      BY <1>2, <1>9, <1>10, <2>3, <2>4 DEF SpeedsAreCurrent
  <1>15. ProfileJoins'
    BY <1>2, <1>9, <1>11 DEF ProfileJoins
  <1>16. CanStop(q, v)
    <2>1. \A i \in 1 .. n : q[i].length = pn_queue[i].length
      BY <1>8 DEF SameBlocks
    <2>2. \A i \in 2 .. n : q[i].entry = pn_queue[i].entry /\ q[i].max >= pn_queue[i].max
      <3>1. \A i \in 2 .. n : i \in 1 .. n
        BY <1>4
      <3> QED
        BY <1>4, <1>8, <3>1, BlockFields
    <2>3. CanStop(q, Now)
      BY <1>4, <1>9, <2>1, <2>2, StopsAsBefore
    <2> QED
      BY <1>4, <1>6, <1>7, <1>9, <2>3, SlowerStops
  <1>17. ~pn_hold => FullyUsed(q, v, pn_planned)
    <2> SUFFICES ASSUME ~pn_hold PROVE FullyUsed(q, Now, pn_planned)
      BY <1>6
    <2>1. \A i \in 1 .. n : q[i].length = pn_queue[i].length
      BY <1>8 DEF SameBlocks
    <2>2. \A i \in 2 .. n : q[i].entry = pn_queue[i].entry /\ q[i].max = pn_queue[i].max
      BY <1>8
    <2>3. FullyUsed(pn_queue, Now, pn_planned)
      BY DEF PlanKept
    <2> QED
      BY <1>4, <1>9, <2>1, <2>2, <2>3, UsedAsBefore
  <1>18. AccelerationKept' /\ PlanEndsInStop'
    <2>1. pn_jump' = 0
      BY <1>2, <1>4, <1>6
    <2> QED
      BY <1>2, <1>9, <2>1 DEF AccelerationKept, PlanEndsInStop
  <1> QED
    BY <1>2, <1>10, <1>12, <1>13, <1>14, <1>15, <1>16, <1>17, <1>18 DEF PlanSound, PlanKept

\* The speed after a cell stays in reach of both ends of the block.
LEMMA NextSpeedIs ==
  ASSUME pn_hold \in BOOLEAN, pn_speed \in Nat, pn_exit \in Nat,
         NEW l \in Nat \ {0}, l = pn_queue[1].length,
         NEW top \in Nat \ {0}, top = NominalSpeed(pn_queue[1], pn_override),
         pn_speed <= top, pn_speed <= pn_exit + l,
         pn_hold => pn_speed > 0,
         ~pn_hold => pn_exit <= pn_speed + l /\ pn_exit <= top
  PROVE  /\ NextSpeed \in Nat /\ NextSpeed <= top /\ NextSpeed - pn_speed \in -1 .. 1
         /\ NextSpeed <= pn_exit + l - 1
         /\ ~pn_hold => /\ pn_exit <= NextSpeed + l - 1
                        /\ pn_exit = pn_speed + l => pn_exit = NextSpeed + l - 1
         /\ (~pn_hold /\ l = 1) => NextSpeed = pn_exit
         /\ ~DecelOnly
  <1>1. ~(pn_speed > top)
    OBVIOUS
  <1>2. ~DecelOnly
    BY <1>1 DEF DecelOnly
  <1>3. NextSpeed = IF pn_hold THEN pn_speed - 1
                    ELSE IF l = 1 THEN pn_exit
                    ELSE IF pn_speed - pn_exit >= l THEN pn_speed - 1
                    ELSE PnMin(PnMin(pn_speed + 1, top), pn_exit + l - 1)
    BY <1>1 DEF NextSpeed
  <1> DEFINE s == pn_speed
             x == pn_exit
             v == NextSpeed
  <1>4. s \in Nat /\ x \in Nat /\ l \in Nat \ {0} /\ top \in Nat \ {0} /\ s <= top /\ s <= x + l
    OBVIOUS
  <1>5. v = IF pn_hold THEN s - 1 ELSE IF l = 1 THEN x ELSE IF s - x >= l THEN s - 1
            ELSE PnMin(PnMin(s + 1, top), x + l - 1)
    BY <1>3
  <1>6. (pn_hold => s > 0) /\ (~pn_hold => x <= s + l /\ x <= top)
    OBVIOUS
  <1> HIDE DEF s, x, v
  <1>7. CASE pn_hold
    <2>1. v = s - 1 /\ s > 0
      BY <1>5, <1>6, <1>7
    <2>2. v \in Nat /\ v <= top /\ v - s \in -1 .. 1 /\ v <= x + l - 1
      BY <1>4, <2>1
    <2> QED
      BY <1>2, <1>7, <2>2 DEF s, x, v
  <1>8. CASE ~pn_hold /\ l = 1
    <2>1. v = x /\ x <= s + 1 /\ x <= top /\ s <= x + 1
      BY <1>4, <1>5, <1>6, <1>8
    <2>2. v \in Nat /\ v <= top /\ v - s \in -1 .. 1 /\ v <= x + l - 1 /\ x <= v + l - 1 /\ x = v + l - 1
      BY <1>4, <1>8, <2>1
    <2>3. /\ ~pn_hold => x <= v + l - 1 /\ (x = s + l => x = v + l - 1)
          /\ (~pn_hold /\ l = 1) => v = x
      BY <2>1, <2>2
    <2>4. v \in Nat /\ v <= top /\ v - s \in -1 .. 1 /\ v <= x + l - 1
      BY <2>2
    <2> HIDE <2>1, <2>2
    <2> QED
      BY <1>2, <2>3, <2>4 DEF s, x, v
  <1>9. CASE ~pn_hold /\ l # 1
    <2>1. x <= s + l /\ x <= top /\ l > 1
      <3>1. x <= s + l /\ x <= top
        BY <1>6, <1>9
      <3>2. l # 1
        BY <1>9
      <3>3. l > 1
        BY <1>4, <3>2
      <3> QED
        BY <3>1, <3>3
    <2>2. CASE s - x >= l
      <3>1. v = s - 1
        BY <1>5, <1>9, <2>2
      <3>2. v \in Nat /\ v <= top /\ v - s \in -1 .. 1 /\ v <= x + l - 1
            /\ x <= v + l - 1 /\ x # s + l
        BY <1>4, <2>1, <2>2, <3>1
      <3> QED
        BY <1>2, <1>9, <3>2 DEF s, x, v
    <2>3. CASE ~(s - x >= l)
      <3>1. v = PnMin(PnMin(s + 1, top), x + l - 1)
        BY <1>5, <1>9, <2>3
      <3>2. v \in Nat /\ v <= s + 1 /\ v <= top /\ v <= x + l - 1 /\ v \in {s + 1, top, x + l - 1}
        BY <1>4, <2>1, <3>1 DEF PnMin
      <3>3. v - s \in -1 .. 1
        BY <1>4, <2>1, <2>3, <3>2
      <3>4. x <= v + l - 1 /\ (x = s + l => x = v + l - 1)
        BY <1>4, <2>1, <3>2
      <3> QED
        BY <1>2, <1>9, <3>2, <3>3, <3>4 DEF s, x, v
    <2> QED
      BY <2>2, <2>3
  <1> QED
    BY <1>7, <1>8, <1>9

\* What holds while a block is executed.
LEMMA Executed ==
  ASSUME PlanKept, pn_loaded, pn_hold => pn_speed > 0
  PROVE  LET n == Len(pn_queue)
             l == pn_queue[1].length
         IN  /\ n \in Nat /\ n > 0 /\ 1 \in 1 .. n /\ n \in 1 .. n /\ pn_queue # <<>>
             /\ pn_queue \in Seq(Block) /\ l \in Nat \ {0} /\ Now = pn_speed /\ pn_speed \in Nat
             /\ pn_exit = ExitOf(pn_queue) /\ pn_exit \in Nat /\ pn_planned \in Nat \ {0} /\ pn_planned <= n
             /\ pn_previous \in Nat /\ pn_override \in Overrides /\ pn_hold \in BOOLEAN /\ ~pn_decel
             /\ pn_lowered \in BOOLEAN /\ (n < 2 => pn_exit = 0) /\ (n >= 2 => 2 \in 2 .. n /\ 2 \in 1 .. n /\ pn_exit = pn_queue[2].entry)
             /\ CanStop(pn_queue, pn_speed) /\ MaximaAreCurrent(pn_queue, pn_override)
             /\ pn_previous = NominalSpeed(pn_queue[n], pn_override)
             /\ (n >= 2 => /\ pn_queue[2].entry <= NominalSpeed(pn_queue[1], pn_override)
                           /\ pn_queue[2].entry <= NominalSpeed(pn_queue[2], pn_override))
             /\ NextSpeed \in Nat /\ NextSpeed <= NominalSpeed(pn_queue[1], pn_override)
             /\ NextSpeed - pn_speed \in -1 .. 1 /\ NextSpeed <= pn_exit + l - 1
             /\ ~pn_hold => /\ pn_exit <= NextSpeed + l - 1
                            /\ pn_exit = pn_speed + l => pn_exit = NextSpeed + l - 1
             /\ (~pn_hold /\ l = 1) => NextSpeed = pn_exit
             /\ ~DecelOnly
  <1> DEFINE n == Len(pn_queue)
             l == pn_queue[1].length
             q == pn_queue
             top == NominalSpeed(pn_queue[1], pn_override)
  <1>1. ProfileJoins /\ PnTypeOK /\ MaximaAreCurrent(q, pn_override) /\ SpeedsAreCurrent
    BY DEF PlanKept
  <1>2. /\ n \in Nat /\ n > 0 /\ 1 \in 1 .. n /\ n \in 1 .. n /\ q # <<>>
        /\ q \in Seq(Block) /\ Now = pn_speed /\ pn_speed \in Nat
        /\ pn_exit = ExitOf(q) /\ pn_exit \in Nat /\ pn_planned \in Nat \ {0} /\ pn_planned <= n
        /\ pn_previous \in Nat /\ pn_override \in Overrides /\ ~pn_decel
    <2>1. q # <<>> /\ pn_exit = ExitOf(q) /\ ~pn_decel
      BY <1>1 DEF ProfileJoins
    <2>2. Now = pn_speed
      BY DEF Now
    <2> QED
      BY <2>1, <2>2, KeptMeans
  <1>3. pn_hold \in BOOLEAN /\ pn_lowered \in BOOLEAN
    BY <1>1 DEF PnTypeOK
  <1>4. l \in Nat \ {0}
    BY <1>2, BlockFields
  <1>5. top \in Nat \ {0}
    BY <1>2, BlockFields, NominalIs
  <1>6. (n < 2 => pn_exit = 0) /\ (n >= 2 => 2 \in 2 .. n /\ 2 \in 1 .. n /\ pn_exit = q[2].entry)
    BY <1>2 DEF ExitOf
  <1>7. CanStop(q, pn_speed)
    BY <1>2 DEF PlanKept
  <1>8. pn_speed <= pn_exit + l
    <2>1. EntryAt(q, pn_speed, 1) <= EntryAt(q, pn_speed, 1 + 1) + l
      BY <1>2, <1>7 DEF CanStop
    <2>2. EntryAt(q, pn_speed, 1) = pn_speed /\ EntryAt(q, pn_speed, 1 + 1) = pn_exit
      BY <1>2, ExitIs DEF EntryAt
    <2> QED
      BY <2>1, <2>2
  <1>9. pn_speed <= top /\ pn_previous = NominalSpeed(q[n], pn_override)
    BY <1>1, <1>2 DEF SpeedsAreCurrent
  <1>10. n >= 2 => q[2].entry <= top /\ q[2].entry <= NominalSpeed(q[2], pn_override)
    <2> SUFFICES ASSUME n >= 2 PROVE q[2].entry <= top /\ q[2].entry <= NominalSpeed(q[2], pn_override)
      OBVIOUS
    <2> DEFINE m == MaxEntry(q[2].junction, NominalSpeed(q[2], pn_override), top)
    <2>1. 2 \in 2 .. n /\ 2 \in 1 .. n /\ 2 - 1 = 1
      BY <1>6
    <2>2. q[2].max = m
      BY <1>1, <2>1 DEF MaximaAreCurrent
    <2>3. q[2].entry \in Nat /\ q[2].junction \in Nat /\ NominalSpeed(q[2], pn_override) \in Nat
      BY <1>2, <2>1, BlockFields, NominalIs
    <2>4. m \in Nat /\ m <= NominalSpeed(q[2], pn_override) /\ m <= top
      BY <1>5, <2>3, MaxEntryIs
    <2>5. q[2].entry <= q[2].max
      BY <1>2, <1>7, <2>1, CanStopMeans
    <2> HIDE DEF m, top
    <2> QED
      BY <1>5, <2>2, <2>3, <2>4, <2>5
  <1>11. ~pn_hold => pn_exit <= pn_speed + l /\ pn_exit <= top
    <2> SUFFICES ASSUME ~pn_hold PROVE pn_exit <= pn_speed + l /\ pn_exit <= top
      OBVIOUS
    <2>1. CASE n < 2
      <3> HIDE DEF l, top
      <3> QED
        BY <1>2, <1>4, <1>5, <1>6, <2>1
    <2>2. CASE n >= 2
      <3>1. CannotBeRaised(q, pn_speed, pn_planned, 2)
        BY <1>2, <1>6, <2>2 DEF PlanKept, FullyUsed
      <3>2. EntryAt(q, pn_speed, 2 - 1) = pn_speed /\ 2 - 1 = 1
        BY DEF EntryAt
      <3>3. q[2].entry <= pn_speed + l
        BY <3>1, <3>2 DEF CannotBeRaised
      <3> QED
        BY <1>6, <1>10, <2>2, <3>3
    <2> QED
      BY <1>2, <2>1, <2>2
  <1>12. /\ NextSpeed \in Nat /\ NextSpeed <= top
         /\ NextSpeed - pn_speed \in -1 .. 1 /\ NextSpeed <= pn_exit + l - 1
         /\ ~pn_hold => /\ pn_exit <= NextSpeed + l - 1
                        /\ pn_exit = pn_speed + l => pn_exit = NextSpeed + l - 1
         /\ (~pn_hold /\ l = 1) => NextSpeed = pn_exit
         /\ ~DecelOnly
    <2>1. pn_hold => pn_speed > 0
      OBVIOUS
    <2> DEFINE l2 == l
               top2 == top
    <2>2. l2 \in Nat \ {0} /\ l2 = pn_queue[1].length /\ top2 \in Nat \ {0}
          /\ top2 = NominalSpeed(pn_queue[1], pn_override)
      BY <1>4, <1>5
    <2> HIDE DEF l2, top2
    <2>3. pn_speed <= top2 /\ pn_speed <= pn_exit + l2 /\ (~pn_hold => pn_exit <= pn_speed + l2 /\ pn_exit <= top2)
      BY <1>8, <1>9, <1>11, <2>2
    <2>4. /\ NextSpeed \in Nat /\ NextSpeed <= top2
          /\ NextSpeed - pn_speed \in -1 .. 1 /\ NextSpeed <= pn_exit + l2 - 1
          /\ ~pn_hold => /\ pn_exit <= NextSpeed + l2 - 1
                         /\ pn_exit = pn_speed + l2 => pn_exit = NextSpeed + l2 - 1
          /\ (~pn_hold /\ l2 = 1) => NextSpeed = pn_exit
          /\ ~DecelOnly
      BY <1>2, <1>3, <2>1, <2>2, <2>3, NextSpeedIs
    <2> QED
      BY <2>4 DEF l2, top2
  <1> QED
    BY <1>1, <1>2, <1>3, <1>4, <1>6, <1>7, <1>9, <1>10, <1>12

\* So does a cell inside of a block.
LEMMA PrepCellKeeps ==
  ASSUME PlanSound, PrepCell
  PROVE  PlanSound'
  <1> DEFINE n == Len(pn_queue)
             l == pn_queue[1].length
             v == NextSpeed
             q == [pn_queue EXCEPT ![1].length = @ - 1]
  <1>1. PlanKept
    BY DEF PlanSound
  <1> USE <1>1
  <1>2. /\ pn_queue' = q /\ pn_planned' = pn_planned /\ pn_exit' = pn_exit
        /\ pn_previous' = pn_previous /\ pn_decel' = pn_decel /\ pn_override' = pn_override
        /\ pn_loaded' = pn_loaded /\ pn_speed' = v /\ pn_hold' = pn_hold /\ pn_jump' = v - pn_speed
        /\ pn_loaded /\ (pn_hold => pn_speed > 0) /\ l > 1 /\ pn_lowered' = pn_lowered
    BY DEF PrepCell, Moved
  <1>3. /\ n \in Nat /\ n > 0 /\ 1 \in 1 .. n /\ n \in 1 .. n /\ pn_queue # <<>>
        /\ pn_queue \in Seq(Block) /\ l \in Nat \ {0} /\ Now = pn_speed /\ pn_speed \in Nat
        /\ pn_exit = ExitOf(pn_queue) /\ pn_exit \in Nat /\ pn_planned \in Nat \ {0} /\ pn_planned <= n
        /\ pn_previous \in Nat /\ pn_override \in Overrides /\ pn_hold \in BOOLEAN /\ ~pn_decel
        /\ (n < 2 => pn_exit = 0) /\ (n >= 2 => 2 \in 2 .. n /\ 2 \in 1 .. n /\ pn_exit = pn_queue[2].entry)
        /\ CanStop(pn_queue, pn_speed) /\ MaximaAreCurrent(pn_queue, pn_override)
        /\ pn_previous = NominalSpeed(pn_queue[n], pn_override)
    BY <1>2, Executed
  <1>4. /\ v \in Nat /\ v <= NominalSpeed(pn_queue[1], pn_override)
        /\ v - pn_speed \in -1 .. 1 /\ v <= pn_exit + l - 1
        /\ ~pn_hold => /\ pn_exit <= v + l - 1
                       /\ pn_exit = pn_speed + l => pn_exit = v + l - 1
    BY <1>2, Executed
  <1> HIDE DEF v
  <1> DEFINE b == [pn_queue[1] EXCEPT !.length = l - 1]
  <1>5. b \in Block /\ b.length = l - 1 /\ b.max = pn_queue[1].max /\ b.entry = pn_queue[1].entry
        /\ b.junction = pn_queue[1].junction /\ b.rate = pn_queue[1].rate
    <2>1. pn_queue[1] \in Block
      BY <1>3
    <2>2. l - 1 \in Nat \ {0}
      BY <1>2, <1>3
    <2> HIDE DEF l
    <2> QED
      BY <2>1, <2>2 DEF Block
  <1>6. q = [pn_queue EXCEPT ![1] = b]
    OBVIOUS
  <1> HIDE DEF q, b, l
  <1>7. q \in Seq(Block) /\ Len(q) = n /\ q[1] = b /\ \A i \in 1 .. n : i # 1 => q[i] = pn_queue[i]
    BY <1>3, <1>5, <1>6
  <1>8. \A i \in 2 .. n : i \in 1 .. n /\ q[i] = pn_queue[i]
    <2>1. \A i \in 2 .. n : i \in 1 .. n /\ i # 1
      BY <1>3
    <2> QED
      BY <1>7, <2>1
  <1>9. q # <<>>
    BY <1>3, <1>7
  <1>10. Now' = v
    BY <1>2 DEF Now
  <1>11. \A i \in 1 .. n : NominalSpeed(q[i], pn_override) = NominalSpeed(pn_queue[i], pn_override)
    BY <1>5, <1>7 DEF NominalSpeed
  <1>12. PnTypeOK'
    <2>1. PnTypeOK
      BY DEF PlanKept
    <2> QED
      BY <1>2, <1>4, <1>7, <2>1 DEF PnTypeOK
  <1>13. MaximaAreCurrent(q, pn_override)
    <2>1. ASSUME NEW i \in 2 .. n
          PROVE  q[i].max = MaxEntry(q[i].junction, NominalSpeed(q[i], pn_override),
                                     NominalSpeed(q[i - 1], pn_override))
      <3>1. i \in 1 .. n /\ i - 1 \in 1 .. n
        BY <1>3
      <3> QED
        BY <1>3, <1>8, <1>11, <3>1 DEF MaximaAreCurrent
    <2> QED
      BY <1>7, <2>1 DEF MaximaAreCurrent
  <1>14. SpeedsAreCurrent'
    <2>1. pn_previous = NominalSpeed(q[n], pn_override) /\ v <= NominalSpeed(q[1], pn_override)
      BY <1>3, <1>4, <1>11
    <2> QED
      BY <1>2, <1>7, <1>10, <2>1 DEF SpeedsAreCurrent
  <1>15. ProfileJoins'
    <2>1. ExitOf(q) = ExitOf(pn_queue)
      <3>1. n < 2 \/ 2 \in 2 .. n
        BY <1>3
      <3> QED
        BY <1>7, <1>8, <3>1 DEF ExitOf
    <2> QED
      BY <1>2, <1>3, <1>9, <2>1 DEF ProfileJoins
  <1>16. \A i \in 2 .. n + 1 : EntryAt(q, v, i) = EntryAt(pn_queue, pn_speed, i)
    <2> SUFFICES ASSUME NEW i \in 2 .. n + 1 PROVE EntryAt(q, v, i) = EntryAt(pn_queue, pn_speed, i)
      OBVIOUS
    <2>1. i # 1 /\ (i <= n => i \in 2 .. n)
      BY <1>3
    <2> QED
      BY <1>7, <1>8, <2>1 DEF EntryAt
  <1>17. /\ EntryAt(q, v, 1) = v /\ EntryAt(pn_queue, pn_speed, 1) = pn_speed
         /\ EntryAt(q, v, 2) = pn_exit /\ EntryAt(pn_queue, pn_speed, 2) = pn_exit
    <2>1. EntryAt(q, v, 1) = v /\ EntryAt(pn_queue, pn_speed, 1) = pn_speed
      BY DEF EntryAt
    <2>2. EntryAt(pn_queue, pn_speed, 2) = pn_exit
      BY <1>3, ExitIs
    <2>3. 2 \in 2 .. n + 1
      BY <1>3
    <2> QED
      BY <1>16, <2>1, <2>2, <2>3
  <1>18. q[1].length = l - 1
    BY <1>5, <1>7
  <1>19. CanStop(q, v)
    <2>1. ASSUME NEW i \in 1 .. n
          PROVE  /\ EntryAt(q, v, i) <= EntryAt(q, v, i + 1) + q[i].length
                 /\ i > 1 => q[i].entry <= q[i].max
      <3>1. CASE i = 1
        <4>1. EntryAt(q, v, i) = v /\ EntryAt(q, v, i + 1) = pn_exit /\ q[i].length = l - 1 /\ ~(i > 1)
          BY <1>17, <1>18, <3>1
        <4>2. v <= pn_exit + (l - 1)
          BY <1>3, <1>4 DEF l
        <4> QED
          BY <4>1, <4>2
      <3>2. CASE i # 1
        <4>1. i \in 2 .. n /\ i \in 2 .. n + 1 /\ i + 1 \in 2 .. n + 1
          BY <1>3, <3>2
        <4> QED
          BY <1>3, <1>8, <1>16, <4>1 DEF CanStop
      <3> QED
        BY <3>1, <3>2
    <2> QED
      BY <1>7, <2>1 DEF CanStop
  <1>20. ~pn_hold => FullyUsed(q, v, pn_planned)
    <2> SUFFICES ASSUME ~pn_hold, NEW i \in 2 .. n PROVE CannotBeRaised(q, v, pn_planned, i)
      BY <1>7 DEF FullyUsed
    <2>1. CannotBeRaised(pn_queue, pn_speed, pn_planned, i)
      BY <1>3 DEF PlanKept, FullyUsed
    <2>2. q[i] = pn_queue[i] /\ i \in 1 .. n /\ i + 1 \in 2 .. n + 1
      BY <1>3, <1>8
    <2>3. EntryAt(q, v, i + 1) = EntryAt(pn_queue, pn_speed, i + 1)
      BY <1>16, <2>2
    <2>4. CASE i = 2
      <3>1. EntryAt(q, v, i - 1) + q[i - 1].length = v + (l - 1)
            /\ EntryAt(pn_queue, pn_speed, i - 1) + pn_queue[i - 1].length = pn_speed + l
        <4>1. i - 1 = 1
          BY <2>4
        <4> QED
          BY <1>17, <1>18, <4>1 DEF l
      <3>2. q[i].entry = pn_exit /\ pn_queue[i].entry = pn_exit
        BY <1>3, <2>2, <2>4
      <3>3. pn_exit <= v + (l - 1) /\ (pn_exit = pn_speed + l => pn_exit = v + (l - 1))
        BY <1>3, <1>4 DEF l
      <3>4. \/ pn_exit \in {pn_queue[i].max, pn_speed + l}
            \/ i # pn_planned /\ pn_exit = EntryAt(pn_queue, pn_speed, i + 1) + pn_queue[i].length
        BY <2>1, <3>1, <3>2 DEF CannotBeRaised
      <3>5. \/ pn_exit \in {q[i].max, v + (l - 1)}
            \/ i # pn_planned /\ pn_exit = EntryAt(q, v, i + 1) + q[i].length
        BY <2>2, <2>3, <3>3, <3>4
      <3> QED
        BY <3>1, <3>2, <3>3, <3>5 DEF CannotBeRaised
    <2>5. CASE i # 2
      <3>1. i - 1 \in 2 .. n /\ i - 1 \in 2 .. n + 1
        BY <1>3, <2>5
      <3>2. EntryAt(q, v, i - 1) = EntryAt(pn_queue, pn_speed, i - 1) /\ q[i - 1] = pn_queue[i - 1]
        BY <1>8, <1>16, <3>1
      <3> QED
        BY <2>1, <2>2, <2>3, <3>2 DEF CannotBeRaised
    <2> QED
      BY <2>4, <2>5
  <1>21. AccelerationKept' /\ PlanEndsInStop'
    BY <1>2, <1>4, <1>9 DEF AccelerationKept, PlanEndsInStop
  <1> QED
    BY <1>2, <1>10, <1>12, <1>13, <1>14, <1>15, <1>19, <1>20, <1>21 DEF PlanSound, PlanKept

\* So does the last cell, which discards the block.
LEMMA PrepLastCellKeeps ==
  ASSUME PlanSound, PrepLastCell
  PROVE  PlanSound'
  <1> DEFINE n == Len(pn_queue)
             v == NextSpeed
             q == Tail(pn_queue)
             p == IF pn_planned = 1 THEN 1 ELSE pn_planned - 1
  <1>1. PlanKept
    BY DEF PlanSound
  <1> USE <1>1
  <1>2. /\ pn_queue' = q /\ pn_planned' = p /\ pn_exit' = v
        /\ pn_previous' = pn_previous /\ pn_decel' = (~pn_hold /\ DecelOnly) /\ pn_override' = pn_override
        /\ pn_loaded' = FALSE /\ pn_speed' = v /\ pn_hold' = pn_hold /\ pn_jump' = v - pn_speed
        /\ pn_loaded /\ (pn_hold => pn_speed > 0) /\ pn_queue[1].length = 1 /\ pn_lowered' = pn_lowered
    BY DEF PrepLastCell, Moved
  <1>3. /\ n \in Nat /\ n > 0 /\ 1 \in 1 .. n /\ n \in 1 .. n /\ pn_queue # <<>>
        /\ pn_queue \in Seq(Block) /\ Now = pn_speed /\ pn_speed \in Nat
        /\ pn_exit \in Nat /\ pn_planned \in Nat \ {0} /\ pn_planned <= n
        /\ pn_previous \in Nat /\ pn_override \in Overrides /\ pn_hold \in BOOLEAN /\ pn_lowered \in BOOLEAN
        /\ (n < 2 => pn_exit = 0) /\ (n >= 2 => 2 \in 2 .. n /\ 2 \in 1 .. n /\ pn_exit = pn_queue[2].entry)
        /\ CanStop(pn_queue, pn_speed) /\ MaximaAreCurrent(pn_queue, pn_override)
        /\ pn_previous = NominalSpeed(pn_queue[n], pn_override)
        /\ (n >= 2 => pn_queue[2].entry <= NominalSpeed(pn_queue[2], pn_override))
    BY <1>2, Executed
  <1>4. /\ v \in Nat /\ v - pn_speed \in -1 .. 1 /\ v <= pn_exit /\ (~pn_hold => v = pn_exit) /\ ~DecelOnly
    <2>1. /\ v \in Nat /\ v - pn_speed \in -1 .. 1 /\ v <= pn_exit + pn_queue[1].length - 1 /\ ~DecelOnly
          /\ (~pn_hold /\ pn_queue[1].length = 1 => v = pn_exit)
      BY <1>2, Executed
    <2> HIDE DEF v
    <2>2. v <= pn_exit
      BY <1>2, <1>3, <2>1
    <2> QED
      BY <1>2, <2>1, <2>2
  <1> HIDE DEF v
  <1>5. q \in Seq(Block) /\ Len(q) = n - 1 /\ \A i \in 1 .. n - 1 : q[i] = pn_queue[i + 1]
    BY <1>3
  <1> HIDE DEF q
  <1>6. q # <<>> => n >= 2 /\ Now' = pn_exit /\ q[1] = pn_queue[2] /\ q[n - 1] = pn_queue[n]
    <2> SUFFICES ASSUME q # <<>> PROVE n >= 2 /\ Now' = pn_exit /\ q[1] = pn_queue[2] /\ q[n - 1] = pn_queue[n]
      OBVIOUS
    <2>1. n >= 2
      BY <1>3, <1>5
    <2>2. 1 \in 1 .. n - 1 /\ n - 1 \in 1 .. n - 1 /\ n - 1 + 1 = n /\ 1 + 1 = 2
      BY <1>3, <2>1
    <2>3. q[1] = pn_queue[1 + 1] /\ q[n - 1] = pn_queue[n - 1 + 1]
      BY <1>5, <2>2
    <2>4. Now' = q[1].entry
      BY <1>2 DEF Now
    <2> QED
      BY <1>3, <2>1, <2>2, <2>3, <2>4
  <1>7. p \in Nat \ {0} /\ (q = <<>> \/ p <= Len(q))
    <2>1. q # <<>> => 1 <= n - 1
      BY <1>3, <1>5
    <2>2. p \in Nat \ {0} /\ (1 <= n - 1 => p <= n - 1)
      BY <1>3
    <2> HIDE DEF p
    <2> QED
      BY <1>5, <2>1, <2>2
  <1>8. pn_decel' = FALSE
    BY <1>2, <1>4
  <1>9. PnTypeOK'
    <2>1. pn_planned' \in Nat \ {0} /\ (pn_queue' = <<>> \/ pn_planned' <= Len(pn_queue'))
      BY <1>2, <1>7
    <2>2. pn_queue' \in Seq(Block) /\ pn_speed' \in Nat /\ pn_exit' \in Nat /\ pn_previous' \in Nat
          /\ pn_override' \in Overrides
      BY <1>2, <1>3, <1>4, <1>5
    <2>3. pn_loaded' \in BOOLEAN /\ pn_hold' \in BOOLEAN /\ pn_decel' \in BOOLEAN
          /\ pn_lowered' \in BOOLEAN
      BY <1>2, <1>3, <1>8
    <2> QED
      BY <2>1, <2>2, <2>3, Zenon DEF PnTypeOK
  <1>10. MaximaAreCurrent(q, pn_override)
    BY <1>3, TailMaxima DEF q
  <1>11. SpeedsAreCurrent'
    <2> SUFFICES ASSUME q # <<>>
                 PROVE  /\ pn_previous = NominalSpeed(q[n - 1], pn_override)
                        /\ Now' <= NominalSpeed(q[1], pn_override)
      BY <1>2, <1>5 DEF SpeedsAreCurrent
    <2> QED
      BY <1>3, <1>6
  <1>12. ProfileJoins'
    BY <1>2, <1>4, <1>6, <1>8 DEF ProfileJoins
  <1>13. \A i \in 1 .. n : EntryAt(q, pn_exit, i) = EntryAt(pn_queue, pn_speed, i + 1)
    <2> SUFFICES ASSUME NEW i \in 1 .. n PROVE EntryAt(q, pn_exit, i) = EntryAt(pn_queue, pn_speed, i + 1)
      OBVIOUS
    <2>1. i + 1 # 1 /\ (i + 1 <= n <=> i <= n - 1)
      BY <1>3
    <2>2. CASE i = 1
      <3>1. EntryAt(q, pn_exit, i) = pn_exit /\ i + 1 = 2
        BY <2>2 DEF EntryAt
      <3>2. pn_exit = IF 2 <= n THEN pn_queue[2].entry ELSE 0
        BY <1>3
      <3> QED
        BY <2>1, <3>1, <3>2 DEF EntryAt
    <2>3. CASE i # 1
      <3>1. i <= n - 1 => q[i] = pn_queue[i + 1]
        BY <1>3, <1>5
      <3> QED
        BY <1>5, <2>1, <2>3, <3>1 DEF EntryAt
    <2> QED
      BY <2>2, <2>3
  <1>14. CanStop(q, pn_exit)
    <2>1. ASSUME NEW i \in 1 .. n - 1
          PROVE  /\ EntryAt(q, pn_exit, i) <= EntryAt(q, pn_exit, i + 1) + q[i].length
                 /\ i > 1 => q[i].entry <= q[i].max
      <3>1. i \in 1 .. n /\ i + 1 \in 1 .. n /\ i + 1 > 1
        BY <1>3
      <3>2. q[i] = pn_queue[i + 1]
        BY <1>5
      <3> QED
        BY <1>3, <1>13, <3>1, <3>2 DEF CanStop
    <2> QED
      BY <1>5, <2>1 DEF CanStop
  <1>15. ~pn_hold => FullyUsed(q, pn_exit, p)
    <2> SUFFICES ASSUME ~pn_hold, NEW i \in 2 .. n - 1 PROVE CannotBeRaised(q, pn_exit, p, i)
      BY <1>5 DEF FullyUsed
    <2>1. /\ i + 1 \in 2 .. n /\ i \in 1 .. n - 1 /\ i - 1 \in 1 .. n - 1 /\ i - 1 + 1 = i /\ i + 1 - 1 = i
          /\ i - 1 \in 1 .. n /\ i + 1 \in 1 .. n
      BY <1>3
    <2>2. CannotBeRaised(pn_queue, pn_speed, pn_planned, i + 1)
      BY <1>3, <2>1 DEF PlanKept, FullyUsed
    <2>3. q[i] = pn_queue[i + 1] /\ q[i - 1] = pn_queue[i]
      BY <1>5, <2>1
    <2>4. EntryAt(q, pn_exit, i - 1) = EntryAt(pn_queue, pn_speed, i)
          /\ EntryAt(q, pn_exit, i + 1) = EntryAt(pn_queue, pn_speed, i + 1 + 1)
      BY <1>13, <2>1
    <2>5. i + 1 # pn_planned => i # p
      BY <1>3
    <2>6. /\ q[i].entry <= EntryAt(q, pn_exit, i - 1) + q[i - 1].length
          /\ \/ q[i].entry \in {q[i].max, EntryAt(q, pn_exit, i - 1) + q[i - 1].length}
             \/ i + 1 # pn_planned /\ q[i].entry = EntryAt(q, pn_exit, i + 1) + q[i].length
      BY <2>1, <2>2, <2>3, <2>4 DEF CannotBeRaised
    <2> QED
      BY <2>5, <2>6 DEF CannotBeRaised
  <1>16. CanStop(q, Now') /\ (~pn_hold => FullyUsed(q, Now', p))
    <2>1. CASE q # <<>>
      BY <1>6, <1>14, <1>15, <2>1
    <2>2. CASE q = <<>>
      <3>1. Len(q) = 0 /\ 1 .. Len(q) = {} /\ 2 .. Len(q) = {}
        BY <2>2
      <3> QED
        BY <3>1 DEF CanStop, FullyUsed
    <2> QED
      BY <2>1, <2>2
  <1>17. AccelerationKept' /\ PlanEndsInStop'
    <2>1. q = <<>> => v = 0
      <3> SUFFICES ASSUME q = <<>> PROVE v = 0
        OBVIOUS
      <3>1. n = 1
        BY <1>3, <1>5
      <3> QED
        BY <1>3, <1>4, <3>1
    <2> QED
      BY <1>2, <1>4, <2>1 DEF AccelerationKept, PlanEndsInStop
  <1> QED
    BY <1>2, <1>9, <1>10, <1>11, <1>12, <1>16, <1>17 DEF PlanSound, PlanKept

-----------------------------------------------------------------------------
\* Every step keeps it, until a block is slowed down.
LEMMA PlanStaysSound == PlanSound /\ [PnNext]_pn_vars /\ ~pn_lowered' => PlanSound' \/ Stops
  <1> SUFFICES ASSUME PlanSound, [PnNext]_pn_vars, ~pn_lowered' PROVE PlanSound' \/ Stops
    OBVIOUS
  <1>1. ASSUME NEW l \in Lines, BufferLine(l) PROVE PlanSound'
    BY <1>1, BufferLineKeeps
  <1>2. ASSUME NEW f \in Overrides, ChangeOverride(f) PROVE PlanSound'
    <2>1. pn_lowered' = (pn_lowered \/ Slows(f))
      BY <1>2 DEF ChangeOverride
    <2>2. ~Slows(f) /\ pn_lowered' \in BOOLEAN
      BY <2>1
    <2> QED
      BY <1>2, <2>2, ChangeOverrideKeeps
  <1>3. CASE LoadBlock
    BY <1>3, LoadBlockKeeps
  <1>4. CASE PrepCell
    BY <1>4, PrepCellKeeps
  <1>5. CASE PrepLastCell
    BY <1>5, PrepLastCellKeeps
  <1>6. CASE StartHold
    BY <1>6, StartHoldKeeps
  <1>7. CASE HoldEnds
    BY <1>7, HoldEndsKeeps
  <1>8. CASE UNCHANGED pn_vars
    BY <1>8 DEF PlanSound, PlanKept, PnTypeOK, SpeedsAreCurrent, ProfileJoins, Now,
                AccelerationKept, PlanEndsInStop, pn_vars, pn_plan, pn_prep, pn_bound
  <1> QED
    BY <1>1, <1>2, <1>3, <1>4, <1>5, <1>6, <1>7, <1>8 DEF PnNext

\* Outside of a hold, the plan that every step keeps is the optimal one.
LEMMA SoundIsOptimal == PlanSound => PlanIsOptimal
  <1> SUFFICES ASSUME PlanSound, Len(pn_queue) > 1, ~pn_hold PROVE PlanIsOptimal
    BY DEF PlanIsOptimal
  <1> QED
    BY KeptMeans, UsedPlanIsOptimal DEF PlanSound, PlanKept

-----------------------------------------------------------------------------
(* What holds whatever the overrides do.                                   *)

\* The cells from the beginning of each block to the end of the last one.
CellsLeft(q, s) ==
  /\ s \in [1 .. Len(q) + 1 -> Nat] /\ s[Len(q) + 1] = 0
  /\ \A i \in 1 .. Len(q) : s[i] = s[i + 1] + q[i].length

\* No entry is too fast to stop at the end of the plan.
StopsInTime(q, s) == CellsLeft(q, s) /\ \A i \in 2 .. Len(q) : q[i].entry <= s[i]

\* Every entry can be reached from the one before.
Reached(q, now) == \A i \in 2 .. Len(q) : q[i].entry <= EntryAt(q, now, i - 1) + q[i - 1].length

\* The inductive invariant without a condition on the override.
PlanRuns ==
  /\ PnTypeOK /\ MaximaAreCurrent(pn_queue, pn_override) /\ BelowMaxima(pn_queue)
  /\ \E s : /\ StopsInTime(pn_queue, s) /\ pn_speed <= s[1]
            /\ pn_queue # <<>> => Now <= s[1]
  /\ ~pn_hold => Reached(pn_queue, Now)
  /\ pn_queue # <<>> => pn_previous = NominalSpeed(pn_queue[Len(pn_queue)], pn_override)
  /\ pn_loaded => pn_queue # <<>> /\ pn_exit = ExitOf(pn_queue)
  /\ ~pn_loaded => pn_exit = pn_speed /\ (pn_queue # <<>> /\ ~pn_hold => Now <= pn_speed)
  /\ pn_jump \in Int /\ pn_jump <= 1

\* The reverse pass raises no entry above its maximum, nor over what stops in time.
LEMMA ReverseStops ==
  ASSUME NEW q \in Seq(Block), NEW p \in 1 .. Len(q), p < Len(q), NEW s, StopsInTime(q, s)
  PROVE  \A i \in p + 1 .. Len(q) : ReversePass(q, p)[i] <= q[i].max /\ ReversePass(q, p)[i] <= s[i]
  <1> DEFINE n == Len(q)
             r == ReversePass(q, p)
  <1>1. n \in Nat /\ p \in Nat /\ p < n
    OBVIOUS
  <1>2. \A i \in p + 1 .. n :
          r[i] = IF i = n THEN PnMin(q[i].max, q[i].length)
                 ELSE IF q[i].entry = q[i].max THEN q[i].max
                 ELSE PnMin(q[i].max, r[i + 1] + q[i].length)
    <2>1. SlowsDown(q, p + 1, [i \in p + 1 .. n |-> r[i]])
      BY ReverseIs
    <2> HIDE DEF r
    <2>2. \A i \in p + 1 .. n : i # n => i + 1 \in p + 1 .. n
      BY <1>1
    <2> QED
      BY <2>1, <2>2 DEF SlowsDown
  <1>3. r \in [1 .. n -> Nat]
    BY ReverseIs
  <1> HIDE DEF r
  <1>4. ASSUME NEW i \in p + 1 .. n
        PROVE  /\ i \in 1 .. n /\ i \in 2 .. n /\ q[i].max \in Nat /\ q[i].length \in Nat /\ q[i].entry \in Nat
               /\ q[i].entry <= s[i] /\ s[i] \in Nat /\ s[i] = s[i + 1] + q[i].length /\ s[i + 1] \in Nat
               /\ (i = n => s[i + 1] = 0)
    <2>1. i \in 1 .. n /\ i \in 2 .. n /\ i \in 1 .. n + 1 /\ i + 1 \in 1 .. n + 1
      BY <1>1
    <2> QED
      BY <2>1, BlockFields DEF StopsInTime, CellsLeft
  <1> DEFINE Bad == {k \in Nat : n - k \in p + 1 .. n /\ ~(r[n - k] <= q[n - k].max /\ r[n - k] <= s[n - k])}
  <1>5. ASSUME Bad # {} PROVE FALSE
    <2>1. PICK k \in Bad : \A j \in Bad : k <= j
      BY <1>5, LeastOf
    <2> DEFINE i == n - k
    <2>2. i \in p + 1 .. n /\ ~(r[i] <= q[i].max /\ r[i] <= s[i]) /\ k \in Nat
      BY <2>1, <1>1
    <2>3. i # n => r[i + 1] <= s[i + 1] /\ i + 1 \in p + 1 .. n
      <3> SUFFICES ASSUME i # n, ~(r[i + 1] <= s[i + 1]) PROVE FALSE
        BY <1>1, <2>2
      <3>1. k - 1 \in Nat /\ n - (k - 1) = i + 1 /\ i + 1 \in p + 1 .. n
        BY <2>2, <1>1
      <3>2. k - 1 \in Bad
        BY <3>1
      <3> HIDE DEF Bad
      <3> QED
        BY <3>2, <2>1, <2>2
    <2> HIDE DEF i
    <2>4. CASE i = n
      <3>1. r[i] = PnMin(q[i].max, q[i].length)
        BY <1>2, <2>2, <2>4
      <3>2. q[i].max \in Nat /\ q[i].length \in Nat /\ s[i] = q[i].length
        BY <1>4, <2>2, <2>4
      <3>3. r[i] <= q[i].max /\ r[i] <= q[i].length
        BY <3>1, <3>2 DEF PnMin
      <3> QED
        BY <2>2, <3>2, <3>3
    <2>5. CASE i # n
      <3>1. r[i] = IF q[i].entry = q[i].max THEN q[i].max ELSE PnMin(q[i].max, r[i + 1] + q[i].length)
        BY <1>2, <2>2, <2>5
      <3>2. r[i + 1] \in Nat /\ r[i + 1] <= s[i + 1]
        <4>1. i + 1 \in 1 .. n
          BY <1>1, <2>3, <2>5
        <4> QED
          BY <1>3, <2>3, <2>5, <4>1
      <3>3. CASE q[i].entry = q[i].max
        BY <1>4, <2>2, <3>1, <3>3
      <3>4. CASE q[i].entry # q[i].max
        <4>1. r[i] = PnMin(q[i].max, r[i + 1] + q[i].length)
          BY <3>1, <3>4
        <4>2. /\ q[i].max \in Nat /\ q[i].length \in Nat /\ s[i] = s[i + 1] + q[i].length
              /\ s[i + 1] \in Nat
          BY <1>4, <2>2
        <4>3. r[i] <= q[i].max /\ r[i] <= r[i + 1] + q[i].length
          BY <3>2, <4>1, <4>2 DEF PnMin
        <4>4. r[i] <= s[i + 1] + q[i].length
          <5>1. r[i] \in Nat
            BY <1>3, <1>4, <2>2
          <5> QED
            BY <3>2, <4>2, <4>3, <5>1
        <4> QED
          BY <2>2, <4>2, <4>3, <4>4
      <3> QED
        BY <3>3, <3>4
    <2> QED
      BY <2>4, <2>5
  <1>6. ASSUME NEW i \in p + 1 .. n PROVE r[i] <= q[i].max /\ r[i] <= s[i]
    <2>1. n - i \in Nat /\ n - (n - i) = i
      BY <1>1
    <2>2. n - i \notin Bad
      BY <1>5
    <2> QED
      BY <2>1, <2>2
  <1> QED
    BY <1>6 DEF r

\* From any plan that stops in time, the passes make one that does.
LEMMA PassesRun ==
  ASSUME NEW q \in Seq(Block), NEW p \in 1 .. Len(q), p < Len(q), NEW now \in Nat,
         NEW s, StopsInTime(q, s), \A i \in 2 .. p : q[i].entry <= q[i].max,
         p = 1 => q[1].entry = now
  PROVE  LET r == ReversePass(q, p)
             e == Forward(q, r, p)
             w == WithEntries(q, e)
         IN  /\ e \in [1 .. Len(q) -> Nat] /\ NextPlanned(q, r, e, p) \in 1 .. Len(q)
             /\ \A i \in 1 .. p : e[i] = q[i].entry
             /\ BelowMaxima(w) /\ StopsInTime(w, s)
             /\ (\A i \in 2 .. p : q[i].entry <= EntryAt(q, now, i - 1) + q[i - 1].length)
                  => Reached(w, now)
  <1> DEFINE n == Len(q)
             r == ReversePass(q, p)
             e == Forward(q, r, p)
             w == WithEntries(q, e)
             next == NextPlanned(q, r, e, p)
  <1>1. n \in Nat /\ p \in Nat /\ 1 <= p /\ p < n
    OBVIOUS
  <1>2. r \in [1 .. n -> Nat] /\ \A i \in 1 .. p : r[i] = q[i].entry
    BY ReverseIs
  <1>3. \A i \in p + 1 .. n : r[i] <= q[i].max /\ r[i] <= s[i]
    BY ReverseStops
  <1> HIDE DEF r
  <1>4. /\ e \in [1 .. n -> Nat] /\ \A i \in 1 .. p : e[i] = q[i].entry
        /\ \A i \in p + 1 .. n : e[i] = PnMin(e[i - 1] + q[i - 1].length, r[i])
    BY <1>2, ForwardIs
  <1>5. next \in 1 .. n
    <2>1. next \in p .. n
      BY <1>1, NextPlannedIs
    <2> HIDE DEF next
    <2> QED
      BY <1>1, <2>1
  <1> HIDE DEF e, next
  <1>6. w \in Seq(Block) /\ Len(w) = n
        /\ \A i \in 1 .. n : w[i].entry = e[i] /\ w[i].length = q[i].length /\ w[i].max = q[i].max
    BY <1>4, WithEntriesIs
  <1> HIDE DEF w
  <1>7. ASSUME NEW i \in p + 1 .. n
        PROVE  /\ i \in 1 .. n /\ i \in 2 .. n /\ i - 1 \in 1 .. n
               /\ e[i] <= r[i] /\ e[i] <= e[i - 1] + q[i - 1].length
               /\ e[i] \in Nat /\ r[i] \in Nat /\ q[i].max \in Nat /\ s[i] \in Nat
    <2>1. i \in 1 .. n /\ i \in 2 .. n /\ i - 1 \in 1 .. n /\ i \in 1 .. n + 1
      BY <1>1
    <2>2. q[i - 1].length \in Nat /\ e[i - 1] \in Nat /\ r[i] \in Nat /\ e[i] \in Nat /\ q[i].max \in Nat
      BY <1>2, <1>4, <2>1, BlockFields
    <2>3. e[i] = PnMin(e[i - 1] + q[i - 1].length, r[i])
      BY <1>4
    <2>4. s[i] \in Nat
      BY <2>1 DEF StopsInTime, CellsLeft
    <2> QED
      BY <2>1, <2>2, <2>3, <2>4 DEF PnMin
  <1>8. \A i \in 2 .. n : i \in 1 .. n /\ (i \in 2 .. p \/ i \in p + 1 .. n)
    BY <1>1
  <1>9. \A i \in 2 .. p : i \in 1 .. p /\ i \in 1 .. n
    BY <1>1
  <1>10. BelowMaxima(w)
    <2>1. ASSUME NEW i \in 2 .. n PROVE w[i].entry <= w[i].max
      <3>1. CASE i \in 2 .. p
        <4>1. e[i] = q[i].entry
          BY <1>4, <1>9, <3>1
        <4>2. q[i].entry <= q[i].max
          BY <3>1
        <4> QED
          BY <1>6, <1>8, <4>1, <4>2
      <3>2. CASE i \in p + 1 .. n
        <4>1. e[i] <= q[i].max
          BY <1>3, <1>7, <3>2
        <4> QED
          BY <1>6, <1>8, <4>1
      <3> QED
        BY <1>8, <3>1, <3>2
    <2> QED
      BY <1>6, <2>1 DEF BelowMaxima
  <1>11. StopsInTime(w, s)
    <2>1. CellsLeft(w, s)
      BY <1>6 DEF StopsInTime, CellsLeft
    <2>2. ASSUME NEW i \in 2 .. n PROVE w[i].entry <= s[i]
      <3>1. CASE i \in 2 .. p
        <4>1. e[i] = q[i].entry
          BY <1>4, <1>9, <3>1
        <4>2. q[i].entry <= s[i]
          BY DEF StopsInTime
        <4> QED
          BY <1>6, <1>8, <4>1, <4>2
      <3>2. CASE i \in p + 1 .. n
        <4>1. e[i] <= s[i]
          <5>1. r[i] <= s[i]
            BY <1>3, <3>2
          <5>2. e[i] <= r[i] /\ e[i] \in Nat /\ r[i] \in Nat /\ s[i] \in Nat
            BY <1>7, <3>2
          <5> QED
            BY <5>1, <5>2
        <4> QED
          BY <1>6, <1>8, <4>1
      <3> QED
        BY <1>8, <3>1, <3>2
    <2> QED
      BY <1>6, <2>1, <2>2 DEF StopsInTime
  <1>12. ASSUME \A i \in 2 .. p : q[i].entry <= EntryAt(q, now, i - 1) + q[i - 1].length
         PROVE  Reached(w, now)
    <2>1. ASSUME NEW i \in 2 .. n PROVE w[i].entry <= EntryAt(w, now, i - 1) + w[i - 1].length
      <3>1. i \in 1 .. n /\ i - 1 \in 1 .. n /\ i - 1 <= n
        BY <1>1
      <3>2. EntryAt(w, now, i - 1) = IF i - 1 = 1 THEN now ELSE e[i - 1]
        BY <1>6, <3>1 DEF EntryAt
      <3>3. w[i].entry = e[i] /\ w[i - 1].length = q[i - 1].length
        BY <1>6, <3>1
      <3>4. CASE i \in 2 .. p
        <4>1. EntryAt(q, now, i - 1) = IF i - 1 = 1 THEN now ELSE q[i - 1].entry
          BY <3>1 DEF EntryAt
        <4>2. i - 1 \in 1 .. p /\ i \in 1 .. p
          BY <1>1, <3>4
        <4>3. e[i - 1] = q[i - 1].entry /\ e[i] = q[i].entry
          BY <1>4, <4>2
        <4>4. EntryAt(w, now, i - 1) = EntryAt(q, now, i - 1)
          BY <3>2, <4>1, <4>3
        <4> QED
          BY <1>12, <3>3, <3>4, <4>3, <4>4
      <3>5. CASE i \in p + 1 .. n
        <4>1. i - 1 = 1 => e[i - 1] = now
          <5> SUFFICES ASSUME i - 1 = 1 PROVE e[1] = now
            OBVIOUS
          <5>1. p = 1 /\ 1 \in 1 .. p
            BY <1>1, <3>5
          <5> QED
            BY <1>4, <5>1
        <4> QED
          BY <1>7, <3>2, <3>3, <3>5, <4>1
      <3> QED
        BY <1>8, <3>4, <3>5
    <2> QED
      BY <1>6, <2>1 DEF Reached
  <1> QED
    BY <1>4, <1>5, <1>10, <1>11, <1>12 DEF w, next, e, r

\* planner_recalculate makes one of any plan that stops in time.
LEMMA RecalculatedRuns ==
  ASSUME pn_speed \in Nat, NEW q \in Seq(Block), NEW p \in 1 .. Len(q), p < Len(q), NEW now \in Nat,
         NEW s, StopsInTime(q, s), \A i \in 2 .. p : q[i].entry <= q[i].max,
         p = 1 => now = IF pn_loaded THEN pn_speed ELSE q[1].entry
  PROVE  LET made == Recalculated(q, p)
         IN  /\ SameBlocks(q, made.queue) /\ made.planned \in 1 .. Len(q)
             /\ made.updated = (p = 1 /\ pn_loaded)
             /\ BelowMaxima(made.queue) /\ StopsInTime(made.queue, s)
             /\ (\A i \in 2 .. p : q[i].entry <= EntryAt(q, now, i - 1) + q[i - 1].length)
                  => Reached(made.queue, now)
             /\ ~pn_loaded => made.queue[1].entry = q[1].entry
             /\ p # 1 => made.queue[2].entry = q[2].entry
  <1> DEFINE n == Len(q)
             made == Recalculated(q, p)
             q1 == IF p = 1 THEN Updated(q) ELSE q
             r == ReversePass(q1, p)
             e == Forward(q1, r, p)
  <1>1. n \in Nat /\ p \in Nat /\ p # n /\ n > 0
    OBVIOUS
  <1>2. made = [queue |-> WithEntries(q1, e), planned |-> NextPlanned(q1, r, e, p),
                updated |-> p = 1 /\ pn_loaded]
    BY <1>1 DEF Recalculated, WithEntries
  <1>3. /\ SameBlocks(q, q1) /\ \A i \in 2 .. n : q1[i] = q[i]
        /\ p = 1 => q1[1].entry = now
        /\ ~pn_loaded \/ p # 1 => q1 = q
    <2>1. CASE p = 1 /\ pn_loaded
      BY <1>1, <2>1, FirstEntryIs DEF Updated
    <2>2. CASE ~(p = 1 /\ pn_loaded)
      <3>1. q1 = q
        BY <2>2 DEF Updated
      <3> QED
        BY <2>2, <3>1 DEF SameBlocks
    <2> QED
      BY <2>1, <2>2
  <1> HIDE DEF q1
  <1>4. q1 \in Seq(Block) /\ Len(q1) = n
    BY <1>3 DEF SameBlocks
  <1>5. StopsInTime(q1, s) /\ \A i \in 2 .. p : q1[i].entry <= q1[i].max
    <2>1. \A i \in 1 .. n : q1[i].length = q[i].length
      BY <1>3 DEF SameBlocks
    <2>2. \A i \in 2 .. p : i \in 2 .. n
      BY <1>1
    <2> QED
      BY <1>3, <1>4, <2>1, <2>2 DEF StopsInTime, CellsLeft
  <1>6. /\ e \in [1 .. n -> Nat] /\ NextPlanned(q1, r, e, p) \in 1 .. n
        /\ BelowMaxima(WithEntries(q1, e)) /\ StopsInTime(WithEntries(q1, e), s)
        /\ \A i \in 1 .. p : e[i] = q1[i].entry
        /\ (\A i \in 2 .. p : q1[i].entry <= EntryAt(q1, now, i - 1) + q1[i - 1].length)
             => Reached(WithEntries(q1, e), now)
    BY <1>3, <1>4, <1>5, PassesRun
  <1> HIDE DEF e, r
  <1>7. /\ WithEntries(q1, e) \in Seq(Block) /\ Len(WithEntries(q1, e)) = n
        /\ \A i \in 1 .. n : /\ WithEntries(q1, e)[i] = [q1[i] EXCEPT !.entry = e[i]]
                             /\ WithEntries(q1, e)[i].entry = e[i]
    BY <1>4, <1>6, WithEntriesIs
  <1>8. SameBlocks(q, WithEntries(q1, e))
    <2>1. ASSUME NEW i \in 1 .. n
          PROVE  /\ WithEntries(q1, e)[i].length = q[i].length /\ WithEntries(q1, e)[i].max = q[i].max
                 /\ WithEntries(q1, e)[i].junction = q[i].junction /\ WithEntries(q1, e)[i].rate = q[i].rate
      <3>1. q1[i] \in Block
        BY <1>4
      <3>2. /\ q1[i].length = q[i].length /\ q1[i].max = q[i].max
            /\ q1[i].junction = q[i].junction /\ q1[i].rate = q[i].rate
        BY <1>3 DEF SameBlocks
      <3> QED
        BY <1>7, <3>1, <3>2 DEF Block
    <2> QED
      BY <1>7, <2>1 DEF SameBlocks
  <1>9. ASSUME \A i \in 2 .. p : q[i].entry <= EntryAt(q, now, i - 1) + q[i - 1].length
        PROVE  \A i \in 2 .. p : q1[i].entry <= EntryAt(q1, now, i - 1) + q1[i - 1].length
    <2>1. CASE p = 1
      <3>1. 2 .. p = {}
        BY <2>1
      <3> QED
        BY <3>1
    <2>2. CASE p # 1
      BY <1>3, <1>9, <2>2
    <2> QED
      BY <2>1, <2>2
  <1>10. ~pn_loaded => e[1] = q[1].entry
    <2>1. 1 \in 1 .. p
      BY <1>1
    <2> QED
      BY <1>3, <1>6, <2>1
  <1>11. p # 1 => e[2] = q[2].entry /\ 2 \in 1 .. n
    <2>1. p # 1 => 2 \in 1 .. p /\ 2 \in 1 .. n
      BY <1>1
    <2> QED
      BY <1>3, <1>6, <2>1
  <1>12. 1 \in 1 .. n
    BY <1>1
  <1> HIDE DEF made
  <1>13. made.queue = WithEntries(q1, e) /\ made.planned = NextPlanned(q1, r, e, p)
         /\ made.updated = (p = 1 /\ pn_loaded)
    BY <1>2
  <1>14. SameBlocks(q, made.queue) /\ made.planned \in 1 .. n
         /\ BelowMaxima(made.queue) /\ StopsInTime(made.queue, s)
    BY <1>6, <1>8, <1>13
  <1>15. (\A i \in 2 .. p : q[i].entry <= EntryAt(q, now, i - 1) + q[i - 1].length) => Reached(made.queue, now)
    BY <1>6, <1>9, <1>13
  <1>16. /\ ~pn_loaded => made.queue[1].entry = q[1].entry
         /\ p # 1 => made.queue[2].entry = q[2].entry
    BY <1>7, <1>10, <1>11, <1>12, <1>13
  <1> QED
    BY <1>13, <1>14, <1>15, <1>16 DEF made

\* So does plan_cycle_reinitialize.
LEMMA ReinitializedRuns ==
  ASSUME pn_speed \in Nat, NEW q \in Seq(Block), Len(q) > 0, NEW now \in Nat,
         NEW s, StopsInTime(q, s), now = IF pn_loaded THEN pn_speed ELSE q[1].entry
  PROVE  LET made == Recalculated(Updated(q), 1)
         IN  /\ SameBlocks(q, made.queue) /\ made.planned \in 1 .. Len(q)
             /\ BelowMaxima(made.queue) /\ StopsInTime(made.queue, s) /\ Reached(made.queue, now)
             /\ ~pn_loaded => made.queue[1].entry = q[1].entry
  <1> DEFINE n == Len(q)
             q1 == Updated(q)
             made == Recalculated(q1, 1)
  <1>1. n \in Nat /\ n > 0 /\ 1 \in 1 .. n /\ q # <<>>
    OBVIOUS
  <1>2. made = Recalculated(q1, 1)
    OBVIOUS
  <1>3. /\ SameBlocks(q, q1) /\ \A i \in 2 .. n : q1[i] = q[i]
        /\ pn_loaded => q1[1].entry = pn_speed
        /\ ~pn_loaded => q1 = q
    <2>1. CASE pn_loaded
      BY <2>1, FirstEntryIs DEF Updated
    <2>2. CASE ~pn_loaded
      BY <2>2 DEF Updated, SameBlocks
    <2> QED
      BY <2>1, <2>2
  <1> HIDE DEF q1
  <1>4. q1 \in Seq(Block) /\ Len(q1) = n
    BY <1>3 DEF SameBlocks
  <1>5. StopsInTime(q1, s)
    <2>1. \A i \in 1 .. n : q1[i].length = q[i].length
      BY <1>3 DEF SameBlocks
    <2> QED
      BY <1>3, <1>4, <2>1 DEF StopsInTime, CellsLeft
  <1>6. now = IF pn_loaded THEN pn_speed ELSE q1[1].entry
    BY <1>3
  <1>7. CASE n = 1
    <2>1. made.queue = q1 /\ made.planned = 1
      BY <1>2, <1>4, <1>7 DEF Recalculated
    <2>2. BelowMaxima(q1) /\ Reached(q1, now)
      BY <1>4, <1>7 DEF BelowMaxima, Reached
    <2> QED
      BY <1>1, <1>3, <1>5, <2>1, <2>2 DEF made, q1
  <1>8. CASE n # 1
    <2>1. 1 < Len(q1) /\ 1 \in 1 .. Len(q1) /\ 2 .. 1 = {}
      BY <1>1, <1>4, <1>8
    <2>2. /\ SameBlocks(q1, made.queue) /\ made.planned \in 1 .. Len(q1)
          /\ BelowMaxima(made.queue) /\ StopsInTime(made.queue, s) /\ Reached(made.queue, now)
          /\ ~pn_loaded => made.queue[1].entry = q1[1].entry
      BY <1>2, <1>4, <1>5, <1>6, <2>1, RecalculatedRuns
    <2>3. SameBlocks(q, made.queue)
      <3> HIDE DEF made
      <3> QED
        BY <1>3, <1>4, <2>2 DEF SameBlocks
    <2> QED
      BY <1>3, <1>4, <2>2, <2>3 DEF made, q1
  <1> QED
    BY <1>7, <1>8

\* With the same blocks and the same entries after the first, it stops in time too.
LEMMA RunsAsBefore ==
  ASSUME NEW q \in Seq(Block), NEW w, SameBlocks(q, w),
         \A i \in 2 .. Len(q) : w[i].entry = q[i].entry
  PROVE  /\ BelowMaxima(q) => BelowMaxima(w)
         /\ \A s : StopsInTime(q, s) => StopsInTime(w, s)
         /\ \A now, v \in Nat : Reached(q, now) /\ now <= v => Reached(w, v)
         /\ ExitOf(w) = ExitOf(q)
  <1> DEFINE n == Len(q)
  <1>1. n \in Nat /\ w \in Seq(Block) /\ Len(w) = n
    BY DEF SameBlocks
  <1>2. \A i \in 1 .. n : w[i].length = q[i].length /\ w[i].max = q[i].max
    BY DEF SameBlocks
  <1>3. \A i \in 2 .. n : i \in 1 .. n /\ i - 1 \in 1 .. n
    BY <1>1
  <1>4. BelowMaxima(q) => BelowMaxima(w)
    BY <1>1, <1>2, <1>3 DEF BelowMaxima
  <1>5. ASSUME NEW s, StopsInTime(q, s) PROVE StopsInTime(w, s)
    BY <1>1, <1>2, <1>5 DEF StopsInTime, CellsLeft
  <1>6. ASSUME NEW now \in Nat, NEW v \in Nat, Reached(q, now), now <= v PROVE Reached(w, v)
    <2>1. ASSUME NEW i \in 2 .. n PROVE w[i].entry <= EntryAt(w, v, i - 1) + w[i - 1].length
      <3>1. i \in 1 .. n /\ i - 1 \in 1 .. n /\ i - 1 <= n
        BY <1>1
      <3>2. q[i].entry <= EntryAt(q, now, i - 1) + q[i - 1].length
        BY <1>6 DEF Reached
      <3>3. w[i].entry = q[i].entry /\ w[i - 1].length = q[i - 1].length
        BY <1>2, <3>1
      <3>4. q[i].entry \in Nat /\ q[i - 1].length \in Nat
        BY <3>1, BlockFields
      <3>5. CASE i - 1 = 1
        <4>1. EntryAt(q, now, i - 1) = now /\ EntryAt(w, v, i - 1) = v
          BY <3>5 DEF EntryAt
        <4> QED
          BY <1>6, <3>2, <3>3, <3>4, <4>1
      <3>6. CASE i - 1 # 1
        <4>1. i - 1 \in 2 .. n
          BY <1>1, <3>6
        <4>2. EntryAt(q, now, i - 1) = q[i - 1].entry /\ EntryAt(w, v, i - 1) = w[i - 1].entry
          BY <1>1, <3>1, <3>6 DEF EntryAt
        <4>3. w[i - 1].entry = q[i - 1].entry
          BY <4>1
        <4> QED
          BY <3>2, <3>3, <4>2, <4>3
      <3> QED
        BY <3>5, <3>6
    <2> QED
      BY <1>1, <2>1 DEF Reached
  <1>7. ExitOf(w) = ExitOf(q)
    <2>1. n < 2 \/ 2 \in 2 .. n
      BY <1>1
    <2> QED
      BY <1>1, <2>1 DEF ExitOf
  <1> QED
    BY <1>4, <1>5, <1>6, <1>7

\* So does a plan with one line more, and from further away.
LEMMA AppendedRuns ==
  ASSUME NEW q \in Seq(Block), NEW b \in Block, b.entry = 0, NEW s, StopsInTime(q, s)
  PROVE  \E t : StopsInTime(Append(q, b), t) /\ s[1] \in Nat /\ t[1] \in Nat /\ s[1] <= t[1]
  <1> DEFINE n == Len(q)
             w == Append(q, b)
             t == [i \in 1 .. n + 2 |-> IF i = n + 2 THEN 0 ELSE s[i] + b.length]
  <1>1. n \in Nat /\ w \in Seq(Block) /\ Len(w) = n + 1 /\ w[n + 1] = b /\ \A i \in 1 .. n : w[i] = q[i]
    OBVIOUS
  <1> HIDE DEF w
  <1>2. b.length \in Nat
    BY DEF Block
  <1>3. s \in [1 .. n + 1 -> Nat] /\ s[n + 1] = 0 /\ \A i \in 1 .. n : s[i] = s[i + 1] + q[i].length
    BY DEF StopsInTime, CellsLeft
  <1>4. \A i \in 1 .. n + 1 : t[i] = s[i] + b.length /\ t[i] \in Nat /\ s[i] \in Nat
    BY <1>1, <1>2, <1>3
  <1>5. t[n + 2] = 0 /\ t \in [1 .. n + 2 -> Nat]
    BY <1>1, <1>2, <1>3
  <1> HIDE DEF t
  <1>6. CellsLeft(w, t)
    <2>1. ASSUME NEW i \in 1 .. n + 1 PROVE t[i] = t[i + 1] + w[i].length
      <3>1. CASE i = n + 1
        <4>1. i + 1 = n + 2 /\ t[i] = 0 + b.length
          BY <1>1, <1>3, <1>4, <3>1
        <4> QED
          BY <1>1, <1>2, <1>5, <3>1, <4>1
      <3>2. CASE i # n + 1
        <4>1. i \in 1 .. n /\ i + 1 \in 1 .. n + 1
          BY <1>1, <3>2
        <4>2. t[i] = s[i] + b.length /\ t[i + 1] = s[i + 1] + b.length /\ s[i] = s[i + 1] + q[i].length
          BY <1>3, <1>4, <4>1
        <4>3. w[i].length = q[i].length /\ q[i].length \in Nat /\ s[i + 1] \in Nat
          BY <1>1, <1>4, <4>1, BlockFields
        <4> QED
          BY <1>2, <4>2, <4>3
      <3> QED
        BY <3>1, <3>2
    <2>2. Len(w) + 1 = n + 2
      BY <1>1
    <2> QED
      BY <1>1, <1>5, <2>1, <2>2 DEF CellsLeft
  <1>7. ASSUME NEW i \in 2 .. n + 1 PROVE w[i].entry <= t[i]
    <2>1. i \in 1 .. n + 1
      BY <1>1
    <2>2. CASE i = n + 1
      BY <1>1, <1>4, <2>1, <2>2
    <2>3. CASE i # n + 1
      <3>1. i \in 2 .. n /\ i \in 1 .. n
        BY <1>1, <2>3
      <3>2. q[i].entry <= s[i] /\ q[i].entry \in Nat
        BY <3>1, BlockFields DEF StopsInTime
      <3>3. t[i] = s[i] + b.length /\ s[i] \in Nat
        BY <1>4, <2>1
      <3> QED
        BY <1>1, <1>2, <3>1, <3>2, <3>3
    <2> QED
      BY <2>2, <2>3
  <1>8. s[1] \in Nat /\ t[1] \in Nat /\ s[1] <= t[1]
    <2>1. 1 \in 1 .. n + 1
      BY <1>1
    <2>2. t[1] = s[1] + b.length /\ s[1] \in Nat
      BY <1>4, <2>1
    <2> QED
      BY <1>2, <2>2
  <1>9. StopsInTime(w, t)
    BY <1>1, <1>6, <1>7 DEF StopsInTime
  <1> QED
    BY <1>8, <1>9 DEF w

\* The speed after a cell can still be taken away before the end of the plan.
LEMMA NextSpeedRuns ==
  ASSUME pn_hold \in BOOLEAN, pn_speed \in Nat, pn_exit \in Nat,
         NEW l \in Nat \ {0}, l = pn_queue[1].length,
         NEW top \in Nat \ {0}, top = NominalSpeed(pn_queue[1], pn_override),
         NEW left \in Nat, pn_speed <= left, pn_exit <= left - l,
         pn_hold => pn_speed > 0,
         ~pn_hold => pn_exit <= pn_speed + l /\ pn_exit <= top
  PROVE  /\ NextSpeed \in Nat /\ NextSpeed <= pn_speed + 1 /\ NextSpeed <= left - 1
         /\ ~pn_hold => pn_exit <= NextSpeed + l - 1
  <1> DEFINE s == pn_speed
             x == pn_exit
             v == NextSpeed
  <1>1. s \in Nat /\ x \in Nat /\ s <= left /\ x <= left - l
    OBVIOUS
  <1>2. v = IF pn_hold THEN s - 1
            ELSE IF s > top /\ (l > 1 \/ DecelOnly) THEN s - 1
            ELSE IF l = 1 THEN x
            ELSE IF s - x >= l THEN s - 1
            ELSE PnMin(PnMin(s + 1, top), x + l - 1)
    BY DEF NextSpeed
  <1>3. DecelOnly <=> s > top /\ s - top >= l
    BY DEF DecelOnly
  <1>4. (pn_hold => s > 0) /\ (~pn_hold => x <= s + l /\ x <= top)
    OBVIOUS
  <1> HIDE DEF s, x, v
  <1>5. CASE pn_hold
    <2>1. v = s - 1 /\ s > 0
      BY <1>2, <1>4, <1>5
    <2>2. v \in Nat /\ v <= s + 1 /\ v <= left - 1
      BY <1>1, <2>1
    <2> QED
      BY <1>5, <2>2 DEF s, x, v
  <1>6. CASE ~pn_hold
    <2>1. x <= s + l /\ x <= top
      BY <1>4, <1>6
    <2>2. CASE s > top
      <3>1. v = s - 1
        <4>1. l = 1 => DecelOnly
          BY <1>1, <1>3, <2>2
        <4>2. l > 1 \/ DecelOnly
          BY <4>1
        <4> QED
          BY <1>2, <1>6, <2>2, <4>2
      <3>2. v \in Nat /\ v <= s + 1 /\ v <= left - 1 /\ x <= v + l - 1
        BY <1>1, <2>1, <2>2, <3>1
      <3> QED
        BY <1>6, <3>2 DEF s, x, v
    <2>3. CASE ~(s > top) /\ l = 1
      <3>1. v = x
        BY <1>2, <1>6, <2>3
      <3>2. v \in Nat /\ v <= s + 1 /\ v <= left - 1 /\ x <= v + l - 1
        BY <1>1, <2>1, <2>3, <3>1
      <3> QED
        BY <1>6, <3>2 DEF s, x, v
    <2>4. CASE ~(s > top) /\ l # 1 /\ s - x >= l
      <3>1. v = s - 1
        BY <1>2, <1>6, <2>4
      <3>2. v \in Nat /\ v <= s + 1 /\ v <= left - 1 /\ x <= v + l - 1
        BY <1>1, <2>1, <2>4, <3>1
      <3> QED
        BY <1>6, <3>2 DEF s, x, v
    <2>5. CASE ~(s > top) /\ l # 1 /\ ~(s - x >= l)
      <3>1. v = PnMin(PnMin(s + 1, top), x + l - 1)
        BY <1>2, <1>6, <2>5
      <3>2. v \in Nat /\ v <= s + 1 /\ v <= x + l - 1 /\ v \in {s + 1, top, x + l - 1}
        BY <1>1, <2>1, <3>1 DEF PnMin
      <3>3. v <= left - 1
        BY <1>1, <3>2
      <3>4. x <= v + l - 1
        BY <1>1, <2>1, <2>5, <3>2
      <3> QED
        BY <1>6, <3>2, <3>3, <3>4 DEF s, x, v
    <2> QED
      BY <2>2, <2>3, <2>4, <2>5
  <1> QED
    BY <1>5, <1>6

\* What it says of the types.
LEMMA RunsMean ==
  ASSUME PlanRuns
  PROVE  /\ pn_queue \in Seq(Block) /\ Len(pn_queue) \in Nat /\ (pn_queue = <<>> <=> Len(pn_queue) = 0)
         /\ pn_planned \in Nat \ {0}
         /\ (pn_queue # <<>> => pn_planned \in 1 .. Len(pn_queue) /\ Now \in Nat /\ 1 \in 1 .. Len(pn_queue))
         /\ (pn_queue = <<>> => ~pn_loaded)
         /\ pn_speed \in Nat /\ pn_exit \in Nat /\ pn_previous \in Nat /\ pn_override \in Overrides
         /\ MaximaAreCurrent(pn_queue, pn_override) /\ BelowMaxima(pn_queue)
         /\ pn_loaded \in BOOLEAN /\ pn_hold \in BOOLEAN /\ pn_decel \in BOOLEAN /\ pn_lowered \in BOOLEAN
  <1>1. /\ pn_queue \in Seq(Block) /\ pn_planned \in Nat \ {0} /\ (pn_queue = <<>> \/ pn_planned <= Len(pn_queue))
        /\ pn_speed \in Nat /\ pn_exit \in Nat /\ pn_previous \in Nat /\ pn_override \in Overrides
    BY DEF PlanRuns, PnTypeOK
  <1>2. Len(pn_queue) \in Nat /\ (pn_queue = <<>> <=> Len(pn_queue) = 0)
    BY <1>1
  <1>3. pn_queue # <<>> => 1 \in 1 .. Len(pn_queue)
    BY <1>2
  <1>4. pn_queue # <<>> => Now \in Nat
    BY <1>1, <1>3, BlockFields DEF Now
  <1>5. /\ pn_queue = <<>> => ~pn_loaded
        /\ pn_loaded \in BOOLEAN /\ pn_hold \in BOOLEAN /\ pn_decel \in BOOLEAN /\ pn_lowered \in BOOLEAN
        /\ MaximaAreCurrent(pn_queue, pn_override) /\ BelowMaxima(pn_queue)
    BY DEF PlanRuns, PnTypeOK
  <1> QED
    BY <1>1, <1>2, <1>3, <1>4, <1>5

\* It holds in the beginning.
LEMMA PlanStartsRunning == PnInit => PlanRuns
  <1> SUFFICES ASSUME PnInit PROVE PlanRuns
    OBVIOUS
  <1>1. PnTypeOK
    BY PlanStartsSound DEF PlanSound, PlanKept
  <1>2. Len(pn_queue) = 0 /\ 2 .. Len(pn_queue) = {} /\ pn_queue = <<>> /\ pn_speed = 0
    BY DEF PnInit
  <1> DEFINE s == [i \in 1 .. 1 |-> 0]
  <1>3. StopsInTime(pn_queue, s) /\ pn_speed <= s[1]
    <2>1. s \in [1 .. 1 -> Nat] /\ s[1] = 0 /\ 0 + 1 = 1 /\ 1 .. 0 = {}
      OBVIOUS
    <2> QED
      BY <1>2, <2>1 DEF StopsInTime, CellsLeft
  <1>4. MaximaAreCurrent(pn_queue, pn_override) /\ BelowMaxima(pn_queue) /\ Reached(pn_queue, Now)
    BY <1>2 DEF MaximaAreCurrent, BelowMaxima, Reached
  <1> HIDE DEF s
  <1> QED
    BY <1>1, <1>2, <1>3, <1>4 DEF PlanRuns, PnInit

\* plan_buffer_line keeps it.
LEMMA BufferLineRuns ==
  ASSUME PlanRuns, NEW l \in Lines, BufferLine(l)
  PROVE  PlanRuns'
  <1> DEFINE n == Len(pn_queue)
             nominal == Nominal[l.rate][pn_override]
             b == LineBlock(l)
             q == Append(pn_queue, b)
             made == Recalculated(q, IF pn_queue = <<>> THEN 1 ELSE pn_planned)
  <1>1. /\ pn_queue' = made.queue /\ pn_planned' = made.planned /\ pn_previous' = nominal
        /\ pn_exit' = IF made.updated THEN made.queue[2].entry ELSE pn_exit
        /\ pn_override' = pn_override /\ pn_loaded' = pn_loaded /\ pn_speed' = pn_speed
        /\ pn_decel' = pn_decel /\ pn_hold' = pn_hold /\ pn_jump' = pn_jump /\ pn_lowered' = pn_lowered
    BY DEF BufferLine, Planned, LineBlock
  <1>2. /\ b \in Block /\ b.entry = 0 /\ nominal \in Nat /\ NominalSpeed(b, pn_override) = nominal
        /\ b.length \in Nat /\ MaximaAreCurrent(Append(pn_queue, b), pn_override)
    <2>1. pn_queue \in Seq(Block) /\ pn_previous \in Nat /\ pn_override \in Overrides
          /\ MaximaAreCurrent(pn_queue, pn_override)
      BY RunsMean
    <2>2. pn_queue # <<>> => pn_previous = NominalSpeed(pn_queue[Len(pn_queue)], pn_override)
      BY DEF PlanRuns
    <2> QED
      BY <2>1, <2>2, LineBlockIs
  <1> HIDE DEF b
  <1>3. /\ pn_queue \in Seq(Block) /\ n \in Nat /\ pn_speed \in Nat /\ pn_exit \in Nat
        /\ pn_override \in Overrides /\ pn_planned \in Nat \ {0}
        /\ (n # 0 => /\ pn_queue # <<>> /\ pn_planned \in 1 .. n /\ Now \in Nat /\ 1 \in 1 .. n /\ n \in 1 .. n)
        /\ (n = 0 => pn_queue = <<>> /\ ~pn_loaded)
    BY RunsMean
  <1>4. /\ pn_loaded \in BOOLEAN /\ pn_hold \in BOOLEAN /\ pn_decel \in BOOLEAN /\ pn_lowered \in BOOLEAN
    BY RunsMean
  <1>5. PICK s : /\ StopsInTime(pn_queue, s) /\ pn_speed <= s[1] /\ (pn_queue # <<>> => Now <= s[1])
    BY DEF PlanRuns
  <1>6. PICK t : StopsInTime(q, t) /\ s[1] \in Nat /\ t[1] \in Nat /\ s[1] <= t[1]
    BY <1>2, <1>3, <1>5, AppendedRuns
  <1>7. pn_speed <= t[1] /\ (pn_queue # <<>> => Now <= t[1])
    BY <1>3, <1>5, <1>6
  <1>8. pn_jump' \in Int /\ pn_jump' <= 1
    BY <1>1 DEF PlanRuns
  <1>9. q \in Seq(Block) /\ Len(q) = n + 1 /\ q[n + 1] = b /\ (\A i \in 1 .. n : q[i] = pn_queue[i])
    BY <1>2, <1>3
  <1> HIDE DEF q
  <1>10. CASE n = 0
    <2>1. made.queue = q /\ made.planned = 1 /\ made.updated = FALSE
      BY <1>3, <1>9, <1>10 DEF Recalculated
    <2> HIDE DEF made, nominal
    <2>2. /\ pn_queue' = q /\ pn_planned' = 1 /\ pn_exit' = pn_exit /\ q # <<>> /\ Len(q) = 1 /\ q[1] = b
      BY <1>1, <1>9, <1>10, <2>1
    <2>3. Now' = 0 /\ ~pn_loaded /\ pn_exit = pn_speed
      BY <1>1, <1>2, <1>3, <1>10, <2>2 DEF Now, PlanRuns
    <2>4. PnTypeOK'
      <3>1. pn_planned' \in Nat \ {0} /\ pn_planned' <= Len(pn_queue')
        BY <2>2
      <3> QED
        BY <1>1, <1>2, <1>3, <1>4, <1>9, <2>2, <3>1, Zenon DEF PnTypeOK
    <2>5. 2 .. Len(q) = {}
      BY <2>2
    <2>6. MaximaAreCurrent(pn_queue', pn_override') /\ BelowMaxima(pn_queue') /\ Reached(pn_queue', Now')
      BY <2>2, <2>5 DEF MaximaAreCurrent, BelowMaxima, Reached
    <2>7. StopsInTime(pn_queue', t) /\ pn_speed' <= t[1] /\ Now' <= t[1]
      BY <1>1, <1>6, <1>7, <2>2, <2>3
    <2>8. pn_previous' = NominalSpeed(pn_queue'[Len(pn_queue')], pn_override')
      BY <1>1, <1>2, <2>2
    <2>9. ~pn_loaded' /\ pn_exit' = pn_speed' /\ Now' <= pn_speed'
      BY <1>1, <1>3, <2>2, <2>3
    <2> QED
      BY <1>8, <2>4, <2>6, <2>7, <2>8, <2>9 DEF PlanRuns
  <1>11. CASE n # 0
    <2> DEFINE made2 == Recalculated(q, pn_planned)
    <2>1. made = made2
      BY <1>3, <1>11
    <2>2. /\ pn_planned \in 1 .. Len(q) /\ pn_planned < Len(q) /\ pn_planned \in Nat /\ pn_planned \in 1 .. n
          /\ Now \in Nat /\ pn_queue # <<>> /\ 1 \in 1 .. n
      BY <1>3, <1>9, <1>11
    <2>3. Now = IF pn_loaded THEN pn_speed ELSE q[1].entry
      BY <1>9, <2>2 DEF Now
    <2>4. \A i \in 2 .. pn_planned : i \in 2 .. n /\ i \in 1 .. n /\ i - 1 \in 1 .. n
      BY <2>2
    <2>5. \A i \in 2 .. pn_planned : q[i].entry <= q[i].max
      <3>1. BelowMaxima(pn_queue)
        BY RunsMean
      <3> QED
        BY <1>9, <2>4, <3>1 DEF BelowMaxima
    <2>6. ~pn_hold => \A i \in 2 .. pn_planned : q[i].entry <= EntryAt(q, Now, i - 1) + q[i - 1].length
      <3> SUFFICES ASSUME ~pn_hold, NEW i \in 2 .. pn_planned
                   PROVE  q[i].entry <= EntryAt(q, Now, i - 1) + q[i - 1].length
        OBVIOUS
      <3>1. q[i] = pn_queue[i] /\ q[i - 1] = pn_queue[i - 1] /\ i - 1 <= n /\ i - 1 <= n + 1
        BY <1>3, <1>9, <2>4
      <3>2. EntryAt(q, Now, i - 1) = EntryAt(pn_queue, Now, i - 1)
        BY <1>9, <3>1 DEF EntryAt
      <3>3. Reached(pn_queue, Now)
        BY DEF PlanRuns
      <3> QED
        BY <2>4, <3>1, <3>2, <3>3 DEF Reached
    <2>7. /\ SameBlocks(q, made2.queue) /\ made2.planned \in 1 .. Len(q)
          /\ made2.updated = (pn_planned = 1 /\ pn_loaded)
          /\ BelowMaxima(made2.queue) /\ StopsInTime(made2.queue, t)
          /\ (\A i \in 2 .. pn_planned : q[i].entry <= EntryAt(q, Now, i - 1) + q[i - 1].length)
               => Reached(made2.queue, Now)
          /\ ~pn_loaded => made2.queue[1].entry = q[1].entry
          /\ pn_planned # 1 => made2.queue[2].entry = q[2].entry
      BY <1>3, <1>6, <1>9, <2>2, <2>3, <2>5, RecalculatedRuns
    <2> HIDE DEF made, made2
    <2>8. /\ SameBlocks(q, pn_queue') /\ pn_planned' \in 1 .. n + 1
          /\ made.updated = (pn_planned = 1 /\ pn_loaded)
          /\ BelowMaxima(pn_queue') /\ StopsInTime(pn_queue', t)
          /\ (~pn_hold => Reached(pn_queue', Now))
          /\ (~pn_loaded => pn_queue'[1].entry = q[1].entry)
          /\ (pn_planned # 1 => pn_queue'[2].entry = q[2].entry)
      BY <1>1, <1>9, <2>1, <2>6, <2>7
    <2>9. pn_queue' \in Seq(Block) /\ Len(pn_queue') = n + 1 /\ pn_queue' # <<>>
      <3>1. pn_queue' \in Seq(Block) /\ Len(pn_queue') = n + 1
        BY <1>9, <2>8 DEF SameBlocks
      <3> QED
        BY <1>3, <3>1
    <2>10. Now' = Now
      BY <1>1, <2>3, <2>8 DEF Now
    <2>11. n + 1 \in 1 .. n + 1 /\ 2 \in 1 .. n + 1 /\ ~(n + 1 < 2)
      BY <1>3, <1>11
    <2>12. pn_exit' = (IF made.updated THEN pn_queue'[2].entry ELSE pn_exit) /\ pn_exit' \in Nat
      <3>1. pn_queue'[2].entry \in Nat
        BY <2>9, <2>11, BlockFields
      <3> QED
        BY <1>1, <1>3, <3>1
    <2>13. PnTypeOK'
      <3>1. pn_planned' \in Nat \ {0} /\ pn_planned' <= Len(pn_queue')
        BY <1>3, <2>8, <2>9
      <3> HIDE DEF nominal
      <3> QED
        BY <1>1, <1>2, <1>3, <1>4, <2>9, <2>12, <3>1, Zenon DEF PnTypeOK
    <2>14. /\ MaximaAreCurrent(pn_queue', pn_override')
           /\ \A i \in 1 .. n + 1 : NominalSpeed(pn_queue'[i], pn_override) = NominalSpeed(q[i], pn_override)
      <3>1. MaximaAreCurrent(q, pn_override)
        BY <1>2 DEF q
      <3> QED
        BY <1>1, <1>9, <2>8, <3>1, SameMaxima
    <2> HIDE DEF nominal
    <2>15. pn_previous' = NominalSpeed(pn_queue'[Len(pn_queue')], pn_override')
      BY <1>1, <1>2, <1>9, <2>9, <2>11, <2>14
    <2>16. pn_loaded => pn_exit' = ExitOf(pn_queue')
      <3> SUFFICES ASSUME pn_loaded PROVE pn_exit' = ExitOf(pn_queue')
        OBVIOUS
      <3>1. ExitOf(pn_queue') = pn_queue'[2].entry
        BY <2>9, <2>11 DEF ExitOf
      <3>2. CASE pn_planned = 1
        BY <2>8, <2>12, <3>1, <3>2
      <3>3. CASE pn_planned # 1
        <4>1. 2 \in 1 .. n /\ ~(n < 2)
          BY <1>3, <1>11, <3>3
        <4>2. ExitOf(pn_queue) = pn_queue[2].entry
          BY <4>1 DEF ExitOf
        <4>3. pn_exit = ExitOf(pn_queue)
          BY DEF PlanRuns
        <4> QED
          BY <1>9, <2>8, <2>12, <3>1, <3>3, <4>1, <4>2, <4>3
      <3> QED
        BY <3>2, <3>3
    <2>17. ~pn_loaded => pn_exit' = pn_exit /\ pn_exit = pn_speed /\ (~pn_hold => Now <= pn_speed)
      BY <2>2, <2>8, <2>12 DEF PlanRuns
    <2>18. StopsInTime(pn_queue', t) /\ pn_speed' <= t[1] /\ Now' <= t[1]
      BY <1>1, <1>7, <2>2, <2>8, <2>10
    <2>19. ~pn_hold' => Reached(pn_queue', Now')
      BY <1>1, <2>8, <2>10
    <2>20. /\ pn_loaded' => pn_queue' # <<>> /\ pn_exit' = ExitOf(pn_queue')
           /\ ~pn_loaded' => pn_exit' = pn_speed' /\ (pn_queue' # <<>> /\ ~pn_hold' => Now' <= pn_speed')
      BY <1>1, <2>9, <2>10, <2>16, <2>17
    <2> QED
      BY <1>8, <2>8, <2>13, <2>14, <2>15, <2>18, <2>19, <2>20 DEF PlanRuns
  <1> QED
    BY <1>10, <1>11

\* So does any override.
LEMMA ChangeOverrideRuns ==
  ASSUME PlanRuns, NEW f \in Overrides, ChangeOverride(f)
  PROVE  PlanRuns'
  <1> DEFINE n == Len(pn_queue)
             q == WithMaxima(pn_queue, f)
  <1>1. PICK made \in Reinitialized(q) :
           /\ pn_queue' = made.queue /\ pn_planned' = made.planned
           /\ pn_exit' = IF pn_loaded THEN ExitOf(made.queue) ELSE pn_exit
           /\ pn_previous' = IF pn_queue = <<>> THEN SOME_LARGE_VALUE ELSE NominalSpeed(pn_queue[n], f)
           /\ pn_override' = f
           /\ pn_loaded' = pn_loaded /\ pn_speed' = pn_speed /\ pn_hold' = pn_hold /\ pn_jump' = pn_jump
    BY DEF ChangeOverride, Planned
  <1>2. pn_decel' = (pn_decel /\ ~pn_loaded) /\ pn_lowered' = (pn_lowered \/ Slows(f))
    BY DEF ChangeOverride
  <1>3. /\ pn_queue \in Seq(Block) /\ n \in Nat /\ pn_speed \in Nat /\ pn_exit \in Nat
        /\ (n # 0 => pn_queue # <<>> /\ Now \in Nat /\ 1 \in 1 .. n /\ n \in 1 .. n)
        /\ (n = 0 => pn_queue = <<>> /\ ~pn_loaded)
    BY RunsMean
  <1>4. /\ pn_loaded' \in BOOLEAN /\ pn_hold' \in BOOLEAN /\ pn_decel' \in BOOLEAN /\ pn_lowered' \in BOOLEAN
    BY <1>1, <1>2, RunsMean
  <1>5. PICK s : /\ StopsInTime(pn_queue, s) /\ pn_speed <= s[1] /\ (pn_queue # <<>> => Now <= s[1])
    BY DEF PlanRuns
  <1>6. pn_jump' \in Int /\ pn_jump' <= 1
    BY <1>1 DEF PlanRuns
  <1>7. /\ q \in Seq(Block) /\ Len(q) = n /\ MaximaAreCurrent(q, f)
        /\ \A i \in 1 .. n : /\ q[i].entry = pn_queue[i].entry /\ q[i].length = pn_queue[i].length
                             /\ q[i].rate = pn_queue[i].rate
    BY <1>3, MaximaOfOverride
  <1> HIDE DEF q
  <1>8. StopsInTime(q, s)
    <2>1. \A i \in 2 .. n : i \in 1 .. n
      BY <1>3
    <2> QED
      BY <1>5, <1>7, <2>1 DEF StopsInTime, CellsLeft
  <1>9. CASE n = 0
    <2>1. pn_queue = <<>> /\ q = <<>> /\ ~pn_loaded
      BY <1>3, <1>7, <1>9
    <2>2. made.queue = <<>> /\ made.planned \in Nat \ {0}
      BY <2>1, EmptyReinitialized
    <2>3. s[1] = 0
      BY <1>3, <1>5, <1>9 DEF StopsInTime, CellsLeft
    <2>4. pn_speed = 0 /\ pn_exit = pn_speed
      BY <1>3, <1>5, <2>1, <2>3 DEF PlanRuns
    <2>5. /\ pn_queue' = <<>> /\ pn_planned' \in Nat \ {0} /\ pn_exit' = 0 /\ pn_previous' \in Nat
          /\ pn_queue' \in Seq(Block) /\ pn_speed' = 0 /\ ~pn_loaded' /\ pn_override' \in Overrides
          /\ pn_exit' \in Nat /\ pn_speed' \in Nat
      BY <1>1, <2>1, <2>2, <2>4 DEF SOME_LARGE_VALUE
    <2>6. PnTypeOK'
      BY <1>4, <2>5, Zenon DEF PnTypeOK
    <2>7. 2 .. Len(pn_queue') = {}
      BY <2>5
    <2>8. MaximaAreCurrent(pn_queue', pn_override') /\ BelowMaxima(pn_queue') /\ Reached(pn_queue', Now')
      BY <2>7 DEF MaximaAreCurrent, BelowMaxima, Reached
    <2>9. StopsInTime(pn_queue', s) /\ pn_speed' <= s[1]
      BY <1>1, <1>5, <2>1, <2>5
    <2> QED
      BY <1>6, <2>5, <2>6, <2>8, <2>9 DEF PlanRuns
  <1>10. CASE n # 0
    <2>1. pn_queue # <<>> /\ Now \in Nat /\ n > 0 /\ 1 \in 1 .. n /\ n \in 1 .. n /\ q # <<>>
      BY <1>3, <1>7, <1>10
    <2>2. made = Recalculated(Updated(q), 1)
      BY <2>1 DEF Reinitialized
    <2>3. Now = IF pn_loaded THEN pn_speed ELSE q[1].entry
      BY <1>7, <2>1 DEF Now
    <2>4. /\ SameBlocks(q, made.queue) /\ made.planned \in 1 .. n
          /\ BelowMaxima(made.queue) /\ StopsInTime(made.queue, s) /\ Reached(made.queue, Now)
          /\ ~pn_loaded => made.queue[1].entry = q[1].entry
      BY <1>3, <1>7, <1>8, <2>1, <2>2, <2>3, ReinitializedRuns
    <2>5. pn_queue' \in Seq(Block) /\ Len(pn_queue') = n /\ pn_queue' # <<>>
      <3>1. made.queue \in Seq(Block) /\ Len(made.queue) = n
        BY <1>7, <2>4 DEF SameBlocks
      <3> QED
        BY <1>1, <2>1, <3>1
    <2>6. Now' = Now
      BY <1>1, <2>3, <2>4 DEF Now
    <2>7. pn_exit' \in Nat
      <3>1. made.queue \in Seq(Block)
        BY <1>1, <2>5
      <3>2. ExitOf(made.queue) \in Nat
        BY <3>1, ExitIs
      <3> QED
        BY <1>1, <1>3, <3>2
    <2>8. pn_previous' = NominalSpeed(pn_queue[n], f) /\ pn_previous' \in Nat
      BY <1>1, <1>3, <2>1, BlockFields, NominalIs
    <2>9. PnTypeOK'
      <3>1. pn_planned' \in Nat \ {0} /\ pn_planned' <= Len(pn_queue')
        BY <1>1, <1>3, <2>4, <2>5
      <3>2. pn_speed' \in Nat /\ pn_override' \in Overrides
        BY <1>1, <1>3
      <3> QED
        BY <1>4, <2>5, <2>7, <2>8, <3>1, <3>2, Zenon DEF PnTypeOK
    <2>10. /\ MaximaAreCurrent(pn_queue', f)
           /\ \A i \in 1 .. n : NominalSpeed(pn_queue'[i], f) = NominalSpeed(q[i], f)
      BY <1>1, <1>7, <2>4, SameMaxima
    <2>11. pn_previous' = NominalSpeed(pn_queue'[Len(pn_queue')], pn_override')
      <3>1. NominalSpeed(q[n], f) = NominalSpeed(pn_queue[n], f)
        BY <1>7, <2>1 DEF NominalSpeed
      <3> QED
        BY <1>1, <2>1, <2>5, <2>8, <2>10, <3>1
    <2>12. StopsInTime(pn_queue', s) /\ pn_speed' <= s[1] /\ Now' <= s[1]
      BY <1>1, <1>5, <2>1, <2>4, <2>6
    <2>13. BelowMaxima(pn_queue') /\ Reached(pn_queue', Now') /\ MaximaAreCurrent(pn_queue', pn_override')
      BY <1>1, <2>4, <2>6, <2>10
    <2>14. /\ pn_loaded' => pn_queue' # <<>> /\ pn_exit' = ExitOf(pn_queue')
           /\ ~pn_loaded' => pn_exit' = pn_speed' /\ (pn_queue' # <<>> /\ ~pn_hold' => Now' <= pn_speed')
      <3>1. ~pn_loaded => pn_exit = pn_speed /\ (~pn_hold => Now <= pn_speed)
        BY <2>1 DEF PlanRuns
      <3> QED
        BY <1>1, <2>5, <2>6, <3>1
    <2> QED
      BY <1>6, <2>9, <2>11, <2>12, <2>13, <2>14 DEF PlanRuns
  <1> QED
    BY <1>9, <1>10

\* So does the end of a hold.
LEMMA HoldEndsRuns ==
  ASSUME PlanRuns, HoldEnds
  PROVE  PlanRuns'
  <1> DEFINE n == Len(pn_queue)
  <1>1. PICK made \in Reinitialized(pn_queue) :
           /\ pn_queue' = made.queue /\ pn_planned' = made.planned
           /\ pn_exit' = IF pn_loaded THEN ExitOf(made.queue) ELSE pn_exit
           /\ pn_previous' = pn_previous /\ pn_override' = pn_override
           /\ pn_loaded' = pn_loaded /\ pn_speed' = pn_speed /\ pn_jump' = pn_jump
    BY DEF HoldEnds, Planned
  <1>2. /\ pn_decel' = (pn_decel /\ ~pn_loaded) /\ pn_hold' = FALSE /\ pn_lowered' = pn_lowered
        /\ (pn_loaded \/ pn_queue = <<>>)
    BY DEF HoldEnds
  <1>3. /\ pn_queue \in Seq(Block) /\ n \in Nat /\ pn_speed \in Nat /\ pn_exit \in Nat
        /\ pn_previous \in Nat /\ pn_override \in Overrides /\ MaximaAreCurrent(pn_queue, pn_override)
        /\ (n # 0 => pn_queue # <<>> /\ Now \in Nat /\ 1 \in 1 .. n /\ n \in 1 .. n)
        /\ (n = 0 => pn_queue = <<>> /\ ~pn_loaded)
    BY RunsMean
  <1>4. /\ pn_loaded' \in BOOLEAN /\ pn_hold' \in BOOLEAN /\ pn_decel' \in BOOLEAN /\ pn_lowered' \in BOOLEAN
    BY <1>1, <1>2, RunsMean
  <1>5. PICK s : /\ StopsInTime(pn_queue, s) /\ pn_speed <= s[1] /\ (pn_queue # <<>> => Now <= s[1])
    BY DEF PlanRuns
  <1>6. pn_jump' \in Int /\ pn_jump' <= 1
    BY <1>1 DEF PlanRuns
  <1>7. CASE n = 0
    <2>1. pn_queue = <<>> /\ ~pn_loaded
      BY <1>3, <1>7
    <2>2. made.queue = <<>> /\ made.planned \in Nat \ {0}
      BY <2>1, EmptyReinitialized
    <2>3. s[1] = 0
      BY <1>3, <1>5, <1>7 DEF StopsInTime, CellsLeft
    <2>4. pn_speed = 0 /\ pn_exit = pn_speed
      BY <1>3, <1>5, <2>1, <2>3 DEF PlanRuns
    <2>5. /\ pn_queue' = <<>> /\ pn_planned' \in Nat \ {0} /\ pn_exit' = 0 /\ pn_previous' \in Nat
          /\ pn_queue' \in Seq(Block) /\ pn_speed' = 0 /\ ~pn_loaded' /\ pn_override' \in Overrides
          /\ pn_exit' \in Nat /\ pn_speed' \in Nat
      BY <1>1, <1>3, <2>1, <2>2, <2>4
    <2>6. PnTypeOK'
      BY <1>4, <2>5, Zenon DEF PnTypeOK
    <2>7. 2 .. Len(pn_queue') = {}
      BY <2>5
    <2>8. MaximaAreCurrent(pn_queue', pn_override') /\ BelowMaxima(pn_queue') /\ Reached(pn_queue', Now')
      BY <2>7 DEF MaximaAreCurrent, BelowMaxima, Reached
    <2>9. StopsInTime(pn_queue', s) /\ pn_speed' <= s[1]
      BY <1>1, <1>5, <2>1, <2>5
    <2> QED
      BY <1>6, <2>5, <2>6, <2>8, <2>9 DEF PlanRuns
  <1>8. CASE n # 0
    <2>1. pn_queue # <<>> /\ Now \in Nat /\ n > 0 /\ 1 \in 1 .. n /\ n \in 1 .. n /\ pn_loaded
      BY <1>2, <1>3, <1>8
    <2>2. made = Recalculated(Updated(pn_queue), 1)
      BY <2>1 DEF Reinitialized
    <2>3. Now = IF pn_loaded THEN pn_speed ELSE pn_queue[1].entry
      BY DEF Now
    <2>4. /\ SameBlocks(pn_queue, made.queue) /\ made.planned \in 1 .. n
          /\ BelowMaxima(made.queue) /\ StopsInTime(made.queue, s) /\ Reached(made.queue, Now)
      BY <1>3, <1>5, <2>1, <2>2, <2>3, ReinitializedRuns
    <2>5. pn_queue' \in Seq(Block) /\ Len(pn_queue') = n /\ pn_queue' # <<>>
      <3>1. made.queue \in Seq(Block) /\ Len(made.queue) = n
        BY <2>4 DEF SameBlocks
      <3> QED
        BY <1>1, <2>1, <3>1
    <2>6. Now' = Now
      BY <1>1, <2>1 DEF Now
    <2>7. pn_exit' \in Nat /\ pn_exit' = ExitOf(pn_queue')
      <3>1. ExitOf(pn_queue') \in Nat
        BY <2>5, ExitIs
      <3> QED
        BY <1>1, <2>1, <3>1
    <2>8. PnTypeOK'
      <3>1. pn_planned' \in Nat \ {0} /\ pn_planned' <= Len(pn_queue')
        BY <1>1, <1>3, <2>4, <2>5
      <3>2. pn_speed' \in Nat /\ pn_override' \in Overrides /\ pn_previous' \in Nat
        BY <1>1, <1>3
      <3> QED
        BY <1>4, <2>5, <2>7, <3>1, <3>2, Zenon DEF PnTypeOK
    <2>9. /\ MaximaAreCurrent(pn_queue', pn_override')
          /\ \A i \in 1 .. n : NominalSpeed(pn_queue'[i], pn_override) = NominalSpeed(pn_queue[i], pn_override)
      BY <1>1, <1>3, <2>4, SameMaxima
    <2>10. pn_previous' = NominalSpeed(pn_queue'[Len(pn_queue')], pn_override')
      <3>1. pn_previous = NominalSpeed(pn_queue[n], pn_override)
        BY <2>1 DEF PlanRuns
      <3> QED
        BY <1>1, <2>1, <2>5, <2>9, <3>1
    <2>11. StopsInTime(pn_queue', s) /\ pn_speed' <= s[1] /\ Now' <= s[1]
      BY <1>1, <1>5, <2>1, <2>4, <2>6
    <2>12. BelowMaxima(pn_queue') /\ Reached(pn_queue', Now') /\ pn_loaded'
      BY <1>1, <2>1, <2>4, <2>6
    <2> QED
      BY <1>6, <2>5, <2>7, <2>8, <2>9, <2>10, <2>11, <2>12 DEF PlanRuns
  <1> QED
    BY <1>7, <1>8

\* So does the start of a hold.
LEMMA StartHoldRuns ==
  ASSUME PlanRuns, StartHold
  PROVE  PlanRuns'
  <1> DEFINE n == Len(pn_queue)
             q == Updated(pn_queue)
  <1>1. /\ pn_queue' = q /\ pn_planned' = pn_planned /\ pn_exit' = pn_exit
        /\ pn_previous' = pn_previous /\ pn_decel' = pn_decel /\ pn_override' = pn_override
        /\ pn_loaded' = pn_loaded /\ pn_speed' = pn_speed /\ pn_hold' = TRUE /\ pn_jump' = pn_jump
        /\ pn_lowered' = pn_lowered
    BY DEF StartHold
  <1>2. /\ pn_queue \in Seq(Block) /\ n \in Nat /\ pn_speed \in Nat /\ pn_override \in Overrides
        /\ MaximaAreCurrent(pn_queue, pn_override) /\ BelowMaxima(pn_queue)
        /\ (pn_loaded => pn_queue # <<>>) /\ (pn_queue # <<>> <=> n > 0)
    BY RunsMean DEF PlanRuns
  <1>3. PICK s : /\ StopsInTime(pn_queue, s) /\ pn_speed <= s[1] /\ (pn_queue # <<>> => Now <= s[1])
    BY DEF PlanRuns
  <1>4. /\ SameBlocks(pn_queue, q) /\ \A i \in 2 .. n : q[i] = pn_queue[i]
        /\ ~pn_loaded => q = pn_queue
    <2>1. CASE pn_loaded
      BY <1>2, <2>1, FirstEntryIs DEF Updated
    <2>2. CASE ~pn_loaded
      BY <1>2, <2>2 DEF Updated, SameBlocks
    <2> QED
      BY <2>1, <2>2
  <1> HIDE DEF q
  <1>5. q \in Seq(Block) /\ Len(q) = n /\ (q # <<>> <=> pn_queue # <<>>)
    BY <1>2, <1>4 DEF SameBlocks
  <1>6. BelowMaxima(q) /\ StopsInTime(q, s) /\ ExitOf(q) = ExitOf(pn_queue)
    BY <1>2, <1>3, <1>4, RunsAsBefore
  <1>7. Now' = Now
    BY <1>1, <1>4 DEF Now
  <1>8. PnTypeOK'
    <2>1. PnTypeOK
      BY DEF PlanRuns
    <2> QED
      BY <1>1, <1>5, <2>1 DEF PnTypeOK
  <1>9. /\ MaximaAreCurrent(q, pn_override)
        /\ \A i \in 1 .. n : NominalSpeed(q[i], pn_override) = NominalSpeed(pn_queue[i], pn_override)
    BY <1>2, <1>4, SameMaxima
  <1>10. q # <<>> => pn_previous = NominalSpeed(q[Len(q)], pn_override)
    <2> SUFFICES ASSUME q # <<>> PROVE pn_previous = NominalSpeed(q[n], pn_override)
      BY <1>5
    <2>1. pn_queue # <<>> /\ n \in 1 .. n
      BY <1>2, <1>5
    <2>2. pn_previous = NominalSpeed(pn_queue[n], pn_override)
      BY <2>1 DEF PlanRuns
    <2> QED
      BY <1>9, <2>1, <2>2
  <1>11. StopsInTime(pn_queue', s) /\ pn_speed' <= s[1] /\ (pn_queue' # <<>> => Now' <= s[1])
    BY <1>1, <1>3, <1>5, <1>6, <1>7
  <1>12. /\ pn_loaded' => pn_queue' # <<>> /\ pn_exit' = ExitOf(pn_queue')
         /\ ~pn_loaded' => pn_exit' = pn_speed'
         /\ pn_jump' \in Int /\ pn_jump' <= 1
    BY <1>1, <1>5, <1>6 DEF PlanRuns
  <1> QED
    BY <1>1, <1>6, <1>8, <1>9, <1>10, <1>11, <1>12 DEF PlanRuns

\* So does loading the next block, with whatever speed it is entered.
LEMMA LoadBlockRuns ==
  ASSUME PlanRuns, LoadBlock
  PROVE  PlanRuns'
  <1> DEFINE n == Len(pn_queue)
             v == IF pn_hold \/ pn_decel THEN pn_exit ELSE pn_queue[1].entry
             q == [pn_queue EXCEPT ![1].entry = v]
  <1>1. /\ pn_queue' = q /\ pn_planned' = pn_planned /\ pn_exit' = ExitOf(pn_queue)
        /\ pn_previous' = pn_previous /\ pn_decel' = FALSE /\ pn_override' = pn_override
        /\ pn_loaded' = TRUE /\ pn_speed' = v /\ pn_hold' = pn_hold /\ pn_jump' = v - pn_speed
        /\ ~pn_loaded /\ pn_queue # <<>> /\ pn_lowered' = pn_lowered
    BY DEF LoadBlock
  <1>2. /\ pn_queue \in Seq(Block) /\ n \in Nat /\ n > 0 /\ 1 \in 1 .. n /\ n \in 1 .. n /\ Now \in Nat
        /\ pn_speed \in Nat /\ pn_exit \in Nat /\ pn_previous \in Nat /\ pn_override \in Overrides
        /\ MaximaAreCurrent(pn_queue, pn_override) /\ BelowMaxima(pn_queue)
        /\ pn_planned \in Nat \ {0} /\ pn_planned <= n
    BY <1>1, RunsMean
  <1>3. pn_hold \in BOOLEAN /\ pn_lowered \in BOOLEAN
    BY RunsMean
  <1>4. PICK s : StopsInTime(pn_queue, s) /\ pn_speed <= s[1] /\ Now <= s[1]
    BY <1>1 DEF PlanRuns
  <1>5. Now = pn_queue[1].entry /\ pn_exit = pn_speed /\ (~pn_hold => Now <= pn_speed)
    BY <1>1 DEF Now, PlanRuns
  <1>6. v \in Nat /\ v <= s[1] /\ v <= pn_speed /\ (~pn_hold => Now <= v)
    BY <1>2, <1>4, <1>5
  <1> HIDE DEF v
  <1>7. SameBlocks(pn_queue, q) /\ q[1].entry = v /\ \A i \in 2 .. n : q[i] = pn_queue[i]
    BY <1>2, <1>6, FirstEntryIs
  <1> HIDE DEF q
  <1>8. q \in Seq(Block) /\ Len(q) = n /\ q # <<>>
    BY <1>2, <1>7 DEF SameBlocks
  <1>9. /\ BelowMaxima(q) /\ StopsInTime(q, s) /\ ExitOf(q) = ExitOf(pn_queue)
        /\ Reached(pn_queue, Now) /\ Now <= v => Reached(q, v)
    BY <1>2, <1>4, <1>6, <1>7, RunsAsBefore
  <1>10. Now' = v
    BY <1>1 DEF Now
  <1>11. PnTypeOK'
    <2>1. pn_planned' \in Nat \ {0} /\ pn_planned' <= Len(pn_queue')
      BY <1>1, <1>2, <1>8
    <2>2. ExitOf(pn_queue) \in Nat
      BY <1>2, ExitIs
    <2>3. pn_queue' \in Seq(Block) /\ pn_speed' \in Nat /\ pn_exit' \in Nat /\ pn_previous' \in Nat
          /\ pn_override' \in Overrides
      BY <1>1, <1>2, <1>6, <1>8, <2>2
    <2>4. pn_loaded' \in BOOLEAN /\ pn_hold' \in BOOLEAN /\ pn_decel' \in BOOLEAN
          /\ pn_lowered' \in BOOLEAN
      BY <1>1, <1>3
    <2> QED
      BY <2>1, <2>3, <2>4, Zenon DEF PnTypeOK
  <1>12. /\ MaximaAreCurrent(q, pn_override)
         /\ \A i \in 1 .. n : NominalSpeed(q[i], pn_override) = NominalSpeed(pn_queue[i], pn_override)
    BY <1>2, <1>7, SameMaxima
  <1>13. pn_previous = NominalSpeed(q[n], pn_override)
    <2>1. pn_previous = NominalSpeed(pn_queue[n], pn_override)
      BY <1>1 DEF PlanRuns
    <2> QED
      BY <1>2, <1>12, <2>1
  <1>14. ~pn_hold => Reached(q, v)
    BY <1>6, <1>9 DEF PlanRuns
  <1>15. pn_jump' \in Int /\ pn_jump' <= 1
    BY <1>1, <1>2, <1>6
  <1>16. StopsInTime(pn_queue', s) /\ pn_speed' <= s[1] /\ Now' <= s[1]
    BY <1>1, <1>6, <1>9, <1>10
  <1>17. BelowMaxima(pn_queue') /\ MaximaAreCurrent(pn_queue', pn_override')
         /\ (~pn_hold' => Reached(pn_queue', Now'))
         /\ pn_previous' = NominalSpeed(pn_queue'[Len(pn_queue')], pn_override')
    BY <1>1, <1>8, <1>9, <1>10, <1>12, <1>13, <1>14
  <1>18. pn_loaded' /\ pn_queue' # <<>> /\ pn_exit' = ExitOf(pn_queue')
    BY <1>1, <1>8, <1>9
  <1> QED
    BY <1>11, <1>15, <1>16, <1>17, <1>18 DEF PlanRuns

\* What holds while a block is executed.
LEMMA ExecutedRuns ==
  ASSUME PlanRuns, pn_loaded, pn_hold => pn_speed > 0, NEW s, StopsInTime(pn_queue, s), pn_speed <= s[1]
  PROVE  LET n == Len(pn_queue)
             l == pn_queue[1].length
         IN  /\ n \in Nat /\ n > 0 /\ 1 \in 1 .. n /\ n \in 1 .. n /\ pn_queue # <<>>
             /\ pn_queue \in Seq(Block) /\ l \in Nat \ {0} /\ Now = pn_speed /\ pn_speed \in Nat
             /\ pn_exit = ExitOf(pn_queue) /\ pn_exit \in Nat /\ pn_planned \in Nat \ {0} /\ pn_planned <= n
             /\ pn_previous \in Nat /\ pn_override \in Overrides
             /\ MaximaAreCurrent(pn_queue, pn_override) /\ BelowMaxima(pn_queue)
             /\ pn_previous = NominalSpeed(pn_queue[n], pn_override)
             /\ (n >= 2 => 2 \in 1 .. n /\ 2 \in 2 .. n /\ pn_exit = pn_queue[2].entry)
             /\ s[1] \in Nat /\ s[2] \in Nat /\ s[1] = s[2] + l /\ pn_exit <= s[2]
             /\ NextSpeed \in Nat /\ NextSpeed <= pn_speed + 1 /\ NextSpeed <= s[1] - 1
             /\ ~pn_hold => pn_exit <= NextSpeed + l - 1
  <1> DEFINE n == Len(pn_queue)
             l == pn_queue[1].length
             q == pn_queue
             top == NominalSpeed(pn_queue[1], pn_override)
  <1>1. q # <<>> /\ pn_exit = ExitOf(q) /\ Now = pn_speed
    BY DEF PlanRuns, Now
  <1>2. /\ n \in Nat /\ n > 0 /\ 1 \in 1 .. n /\ n \in 1 .. n
        /\ q \in Seq(Block) /\ pn_speed \in Nat /\ pn_exit \in Nat /\ pn_planned \in Nat \ {0} /\ pn_planned <= n
        /\ pn_previous \in Nat /\ pn_override \in Overrides
        /\ MaximaAreCurrent(q, pn_override) /\ BelowMaxima(q)
    BY <1>1, RunsMean
  <1>3. pn_hold \in BOOLEAN
    BY RunsMean
  <1>4. pn_previous = NominalSpeed(q[n], pn_override) /\ (~pn_hold => Reached(q, pn_speed))
    BY <1>1 DEF PlanRuns
  <1>5. l \in Nat \ {0} /\ top \in Nat \ {0}
    BY <1>2, BlockFields, NominalIs
  <1>6. (n < 2 => pn_exit = 0 /\ n = 1) /\ (n >= 2 => 2 \in 1 .. n /\ 2 \in 2 .. n /\ pn_exit = q[2].entry)
    <2>0. n \in Nat /\ n > 0
      BY <1>2
    <2>1. (n < 2 => n = 1) /\ (n >= 2 => 2 \in 1 .. n /\ 2 \in 2 .. n /\ ~(n < 2))
      <3> HIDE DEF n
      <3> QED
        BY <2>0
    <2>2. pn_exit = IF n < 2 THEN 0 ELSE q[2].entry
      BY <1>1 DEF ExitOf
    <2> QED
      BY <2>1, <2>2
  <1>7. s[1] \in Nat /\ s[2] \in Nat /\ s[1] = s[2] + l
    <2>1. 1 \in 1 .. n + 1 /\ 2 \in 1 .. n + 1 /\ 1 + 1 = 2
      BY <1>2
    <2>2. s \in [1 .. n + 1 -> Nat] /\ s[n + 1] = 0 /\ \A i \in 1 .. n : s[i] = s[i + 1] + q[i].length
      BY DEF StopsInTime, CellsLeft
    <2>3. s[1] = s[1 + 1] + q[1].length
      BY <1>2, <2>2
    <2>4. s[1] \in Nat /\ s[2] \in Nat
      BY <2>1, <2>2
    <2> QED
      BY <2>1, <2>3, <2>4
  <1>8. pn_exit <= s[2]
    BY <1>6, <1>7 DEF StopsInTime
  <1>9. pn_exit <= s[1] - l
    <2> HIDE DEF l
    <2> QED
      BY <1>2, <1>5, <1>7, <1>8
  <1>10. ~pn_hold => pn_exit <= pn_speed + l /\ pn_exit <= top
    <2> SUFFICES ASSUME ~pn_hold PROVE pn_exit <= pn_speed + l /\ pn_exit <= top
      OBVIOUS
    <2>1. CASE n < 2
      <3> HIDE DEF l, top
      <3> QED
        BY <1>2, <1>5, <1>6, <2>1
    <2>2. CASE n >= 2
      <3>1. EntryAt(q, pn_speed, 2 - 1) = pn_speed /\ 2 - 1 = 1
        BY DEF EntryAt
      <3>2. q[2].entry <= pn_speed + l
        BY <1>4, <1>6, <2>2, <3>1 DEF Reached
      <3> DEFINE m == MaxEntry(q[2].junction, NominalSpeed(q[2], pn_override), top)
      <3>3. q[2].max = m /\ q[2].entry <= q[2].max
        BY <1>2, <1>6, <2>2, <3>1 DEF MaximaAreCurrent, BelowMaxima
      <3>4. q[2].entry \in Nat /\ q[2].junction \in Nat /\ NominalSpeed(q[2], pn_override) \in Nat
        BY <1>2, <1>6, <2>2, BlockFields, NominalIs
      <3>5. m \in Nat /\ m <= top
        BY <1>5, <3>4, MaxEntryIs
      <3> HIDE DEF m, top, l
      <3>6. q[2].entry <= top
        BY <1>5, <3>3, <3>4, <3>5
      <3> QED
        BY <1>6, <2>2, <3>2, <3>6
    <2> QED
      BY <1>2, <2>1, <2>2
  <1> DEFINE left == s[1]
  <1>11. /\ NextSpeed \in Nat /\ NextSpeed <= pn_speed + 1 /\ NextSpeed <= left - 1
         /\ ~pn_hold => pn_exit <= NextSpeed + l - 1
    <2> DEFINE l2 == l
               top2 == top
    <2>1. l2 \in Nat \ {0} /\ l2 = pn_queue[1].length /\ top2 \in Nat \ {0}
          /\ top2 = NominalSpeed(pn_queue[1], pn_override)
          /\ left \in Nat /\ pn_speed <= left /\ pn_exit <= left - l2
          /\ (~pn_hold => pn_exit <= pn_speed + l2 /\ pn_exit <= top2)
      BY <1>5, <1>7, <1>9, <1>10
    <2> HIDE DEF l2, top2, left
    <2>2. /\ NextSpeed \in Nat /\ NextSpeed <= pn_speed + 1 /\ NextSpeed <= left - 1
          /\ ~pn_hold => pn_exit <= NextSpeed + l2 - 1
      BY <1>2, <1>3, <2>1, NextSpeedRuns
    <2> QED
      BY <2>2 DEF l2
  <1> QED
    BY <1>1, <1>2, <1>4, <1>5, <1>6, <1>7, <1>8, <1>11

\* So does a cell inside of a block.
LEMMA PrepCellRuns ==
  ASSUME PlanRuns, PrepCell
  PROVE  PlanRuns'
  <1> DEFINE n == Len(pn_queue)
             l == pn_queue[1].length
             v == NextSpeed
             q == [pn_queue EXCEPT ![1].length = @ - 1]
  <1>1. /\ pn_queue' = q /\ pn_planned' = pn_planned /\ pn_exit' = pn_exit
        /\ pn_previous' = pn_previous /\ pn_decel' = pn_decel /\ pn_override' = pn_override
        /\ pn_loaded' = pn_loaded /\ pn_speed' = v /\ pn_hold' = pn_hold /\ pn_jump' = v - pn_speed
        /\ pn_loaded /\ (pn_hold => pn_speed > 0) /\ l > 1 /\ pn_lowered' = pn_lowered
    BY DEF PrepCell, Moved
  <1>2. PICK s : StopsInTime(pn_queue, s) /\ pn_speed <= s[1]
    BY DEF PlanRuns
  <1>3. /\ n \in Nat /\ n > 0 /\ 1 \in 1 .. n /\ n \in 1 .. n /\ pn_queue # <<>>
        /\ pn_queue \in Seq(Block) /\ l \in Nat \ {0} /\ Now = pn_speed /\ pn_speed \in Nat
        /\ pn_exit = ExitOf(pn_queue) /\ pn_exit \in Nat /\ pn_planned \in Nat \ {0} /\ pn_planned <= n
        /\ pn_previous \in Nat /\ pn_override \in Overrides
        /\ MaximaAreCurrent(pn_queue, pn_override) /\ BelowMaxima(pn_queue)
        /\ pn_previous = NominalSpeed(pn_queue[n], pn_override)
        /\ (n >= 2 => 2 \in 1 .. n /\ 2 \in 2 .. n /\ pn_exit = pn_queue[2].entry)
    BY <1>1, <1>2, ExecutedRuns
  <1>4. /\ s[1] \in Nat /\ s[2] \in Nat /\ s[1] = s[2] + l
        /\ v \in Nat /\ v <= pn_speed + 1 /\ v <= s[1] - 1
        /\ ~pn_hold => pn_exit <= v + l - 1
    BY <1>1, <1>2, ExecutedRuns
  <1> HIDE DEF v
  <1> DEFINE b == [pn_queue[1] EXCEPT !.length = l - 1]
  <1>5. b \in Block /\ b.length = l - 1 /\ b.max = pn_queue[1].max /\ b.entry = pn_queue[1].entry
        /\ b.junction = pn_queue[1].junction /\ b.rate = pn_queue[1].rate
    <2>1. pn_queue[1] \in Block
      BY <1>3
    <2>2. l - 1 \in Nat \ {0}
      BY <1>1, <1>3
    <2> HIDE DEF l
    <2> QED
      BY <2>1, <2>2 DEF Block
  <1>6. q = [pn_queue EXCEPT ![1] = b]
    OBVIOUS
  <1> HIDE DEF q, b, l
  <1>7. q \in Seq(Block) /\ Len(q) = n /\ q[1] = b /\ \A i \in 1 .. n : i # 1 => q[i] = pn_queue[i]
    BY <1>3, <1>5, <1>6
  <1>8. \A i \in 2 .. n : i \in 1 .. n /\ i # 1 /\ q[i] = pn_queue[i]
    <2>1. \A i \in 2 .. n : i \in 1 .. n /\ i # 1
      BY <1>3
    <2> QED
      BY <1>7, <2>1
  <1>9. q # <<>>
    BY <1>3, <1>7
  <1>10. Now' = v
    BY <1>1 DEF Now
  <1>11. \A i \in 1 .. n : NominalSpeed(q[i], pn_override) = NominalSpeed(pn_queue[i], pn_override)
    BY <1>5, <1>7 DEF NominalSpeed
  <1>12. PnTypeOK'
    <2>1. PnTypeOK
      BY DEF PlanRuns
    <2> QED
      BY <1>1, <1>4, <1>7, <2>1 DEF PnTypeOK
  <1>13. MaximaAreCurrent(q, pn_override) /\ BelowMaxima(q)
    <2>1. ASSUME NEW i \in 2 .. n
          PROVE  q[i].max = MaxEntry(q[i].junction, NominalSpeed(q[i], pn_override),
                                     NominalSpeed(q[i - 1], pn_override))
      <3>1. i \in 1 .. n /\ i - 1 \in 1 .. n
        BY <1>3
      <3> QED
        BY <1>3, <1>8, <1>11, <3>1 DEF MaximaAreCurrent
    <2>2. BelowMaxima(q)
      BY <1>3, <1>7, <1>8 DEF BelowMaxima
    <2> QED
      BY <1>7, <2>1, <2>2 DEF MaximaAreCurrent
  <1>14. ExitOf(q) = ExitOf(pn_queue)
    <2>1. n < 2 \/ 2 \in 2 .. n
      BY <1>3
    <2> QED
      BY <1>7, <1>8, <2>1 DEF ExitOf
  <1> DEFINE t == [s EXCEPT ![1] = s[1] - 1]
  <1>15. /\ s \in [1 .. n + 1 -> Nat] /\ s[n + 1] = 0 /\ (\A i \in 1 .. n : s[i] = s[i + 1] + pn_queue[i].length)
         /\ \A i \in 2 .. n : pn_queue[i].entry <= s[i]
    BY <1>2 DEF StopsInTime, CellsLeft
  <1>16. /\ t \in [1 .. n + 1 -> Nat] /\ t[1] = s[1] - 1 /\ t[n + 1] = 0
         /\ \A i \in 2 .. n + 1 : t[i] = s[i]
    <2>1. s[1] - 1 \in Nat /\ 1 \in 1 .. n + 1 /\ n + 1 \in 1 .. n + 1 /\ n + 1 # 1
      BY <1>3, <1>4
    <2>2. \A i \in 2 .. n + 1 : i \in 1 .. n + 1 /\ i # 1
      BY <1>3
    <2> QED
      BY <1>15, <2>1, <2>2
  <1> HIDE DEF t
  <1>17. StopsInTime(q, t)
    <2>1. ASSUME NEW i \in 1 .. n PROVE t[i] = t[i + 1] + q[i].length
      <3>1. CASE i = 1
        <4>1. i + 1 = 2 /\ 2 \in 2 .. n + 1
          BY <1>3, <3>1
        <4>2. t[i] = s[1] - 1 /\ t[i + 1] = s[2] /\ q[i].length = l - 1
          BY <1>5, <1>7, <1>16, <3>1, <4>1
        <4> QED
          BY <1>3, <1>4, <4>2
      <3>2. CASE i # 1
        <4>1. i \in 2 .. n /\ i \in 2 .. n + 1 /\ i + 1 \in 2 .. n + 1
          BY <1>3, <3>2
        <4> QED
          BY <1>8, <1>15, <1>16, <4>1
      <3> QED
        BY <3>1, <3>2
    <2>2. ASSUME NEW i \in 2 .. n PROVE q[i].entry <= t[i]
      <3>1. i \in 2 .. n + 1
        BY <1>3
      <3> QED
        BY <1>8, <1>15, <1>16, <3>1
    <2> QED
      BY <1>7, <1>16, <2>1, <2>2 DEF StopsInTime, CellsLeft
  <1>18. ~pn_hold => Reached(q, v)
    <2> SUFFICES ASSUME ~pn_hold, NEW i \in 2 .. n
                 PROVE  q[i].entry <= EntryAt(q, v, i - 1) + q[i - 1].length
      BY <1>7 DEF Reached
    <2>1. q[i] = pn_queue[i] /\ i \in 1 .. n /\ i - 1 \in 1 .. n
      BY <1>3, <1>8
    <2>2. CASE i = 2
      <3>1. EntryAt(q, v, i - 1) = v /\ q[i - 1].length = l - 1 /\ q[i].entry = pn_exit
        <4>1. i - 1 = 1
          BY <2>2
        <4> QED
          BY <1>3, <1>5, <1>7, <2>1, <2>2, <4>1 DEF EntryAt
      <3>2. pn_exit <= v + l - 1
        BY <1>4
      <3> QED
        BY <1>3, <1>4, <3>1, <3>2
    <2>3. CASE i # 2
      <3>1. i - 1 \in 2 .. n /\ i - 1 # 1
        BY <1>3, <2>3
      <3>2. q[i - 1] = pn_queue[i - 1] /\ EntryAt(q, v, i - 1) = EntryAt(pn_queue, Now, i - 1)
        BY <1>7, <1>8, <3>1 DEF EntryAt
      <3>3. Reached(pn_queue, Now)
        BY DEF PlanRuns
      <3> QED
        BY <2>1, <3>2, <3>3 DEF Reached
    <2> QED
      BY <2>2, <2>3
  <1>19. pn_jump' \in Int /\ pn_jump' <= 1
    BY <1>1, <1>3, <1>4
  <1>20. StopsInTime(pn_queue', t) /\ pn_speed' <= t[1] /\ Now' <= t[1]
    BY <1>1, <1>4, <1>10, <1>16, <1>17
  <1>21. BelowMaxima(pn_queue') /\ MaximaAreCurrent(pn_queue', pn_override')
         /\ (~pn_hold' => Reached(pn_queue', Now'))
         /\ pn_previous' = NominalSpeed(pn_queue'[Len(pn_queue')], pn_override')
    BY <1>1, <1>3, <1>7, <1>10, <1>11, <1>13, <1>18
  <1>22. pn_loaded' /\ pn_queue' # <<>> /\ pn_exit' = ExitOf(pn_queue')
    BY <1>1, <1>3, <1>9, <1>14
  <1> QED
    BY <1>12, <1>19, <1>20, <1>21, <1>22 DEF PlanRuns

\* So does the last cell of a block, which a deceleration may go on from.
LEMMA PrepLastCellRuns ==
  ASSUME PlanRuns, PrepLastCell
  PROVE  PlanRuns'
  <1> DEFINE n == Len(pn_queue)
             v == NextSpeed
             q == Tail(pn_queue)
             p == IF pn_planned = 1 THEN 1 ELSE pn_planned - 1
  <1>1. /\ pn_queue' = q /\ pn_planned' = p /\ pn_exit' = v
        /\ pn_previous' = pn_previous /\ pn_override' = pn_override
        /\ pn_loaded' = FALSE /\ pn_speed' = v /\ pn_hold' = pn_hold /\ pn_jump' = v - pn_speed
        /\ pn_loaded /\ (pn_hold => pn_speed > 0) /\ pn_queue[1].length = 1 /\ pn_lowered' = pn_lowered
    BY DEF PrepLastCell, Moved
  <1>2. pn_decel' \in BOOLEAN
    BY DEF PrepLastCell
  <1>3. PICK s : StopsInTime(pn_queue, s) /\ pn_speed <= s[1]
    BY DEF PlanRuns
  <1>4. /\ n \in Nat /\ n > 0 /\ 1 \in 1 .. n /\ n \in 1 .. n /\ pn_queue # <<>>
        /\ pn_queue \in Seq(Block) /\ Now = pn_speed /\ pn_speed \in Nat
        /\ pn_exit \in Nat /\ pn_planned \in Nat \ {0} /\ pn_planned <= n
        /\ pn_previous \in Nat /\ pn_override \in Overrides
        /\ MaximaAreCurrent(pn_queue, pn_override) /\ BelowMaxima(pn_queue)
        /\ pn_previous = NominalSpeed(pn_queue[n], pn_override)
        /\ (n >= 2 => 2 \in 1 .. n /\ 2 \in 2 .. n /\ pn_exit = pn_queue[2].entry)
    BY <1>1, <1>3, ExecutedRuns
  <1>5. /\ s[1] \in Nat /\ s[2] \in Nat /\ s[1] = s[2] + 1 /\ pn_exit <= s[2]
        /\ v \in Nat /\ v <= pn_speed + 1 /\ v <= s[2] /\ (~pn_hold => pn_exit <= v)
    <2>1. /\ s[1] \in Nat /\ s[2] \in Nat /\ s[1] = s[2] + 1 /\ pn_exit <= s[2]
          /\ v \in Nat /\ v <= pn_speed + 1 /\ v <= s[1] - 1
          /\ ~pn_hold => pn_exit <= v + 1 - 1
      BY <1>1, <1>3, ExecutedRuns
    <2> HIDE DEF v
    <2> QED
      BY <1>4, <2>1
  <1>6. pn_hold \in BOOLEAN /\ pn_lowered \in BOOLEAN
    BY RunsMean
  <1> HIDE DEF v
  <1>7. q \in Seq(Block) /\ Len(q) = n - 1 /\ \A i \in 1 .. n - 1 : q[i] = pn_queue[i + 1]
    BY <1>4
  <1>8. MaximaAreCurrent(q, pn_override)
    BY <1>4, TailMaxima
  <1> HIDE DEF q
  <1>9. q # <<>> => n >= 2 /\ Now' = pn_exit /\ q[1] = pn_queue[2] /\ q[n - 1] = pn_queue[n]
    <2> SUFFICES ASSUME q # <<>> PROVE n >= 2 /\ Now' = pn_exit /\ q[1] = pn_queue[2] /\ q[n - 1] = pn_queue[n]
      OBVIOUS
    <2>1. n >= 2
      BY <1>4, <1>7
    <2>2. 1 \in 1 .. n - 1 /\ n - 1 \in 1 .. n - 1 /\ n - 1 + 1 = n /\ 1 + 1 = 2
      BY <1>4, <2>1
    <2>3. q[1] = pn_queue[1 + 1] /\ q[n - 1] = pn_queue[n - 1 + 1]
      BY <1>7, <2>2
    <2>4. Now' = q[1].entry
      BY <1>1 DEF Now
    <2> QED
      BY <1>4, <2>1, <2>2, <2>3, <2>4
  <1>10. p \in Nat \ {0} /\ (q = <<>> \/ p <= Len(q))
    <2>1. q # <<>> => 1 <= n - 1
      BY <1>4, <1>7
    <2>2. p \in Nat \ {0} /\ (1 <= n - 1 => p <= n - 1)
      BY <1>4
    <2> HIDE DEF p
    <2> QED
      BY <1>7, <2>1, <2>2
  <1>11. PnTypeOK'
    <2>1. pn_planned' \in Nat \ {0} /\ (pn_queue' = <<>> \/ pn_planned' <= Len(pn_queue'))
      BY <1>1, <1>10
    <2>2. pn_queue' \in Seq(Block) /\ pn_speed' \in Nat /\ pn_exit' \in Nat /\ pn_previous' \in Nat
          /\ pn_override' \in Overrides
      BY <1>1, <1>4, <1>5, <1>7
    <2>3. pn_loaded' \in BOOLEAN /\ pn_hold' \in BOOLEAN /\ pn_decel' \in BOOLEAN
          /\ pn_lowered' \in BOOLEAN
      BY <1>1, <1>2, <1>6
    <2> QED
      BY <2>1, <2>2, <2>3, Zenon DEF PnTypeOK
  <1>12. ASSUME NEW i \in 2 .. n - 1
         PROVE  /\ i + 1 \in 2 .. n /\ i \in 1 .. n - 1 /\ i - 1 \in 1 .. n - 1 /\ i + 1 - 1 = i /\ i - 1 + 1 = i
                /\ q[i] = pn_queue[i + 1] /\ q[i - 1] = pn_queue[i]
    <2>1. /\ i + 1 \in 2 .. n /\ i \in 1 .. n - 1 /\ i - 1 \in 1 .. n - 1 /\ i + 1 - 1 = i /\ i - 1 + 1 = i
      BY <1>4
    <2>2. q[i] = pn_queue[i + 1] /\ q[i - 1] = pn_queue[i - 1 + 1]
      BY <1>7, <2>1
    <2> QED
      BY <2>1, <2>2
  <1>13. BelowMaxima(q)
    <2>1. \A i \in 2 .. n - 1 : q[i].entry <= q[i].max
      BY <1>4, <1>12 DEF BelowMaxima
    <2> QED
      BY <1>7, <2>1 DEF BelowMaxima
  <1> DEFINE t == [i \in 1 .. n |-> s[i + 1]]
  <1>14. /\ s \in [1 .. n + 1 -> Nat] /\ s[n + 1] = 0 /\ (\A i \in 1 .. n : s[i] = s[i + 1] + pn_queue[i].length)
         /\ \A i \in 2 .. n : pn_queue[i].entry <= s[i]
    BY <1>3 DEF StopsInTime, CellsLeft
  <1>15. t \in [1 .. n -> Nat] /\ t[n] = 0 /\ t[1] = s[2] /\ \A i \in 1 .. n : t[i] = s[i + 1]
    <2>1. \A i \in 1 .. n : i + 1 \in 1 .. n + 1
      BY <1>4
    <2>2. 1 + 1 = 2
      OBVIOUS
    <2> QED
      BY <1>4, <1>14, <2>1, <2>2
  <1> HIDE DEF t
  <1>16. StopsInTime(q, t)
    <2>1. ASSUME NEW i \in 1 .. n - 1 PROVE t[i] = t[i + 1] + q[i].length
      <3>1. i \in 1 .. n /\ i + 1 \in 1 .. n
        BY <1>4
      <3> QED
        BY <1>7, <1>14, <1>15, <3>1
    <2>2. ASSUME NEW i \in 2 .. n - 1 PROVE q[i].entry <= t[i]
      <3>1. i \in 1 .. n
        BY <1>4
      <3> QED
        BY <1>12, <1>14, <1>15, <3>1
    <2>3. Len(q) + 1 = n
      BY <1>4, <1>7
    <2> QED
      BY <1>7, <1>15, <2>1, <2>2, <2>3 DEF StopsInTime, CellsLeft
  <1>17. ~pn_hold => Reached(q, pn_exit)
    <2> SUFFICES ASSUME ~pn_hold, NEW i \in 2 .. n - 1
                 PROVE  q[i].entry <= EntryAt(q, pn_exit, i - 1) + q[i - 1].length
      BY <1>7 DEF Reached
    <2>1. Reached(pn_queue, Now)
      BY DEF PlanRuns
    <2>2. pn_queue[i + 1].entry <= EntryAt(pn_queue, Now, i) + pn_queue[i].length
      BY <1>12, <2>1 DEF Reached
    <2>3. EntryAt(q, pn_exit, i - 1) = EntryAt(pn_queue, Now, i)
      <3>1. i # 1 /\ i <= n /\ i - 1 <= n - 1
        BY <1>4
      <3>2. EntryAt(pn_queue, Now, i) = pn_queue[i].entry
        BY <3>1 DEF EntryAt
      <3>3. CASE i - 1 = 1
        <4>1. i = 2
          BY <1>4, <3>3
        <4>2. n >= 2
          BY <1>4, <3>1, <4>1
        <4> QED
          BY <1>4, <3>2, <3>3, <4>1, <4>2 DEF EntryAt
      <3>4. CASE i - 1 # 1
        BY <1>7, <1>12, <3>1, <3>2, <3>4 DEF EntryAt
      <3> QED
        BY <3>3, <3>4
    <2> QED
      BY <1>12, <2>2, <2>3
  <1>18. ~pn_hold => Reached(q, Now')
    <2>1. CASE q # <<>>
      BY <1>9, <1>17, <2>1
    <2>2. CASE q = <<>>
      <3>1. 2 .. Len(q) = {}
        BY <2>2
      <3> QED
        BY <3>1 DEF Reached
    <2> QED
      BY <2>1, <2>2
  <1>19. pn_jump' \in Int /\ pn_jump' <= 1
    BY <1>1, <1>4, <1>5
  <1>20. StopsInTime(pn_queue', t) /\ pn_speed' <= t[1] /\ (pn_queue' # <<>> => Now' <= t[1])
    BY <1>1, <1>5, <1>9, <1>15, <1>16
  <1>21. pn_queue' # <<>> => pn_previous' = NominalSpeed(pn_queue'[Len(pn_queue')], pn_override')
    BY <1>1, <1>4, <1>7, <1>9
  <1>22. ~pn_loaded' /\ pn_exit' = pn_speed' /\ (pn_queue' # <<>> /\ ~pn_hold' => Now' <= pn_speed')
    BY <1>1, <1>5, <1>9
  <1>23. BelowMaxima(pn_queue') /\ MaximaAreCurrent(pn_queue', pn_override') /\ (~pn_hold' => Reached(pn_queue', Now'))
    BY <1>1, <1>8, <1>13, <1>18
  <1> QED
    BY <1>11, <1>19, <1>20, <1>21, <1>22, <1>23 DEF PlanRuns

\* The machine stands when there is nothing left, so that it stops by nothing.
LEMMA StopsRuns ==
  ASSUME PlanRuns, Stops
  PROVE  /\ PlanRuns' /\ pn_queue' = <<>> /\ ~pn_loaded' /\ pn_speed' = 0 /\ pn_jump' = 0
         /\ (~pn_lowered' => ~pn_decel' /\ pn_exit' = 0)
  <1>1. /\ pn_queue = <<>> /\ pn_queue' = <<>> /\ pn_planned' = pn_planned /\ pn_previous' = pn_previous
        /\ pn_override' = pn_override /\ pn_loaded' = pn_loaded /\ pn_speed' = 0 /\ pn_jump' = 0 - pn_speed
        /\ pn_exit' = (IF pn_decel THEN pn_exit ELSE 0) /\ pn_decel' = pn_decel /\ pn_hold' = pn_hold
        /\ pn_lowered' = pn_decel
    BY DEF Stops, pn_plan
  <1>2. /\ pn_queue \in Seq(Block) /\ Len(pn_queue) = 0 /\ pn_speed \in Nat /\ ~pn_loaded
        /\ pn_planned \in Nat \ {0} /\ pn_previous \in Nat /\ pn_override \in Overrides
    BY <1>1, RunsMean
  <1>3. /\ pn_loaded \in BOOLEAN /\ pn_hold \in BOOLEAN /\ pn_decel \in BOOLEAN
    BY RunsMean
  <1>4. PICK s : StopsInTime(pn_queue, s) /\ pn_speed <= s[1]
    BY DEF PlanRuns
  <1>5. pn_speed = 0 /\ pn_exit = 0 /\ s[1] = 0
    <2>1. s[1] = 0
      BY <1>2, <1>4 DEF StopsInTime, CellsLeft
    <2>2. pn_speed = 0
      BY <1>2, <1>4, <2>1
    <2>3. ~pn_loaded
      BY <1>2
    <2>4. pn_exit = pn_speed
      BY <2>3, Zenon DEF PlanRuns
    <2> QED
      BY <2>1, <2>2, <2>4
  <1>6. pn_exit' = 0 /\ pn_jump' = 0
    <2>1. pn_exit' = 0
      BY <1>1, <1>5, Zenon
    <2>2. pn_jump' = 0 - pn_speed /\ pn_speed = 0
      BY <1>1, <1>5, Zenon
    <2> QED
      BY <2>1, <2>2
  <1>7. PnTypeOK'
    <2>1. pn_queue' \in Seq(Block) /\ pn_speed' \in Nat /\ pn_exit' \in Nat /\ pn_previous' \in Nat
          /\ pn_override' \in Overrides /\ pn_planned' \in Nat \ {0}
      BY <1>1, <1>2, <1>6
    <2> QED
      BY <1>1, <1>3, <2>1, Zenon DEF PnTypeOK
  <1>8. 2 .. Len(pn_queue') = {}
    BY <1>1, <1>2
  <1>9. MaximaAreCurrent(pn_queue', pn_override') /\ BelowMaxima(pn_queue') /\ Reached(pn_queue', Now')
    BY <1>8 DEF MaximaAreCurrent, BelowMaxima, Reached
  <1>10. StopsInTime(pn_queue', s) /\ pn_speed' <= s[1]
    BY <1>1, <1>4, <1>5
  <1>11. ~pn_loaded' /\ pn_exit' = pn_speed' /\ pn_jump' \in Int /\ pn_jump' <= 1
    BY <1>1, <1>2, <1>6
  <1>12. PlanRuns'
    BY <1>1, <1>7, <1>9, <1>10, <1>11 DEF PlanRuns
  <1> QED
    BY <1>1, <1>6, <1>11, <1>12

\* The inductive invariant: what always holds, and the sound plan until a block
\* is slowed down.
PlanHolds == PlanRuns /\ (~pn_lowered => PlanSound)

\* Every step keeps what always holds.
LEMMA PlanStaysRunning == PlanRuns /\ [PnNext]_pn_vars => PlanRuns'
  <1> SUFFICES ASSUME PlanRuns, [PnNext]_pn_vars PROVE PlanRuns'
    OBVIOUS
  <1>1. ASSUME NEW l \in Lines, BufferLine(l) PROVE PlanRuns'
    BY <1>1, BufferLineRuns
  <1>2. ASSUME NEW f \in Overrides, ChangeOverride(f) PROVE PlanRuns'
    BY <1>2, ChangeOverrideRuns
  <1>3. CASE LoadBlock
    BY <1>3, LoadBlockRuns
  <1>4. CASE PrepCell
    BY <1>4, PrepCellRuns
  <1>5. CASE PrepLastCell
    BY <1>5, PrepLastCellRuns
  <1>6. CASE Stops
    BY <1>6, StopsRuns
  <1>7. CASE StartHold
    BY <1>7, StartHoldRuns
  <1>8. CASE HoldEnds
    BY <1>8, HoldEndsRuns
  <1>9. CASE UNCHANGED pn_vars
    BY <1>9 DEF PlanRuns, PnTypeOK, Now, pn_vars, pn_plan, pn_prep, pn_bound
  <1> QED
    BY <1>1, <1>2, <1>3, <1>4, <1>5, <1>6, <1>7, <1>8, <1>9 DEF PnNext

\* A machine that stands with nothing left and no deceleration to go on with has a
\* sound plan.
LEMMA StopsSound ==
  ASSUME PlanRuns, Stops, ~pn_lowered'
  PROVE  PlanSound'
  <1>1. /\ PlanRuns' /\ pn_queue' = <<>> /\ ~pn_loaded' /\ pn_speed' = 0 /\ pn_jump' = 0
        /\ ~pn_decel' /\ pn_exit' = 0
    BY StopsRuns
  <1>2. 2 .. Len(pn_queue') = {} /\ 1 .. Len(pn_queue') = {}
    BY <1>1
  <1>3. PnTypeOK' /\ MaximaAreCurrent(pn_queue', pn_override')
    BY <1>1 DEF PlanRuns
  <1>4. CanStop(pn_queue', Now') /\ FullyUsed(pn_queue', Now', pn_planned')
    BY <1>2 DEF CanStop, FullyUsed
  <1>5. SpeedsAreCurrent' /\ ProfileJoins'
    BY <1>1 DEF SpeedsAreCurrent, ProfileJoins
  <1>6. AccelerationKept' /\ PlanEndsInStop'
    BY <1>1 DEF AccelerationKept, PlanEndsInStop
  <1> QED
    BY <1>3, <1>4, <1>5, <1>6 DEF PlanSound, PlanKept

\* Once a block is slowed down, only a stop with an empty queue forgets it.
LEMMA SlowedUntilStop == [PnNext]_pn_vars /\ pn_lowered /\ ~pn_lowered' => Stops
  <1> SUFFICES ASSUME [PnNext]_pn_vars, pn_lowered, ~pn_lowered', ~Stops PROVE FALSE
    OBVIOUS
  <1>1. ASSUME NEW l \in Lines, BufferLine(l) PROVE FALSE
    BY <1>1 DEF BufferLine
  <1>2. ASSUME NEW f \in Overrides, ChangeOverride(f) PROVE FALSE
    BY <1>2 DEF ChangeOverride
  <1>3. CASE LoadBlock
    BY <1>3 DEF LoadBlock
  <1>4. CASE PrepCell \/ PrepLastCell
    BY <1>4 DEF PrepCell, PrepLastCell
  <1>5. CASE StartHold \/ HoldEnds
    BY <1>5 DEF StartHold, HoldEnds
  <1>6. CASE UNCHANGED pn_vars
    BY <1>6 DEF pn_vars
  <1> QED
    BY <1>1, <1>2, <1>3, <1>4, <1>5, <1>6 DEF PnNext

\* Every step keeps the invariant.
LEMMA PlanStaysHeld == PlanHolds /\ [PnNext]_pn_vars => PlanHolds'
  <1> SUFFICES ASSUME PlanHolds, [PnNext]_pn_vars PROVE PlanHolds'
    OBVIOUS
  <1>1. PlanRuns'
    BY PlanStaysRunning DEF PlanHolds
  <1>2. ASSUME ~pn_lowered' PROVE PlanSound'
    <2>1. CASE Stops
      BY <1>2, <2>1, StopsSound DEF PlanHolds
    <2>2. CASE ~Stops
      <3>1. ~pn_lowered
        BY <1>2, <2>2, SlowedUntilStop
      <3> QED
        BY <1>2, <2>2, <3>1, PlanStaysSound DEF PlanHolds
    <2> QED
      BY <2>1, <2>2
  <1> QED
    BY <1>1, <1>2 DEF PlanHolds

\* What the runs check follows from it.
LEMMA HeldMeans == PlanHolds => PnInv
  <1> SUFFICES ASSUME PlanHolds PROVE PnInv
    OBVIOUS
  <1>1. PnTypeOK /\ MaximaAreCurrent(pn_queue, pn_override) /\ BelowMaxima(pn_queue) /\ pn_jump <= 1
    BY DEF PlanHolds, PlanRuns
  <1>2. PlanEndsInStop
    <2> SUFFICES ASSUME pn_queue = <<>> PROVE pn_speed = 0
      BY DEF PlanEndsInStop
    <2>1. PICK s : StopsInTime(pn_queue, s) /\ pn_speed <= s[1]
      BY DEF PlanHolds, PlanRuns
    <2>2. Len(pn_queue) = 0 /\ pn_speed \in Nat
      BY RunsMean DEF PlanHolds
    <2>3. s[1] = 0
      BY <2>1, <2>2 DEF StopsInTime, CellsLeft
    <2> QED
      BY <2>1, <2>2, <2>3
  <1>3. ~pn_lowered => PlanIsOptimal /\ AccelerationKept /\ PlanKept
    BY SoundIsOptimal DEF PlanHolds, PlanSound
  <1> QED
    BY <1>1, <1>2, <1>3 DEF PnInv

\* For every kind of line, for queues of any size and whatever the override does,
\* no entry exceeds its maximum, the speed never rises by more than the
\* acceleration allows, and the plan ends in a stop.  Until an override slows a
\* block of the queue down, and again after the machine has come to stand with an
\* empty queue, the incremental planner has made the fastest plan that keeps the
\* accelerations and the limits, and st_prep_buffer follows it without a jump in
\* speed (planner.c:75, planner.c:84).
THEOREM PlanIsKept == PnSpec => []PnInv
  <1>1. PnInit => PlanHolds
    BY PlanStartsRunning, PlanStartsSound DEF PlanHolds
  <1>2. PlanHolds /\ [PnNext]_pn_vars => PlanHolds'
    BY PlanStaysHeld
  <1>3. PlanHolds => PnInv
    BY HeldMeans
  <1> QED
    BY <1>1, <1>2, <1>3, PTL DEF PnSpec

===============================================================================
