-------------------------- MODULE StepPipelineQueue --------------------------
(***************************************************************************)
(* The refinement of MotionQueue by StepPipeline: where, in the two rings, *)
(* in st_prep_buffer()'s own data and in the interrupt's, the step events  *)
(* of a queued move are that the motors have still to make.                *)
(***************************************************************************)
EXTENDS StepPipelineInv, Sequences

\* The planner block whose remainder is prep.steps_remaining.
PlannerBlockInPrep == pl_block # NULL \/ prep.recalculate

PlannerQueued ==
  {i \in Blocks : InRing(i, block_buffer_tail, block_buffer_head)}
    \ (IF PlannerBlockInPrep THEN {block_buffer_tail} ELSE {})

\* Segments on their way to the motors: the queued ones, and the one that is
\* filled in at the head but not yet released.
Pipeline == Queued \cup (IF pc = "release" THEN {segment_buffer_head} ELSE {})

MoveOf(i) == st_block_buffer[segment_buffer[i].st_block_index]
MoveInPrep == st_block_buffer[prep.st_block_index]

SegmentSteps ==
  [i \in Slots |-> IF i = st.exec_segment THEN st.step_count ELSE segment_buffer[i].n_step]
BlockSteps == [i \in Blocks |-> block_buffer[i].steps]

\* The sum of f over the finite set S.
Total(S, f) == Cardinality(UNION {{i} \X (1 .. f[i]) : i \in S})

SegmentsOf(id) == {i \in Pipeline : MoveOf(i) = id}
BlocksOf(id) == {i \in PlannerQueued : block_buffer[i].id = id}

SegmentsLeft(id) == Total(SegmentsOf(id), SegmentSteps)
PrepLeft(id) == IF PlannerBlockInPrep /\ MoveInPrep = id THEN prep.steps_remaining ELSE 0
PlannerLeft(id) == Total(BlocksOf(id), BlockSteps)

\* Step events of move id still to be made.
Left(id) == SegmentsLeft(id) + PrepLeft(id) + PlannerLeft(id)

\* The oldest move with a step event to make, or the next one to be planned.
Oldest ==
  CHOOSE k \in 1 .. next_id : /\ k = next_id \/ Left(k) > 0
                             /\ \A j \in 1 .. k - 1 : Left(j) = 0

Moves == [k \in 1 .. next_id - 1 |-> [id |-> k, left |-> Left(k)]]
Pending == SubSeq(Moves, Oldest, next_id - 1)

Queue == INSTANCE MotionQueue WITH pending <- Pending

\* The pipeline is a first-in first-out queue of moves: every move makes exactly
\* its step events, after all of the older moves' and before the younger ones',
\* however it is cut into segments, held, re-planned and resumed.
ImplementsMotionQueue == Queue!Spec

-----------------------------------------------------------------------------
(* Why it is one: the moves are in order throughout.                       *)

\* Blocks in the planner ring, and how far slot i is before its head.
BlockCount == IF block_buffer_tail <= block_buffer_head
              THEN block_buffer_head - block_buffer_tail
              ELSE block_buffer_head - block_buffer_tail + BLOCK_BUFFER_SIZE
Before(i) == IF i < block_buffer_head THEN block_buffer_head - i
             ELSE block_buffer_head - i + BLOCK_BUFFER_SIZE

\* The planner ring holds the moves planned last, one after the other.
PlannerOrder ==
  /\ BlockCount < next_id
  /\ \A i \in Blocks : InRing(i, block_buffer_tail, block_buffer_head)
                         => block_buffer[i].id = next_id - Before(i)

\* The move in prep is the oldest of the ring or, if it is all in segments, the one
\* before that.
PrepOrder ==
  /\ PlannerBlockInPrep => MoveInPrep = next_id - BlockCount
  /\ ~PlannerBlockInPrep /\ Pipeline # {} => MoveInPrep + 1 = next_id - BlockCount

\* The segments are of moves up to the one in prep, in order and without a gap.
SegmentOrder ==
  /\ \A i \in Pipeline : MoveOf(i) \in 1 .. MoveInPrep
  /\ \A i, j \in Pipeline : Pos(i) <= Pos(j) => MoveOf(i) <= MoveOf(j)
  /\ Pipeline # {} =>
       \A m \in MoveOf(segment_buffer_tail) .. MoveInPrep :
         (m = MoveInPrep /\ PlannerBlockInPrep) \/ SegmentsOf(m) # {}

LastSegmentOf(i, id) ==
  /\ i \in SegmentsOf(id) /\ ~(PlannerBlockInPrep /\ MoveInPrep = id)
  /\ \A j \in SegmentsOf(id) : Pos(j) <= Pos(i)

\* A slot has the callback of a move that has no step to make, or is the last
\* segment of the move whose callback it has.
CallbackOrder ==
  \A i \in Slots : LET c == segment_buffer[i].callback
                  IN c # 0 => c < next_id /\ (Left(c) = 0 \/ LastSegmentOf(i, c))

\* The moves are in order in the planner ring, in prep and in the segment ring; with
\* IInv, an inductive invariant.
OrderInv == PlannerOrder /\ PrepOrder /\ SegmentOrder /\ CallbackOrder

\* "Callback function to be called by the stepper ISR on completion of the line
\* move": no callback is called while its move has a step to make.  (It may be
\* called again later: a reused slot keeps the callback of its former move.)
CallbackAfterLastStep ==
  [][\A id \in 1 .. MaxBlocks : callbacks'[id] # callbacks[id] => Left(id)' = 0]_vars
=============================================================================
