------------------------- MODULE StepPipelineProofs -------------------------
(***************************************************************************)
(* Proofs about StepPipeline, for rings of every size: its invariants, and *)
(* that it implements MotionQueue.  The moves stay in order (OrderInv), so *)
(* that what each step does to the steps of the moves that are left to     *)
(* make is a step of the queue, or none.                                   *)
(***************************************************************************)
EXTENDS StepPipelineQueue, FiniteSetTheorems, SequenceTheorems, TLAPS

\* The groups of variables are expanded in every proof about a step.
USE DEF plannerVars, segmentVars, prepVars, isrVars, protocolVars, mainVars

\* Ring indices stay inside their rings.
LEMMA IndexTypes ==
  /\ \A i \in Blocks : plan_next_block_index(i) \in Blocks
  /\ \A i \in Slots : next_slot(i) \in Slots
  /\ \A i \in StBlocks : st_next_block_index(i) \in StBlocks
  /\ 0 \in Blocks /\ 0 \in Slots /\ 0 \in StBlocks
  BY SizeAssumption DEF plan_next_block_index, next_slot, st_next_block_index,
     Blocks, Slots, StBlocks

\* The slot at the tail is queued, and first, as soon as the ring is not empty.
LEMMA OldestQueued ==
  ASSUME segment_buffer_tail \in Slots, segment_buffer_head \in Slots,
         segment_buffer_tail # segment_buffer_head
  PROVE  Pos(segment_buffer_tail) = 0 /\ Count > 0
  BY SizeAssumption DEF Pos, Count, Slots

\* Counting up one entry, or none, of a function to Nat.
LEMMA CountUp ==
  ASSUME NEW f \in [1 .. MaxBlocks -> Nat], NEW c \in Nat
  PROVE  [f EXCEPT ![c] = @ + 1] \in [1 .. MaxBlocks -> Nat]
<1>1. CASE c \in 1 .. MaxBlocks
  <2>1. f[c] + 1 \in Nat
    BY <1>1
  <2> QED BY <2>1
<1>2. CASE c \notin 1 .. MaxBlocks
  <2>1. [f EXCEPT ![c] = @ + 1] = f
    BY <1>2
  <2> QED BY <2>1
<1> QED BY <1>1, <1>2

\* Places within a step.
LEMMA PartTypes ==
  0 \in Parts /\ StepParts \in Nat /\ \A p \in Parts : p \in Nat /\ p <= StepParts - 1
  BY ValueAssumption DEF Parts

\* What is 1.25 steps on is at least one whole step on.
LEMMA FarIsAStep ==
  ASSUME NEW remaining \in Nat, prep.steps_remaining = remaining, prep.part \in Parts,
         NEW steps \in 1 .. remaining, NEW part \in Parts, FarEnough(steps, part)
  PROVE  steps < remaining
<1> DEFINE S == StepParts
<1>1. S \in Nat /\ S > 0 /\ part \in 0 .. S - 1 /\ prep.part \in 0 .. S - 1
  BY ValueAssumption DEF Parts
<1>2. 4 * S * (remaining - steps) + 4 * (part - prep.part) >= 5 * S
  BY DEF FarEnough
<1>3. SUFFICES ASSUME steps = remaining PROVE FALSE
  OBVIOUS
<1>4. 4 * S * (remaining - steps) = 0
  <2>1. remaining - steps = 0
    BY <1>3
  <2>2. 4 * S * 0 = 0
    BY <1>1
  <2> QED
    BY <2>1, <2>2
<1> HIDE DEF S
<1> QED
  BY <1>1, <1>2, <1>4

\* A segment that ends inside the block takes steps and leaves some.
LEMMA InBlockTakesSteps ==
  ASSUME PrepTypeOK, SegmentInBlock
  PROVE  \E n \in 1 .. prep.steps_remaining - 1, part \in Parts :
           /\ WriteSegment(n, FALSE)
           /\ prep' = [prep EXCEPT !.steps_remaining = prep.steps_remaining - n, !.part = part]
<1>1. PICK steps \in 1 .. prep.steps_remaining, part \in Parts :
        /\ WriteSegment(prep.steps_remaining - steps, FALSE)
        /\ prep' = [prep EXCEPT !.steps_remaining = steps, !.part = part]
        /\ FarEnough(steps, part) \/ steps < prep.steps_remaining
  BY DEF SegmentInBlock
<1>2. prep.steps_remaining \in Nat /\ prep.part \in Parts
  BY DEF PrepTypeOK
<1>3. steps < prep.steps_remaining
  BY <1>1, <1>2, FarIsAStep
<1> DEFINE n == prep.steps_remaining - steps
<1>4. n \in 1 .. prep.steps_remaining - 1 /\ steps = prep.steps_remaining - n
  BY <1>2, <1>3
<1> HIDE DEF n
<1>5. WriteSegment(n, FALSE)
  BY <1>1 DEF n
<1>6. prep' = [prep EXCEPT !.steps_remaining = prep.steps_remaining - n, !.part = part]
  BY <1>1, <1>4
<1> QED
  BY <1>4, <1>5, <1>6

\* The initial state has the types.
LEMMA InitTypeOK == Init => TypeOK
<1> USE IndexTypes DEF Init
<1>1. Init => PlannerTypeOK /\ SegmentTypeOK
  BY DEF PlannerTypeOK, SegmentTypeOK, NoSegment
<1>2. Init => PrepTypeOK
  BY PartTypes DEF PrepTypeOK, PrepReset
<1>3. Init => IsrTypeOK
  <2>1. StReset \in [exec_segment : Slots \cup {NULL}, step_count : Nat,
                    exec_block_index : StBlocks, counters : Nat]
    BY DEF StReset
  <2>2. Init => st = StReset /\ timer = FALSE /\ segment_buffer_tail = 0
    OBVIOUS
  <2>3. Init => callbacks \in [1 .. MaxBlocks -> Nat]
    OBVIOUS
  <2> HIDE DEF Init
  <2> QED
    BY <2>1, <2>2, <2>3 DEF IsrTypeOK
<1>4. Init => ProtocolTypeOK /\ MainTypeOK
  BY DEF ProtocolTypeOK, MainTypeOK
<1> HIDE DEF Init
<1> QED
  BY <1>1, <1>2, <1>3, <1>4 DEF TypeOK

\* A step that leaves a group of variables alone keeps the group's types.
LEMMA UnchangedTypes ==
  /\ PlannerTypeOK /\ UNCHANGED plannerVars => PlannerTypeOK'
  /\ SegmentTypeOK /\ UNCHANGED segmentVars => SegmentTypeOK'
  /\ PrepTypeOK /\ UNCHANGED prepVars => PrepTypeOK'
  /\ IsrTypeOK /\ UNCHANGED isrVars => IsrTypeOK'
  /\ ProtocolTypeOK /\ UNCHANGED protocolVars => ProtocolTypeOK'
  /\ MainTypeOK /\ UNCHANGED mainVars => MainTypeOK'
<1>1. PlannerTypeOK /\ UNCHANGED plannerVars => PlannerTypeOK'
  BY DEF PlannerTypeOK
<1>2. SegmentTypeOK /\ UNCHANGED segmentVars => SegmentTypeOK'
  BY DEF SegmentTypeOK
<1>3. PrepTypeOK /\ UNCHANGED prepVars => PrepTypeOK'
  BY DEF PrepTypeOK
<1>4. IsrTypeOK /\ UNCHANGED isrVars => IsrTypeOK'
  BY DEF IsrTypeOK
<1>5. ProtocolTypeOK /\ UNCHANGED protocolVars => ProtocolTypeOK'
  BY DEF ProtocolTypeOK
<1>6. MainTypeOK /\ UNCHANGED mainVars => MainTypeOK'
  BY DEF MainTypeOK
<1> QED
  BY <1>1, <1>2, <1>3, <1>4, <1>5, <1>6

\* Planner and block in prep.
LEMMA StepPlannerTypeOK == IInv /\ [Next]_vars => PlannerTypeOK'
<1> SUFFICES ASSUME IInv, [Next]_vars PROVE PlannerTypeOK'
  OBVIOUS
<1> USE IndexTypes, ValueAssumption DEF IInv, TypeOK, PlannerTypeOK
<1>1. CASE PlanBufferLine
  BY <1>1 DEF PlanBufferLine
<1>2. CASE Abort
  BY <1>2 DEF Abort
<1>3. CASE SegmentEndsBlock
  BY <1>3 DEF SegmentEndsBlock
<1>4. CASE UNCHANGED plannerVars
  BY <1>4
<1> QED
  BY <1>1, <1>2, <1>3, <1>4
     DEF Next, Protocol, Prep, Stepper, vars, Poll, FeedHold, CycleStart, CycleStop, McReset,
         WakeUp, PrepReturn, PrepBlock, SegmentInBlock, HoldWithoutStep, Release,
         StepperTick, StepperShutdown

\* The segment ring: two actions write it, at the head, and one moves the head.
LEMMA StepSegmentTypeOK == IInv /\ [Next]_vars => SegmentTypeOK'
<1> SUFFICES ASSUME IInv, [Next]_vars PROVE SegmentTypeOK'
  OBVIOUS
<1> USE IndexTypes, ValueAssumption DEF IInv, TypeOK, SegmentTypeOK
<1>1. ASSUME NEW n \in Nat, NEW last \in BOOLEAN, last => pl_block # NULL,
             WriteSegment(n, last), UNCHANGED segment_buffer_head
      PROVE  SegmentTypeOK'
  BY <1>1 DEF WriteSegment, PrepTypeOK, PlannerTypeOK
<1>2. CASE SegmentInBlock
  <2>1. PICK n \in 1 .. prep.steps_remaining - 1 : WriteSegment(n, FALSE)
    BY <1>2, InBlockTakesSteps
  <2>2. n \in Nat
    BY <2>1 DEF PrepTypeOK
  <2> QED
    BY <1>1, <1>2, <2>1, <2>2 DEF SegmentInBlock
<1>3. CASE SegmentEndsBlock
  BY <1>1, <1>3 DEF SegmentEndsBlock, HeadInv, PrepTypeOK
<1>4. CASE HoldWithoutStep
  BY <1>1, <1>4 DEF HoldWithoutStep
<1>5. CASE Release
  BY <1>5 DEF Release, segment_next_head
<1>6. CASE Abort
  BY <1>6 DEF Abort
<1>7. CASE UNCHANGED segmentVars
  BY <1>7
<1> QED
  BY <1>2, <1>3, <1>4, <1>5, <1>6, <1>7
     DEF Next, Protocol, Prep, Stepper, vars, PlanBufferLine, Poll, FeedHold, CycleStart,
         CycleStop, McReset, WakeUp, PrepReturn, PrepBlock, StepperTick, StepperShutdown

\* st_prep_buffer()'s own data.
LEMMA StepPrepTypeOK == IInv /\ [Next]_vars => PrepTypeOK'
<1> SUFFICES ASSUME IInv, [Next]_vars PROVE PrepTypeOK'
  OBVIOUS
<1> USE IndexTypes, ValueAssumption DEF IInv, TypeOK, PrepTypeOK
<1>1. CASE st_update_plan_block_parameters /\ UNCHANGED st_block_buffer
  BY <1>1 DEF st_update_plan_block_parameters
<1>2. CASE Abort
  BY <1>2, PartTypes DEF Abort, PrepReset
<1>3. CASE PrepBlock
  <2>1. CASE UNCHANGED prepVars
    BY <2>1
  <2>2. CASE ~UNCHANGED prepVars
    <3>1. pl_block' \in Blocks \cup {NULL}
      BY <1>3, <2>2 DEF PrepBlock, plan_get_current_block, PlannerTypeOK
    <3>2. CASE prep.recalculate
      BY <1>3, <2>2, <3>1, <3>2 DEF PrepBlock
    <3>3. CASE ~prep.recalculate
      <4> DEFINE i == st_next_block_index(prep.st_block_index)
                 b == block_buffer[block_buffer_tail]
      <4>1. i \in StBlocks /\ b.steps \in Nat /\ b.id \in Nat
        BY DEF PlannerTypeOK
      <4>2. /\ prep' = [prep EXCEPT !.st_block_index = i, !.steps_remaining = b.steps, !.part = 0]
            /\ st_block_buffer' = [st_block_buffer EXCEPT ![i] = b.id]
        BY <1>3, <2>2, <3>3 DEF PrepBlock
      <4> HIDE DEF i, b
      <4> QED BY <3>1, <4>1, <4>2, PartTypes
    <3> QED BY <3>2, <3>3
  <2> QED BY <2>1, <2>2
<1>4. CASE SegmentInBlock
  <2>1. PICK n \in 1 .. prep.steps_remaining - 1, part \in Parts :
          prep' = [prep EXCEPT !.steps_remaining = prep.steps_remaining - n, !.part = part]
    BY <1>4, InBlockTakesSteps
  <2>2. prep.steps_remaining - n \in Nat
    BY <2>1
  <2> QED
    BY <1>4, <2>1, <2>2 DEF SegmentInBlock
<1>5. CASE SegmentEndsBlock
  BY <1>5, PartTypes DEF SegmentEndsBlock
<1>6. CASE UNCHANGED prepVars
  BY <1>6
<1>7. PlanBufferLine \/ FeedHold \/ CycleStop
        => UNCHANGED prepVars \/ (st_update_plan_block_parameters /\ UNCHANGED st_block_buffer)
  BY DEF PlanBufferLine, FeedHold, CycleStop
<1> QED
  BY <1>1, <1>2, <1>3, <1>4, <1>5, <1>6, <1>7
     DEF Next, Protocol, Prep, Stepper, vars, Poll, CycleStart, McReset, WakeUp, PrepReturn,
         HoldWithoutStep, Release, StepperTick, StepperShutdown

\* The interrupt's data.
LEMMA StepIsrTypeOK == IInv /\ [Next]_vars => IsrTypeOK'
<1> SUFFICES ASSUME IInv, [Next]_vars PROVE IsrTypeOK'
  OBVIOUS
<1> USE IndexTypes, ValueAssumption DEF IInv, TypeOK, IsrTypeOK
<1>1. CASE StepperTick
  <2> DEFINE s == LoadSegment
  <2>1. s \in [exec_segment : Slots, step_count : Nat, exec_block_index : StBlocks,
               counters : Nat]
    BY DEF LoadSegment, SegmentTypeOK, PrepTypeOK
  <2>2. s.step_count # 0
    <3>1. CASE st.exec_segment # NULL
      BY <3>1 DEF LoadSegment, ExecInv
    <3>2. CASE st.exec_segment = NULL
      <4>1. Pos(segment_buffer_tail) < Count
        BY <1>1, <3>2, OldestQueued DEF StepperTick, SegmentTypeOK
      <4>2. segment_buffer[segment_buffer_tail].n_step > 0
        BY <4>1 DEF StepsInv
      <4> QED
        BY <3>2, <4>2 DEF LoadSegment
    <3> QED
      BY <3>1, <3>2
  <2>3. UNCHANGED timer /\ segment_buffer_tail' \in Slots
    BY <1>1 DEF StepperTick
  <2>4. callbacks' \in [1 .. MaxBlocks -> Nat]
    <3>1. \A c \in Nat : [callbacks EXCEPT ![c] = @ + 1] \in [1 .. MaxBlocks -> Nat]
      BY CountUp
    <3>2. segment_buffer[s.exec_segment].callback \in Nat
      BY <2>1 DEF SegmentTypeOK
    <3> QED BY <1>1, <3>1, <3>2 DEF StepperTick
  <2>5. st' \in [exec_segment : Slots \cup {NULL}, step_count : Nat,
               exec_block_index : StBlocks, counters : Nat]
    <3>1. \/ st' = [s EXCEPT !.step_count = 0, !.exec_segment = NULL]
          \/ st' = [s EXCEPT !.step_count = @ - 1]
      BY <1>1 DEF StepperTick
    <3>2. s.step_count - 1 \in Nat
      BY <2>1, <2>2
    <3> HIDE DEF s
    <3>3. [s EXCEPT !.step_count = 0, !.exec_segment = NULL]
            \in [exec_segment : Slots \cup {NULL}, step_count : Nat,
                exec_block_index : StBlocks, counters : Nat]
      BY <2>1
    <3>4. [s EXCEPT !.step_count = @ - 1]
            \in [exec_segment : Slots \cup {NULL}, step_count : Nat,
                exec_block_index : StBlocks, counters : Nat]
      BY <2>1, <3>2
    <3> QED BY <3>1, <3>3, <3>4
  <2> QED
    BY <2>3, <2>4, <2>5
<1>2. CASE Abort
  BY <1>2 DEF Abort, StReset
<1>3. CASE UNCHANGED <<segment_buffer_tail, st, callbacks>> /\ timer' \in BOOLEAN
  BY <1>3
<1>4. McReset \/ WakeUp \/ StepperShutdown
        => UNCHANGED <<segment_buffer_tail, st, callbacks>> /\ timer' \in BOOLEAN
  BY DEF McReset, WakeUp, StepperShutdown
<1> QED
  BY <1>1, <1>2, <1>3, <1>4
     DEF Next, Protocol, Prep, Stepper, vars, PlanBufferLine, Poll, FeedHold, CycleStart,
         CycleStop, PrepReturn, PrepBlock, SegmentInBlock, SegmentEndsBlock, HoldWithoutStep,
         Release

\* The realtime state machine's data and the main program's.
LEMMA StepProtocolTypeOK == IInv /\ [Next]_vars => ProtocolTypeOK' /\ MainTypeOK'
<1> SUFFICES ASSUME IInv, [Next]_vars PROVE ProtocolTypeOK' /\ MainTypeOK'
  OBVIOUS
<1> USE DEF IInv, TypeOK, ProtocolTypeOK, MainTypeOK
<1>1. CASE Protocol
  BY <1>1 DEF Protocol, PlanBufferLine, Poll, FeedHold, CycleStart, CycleStop, Abort, WakeUp,
     ReloadSegments
<1>2. CASE McReset
  BY <1>2 DEF McReset
<1>3. CASE Prep
  BY <1>3 DEF Prep, PrepReturn, PrepBlock, SegmentInBlock, SegmentEndsBlock, HoldWithoutStep,
     Release
<1>4. CASE Stepper
  BY <1>4 DEF Stepper, StepperTick, StepperShutdown
<1>5. CASE UNCHANGED vars
  BY <1>5 DEF vars
<1> QED
  BY <1>1, <1>2, <1>3, <1>4, <1>5 DEF Next

\* Together: every step keeps the types.
LEMMA StepTypeOK == IInv /\ [Next]_vars => TypeOK'
  BY StepPlannerTypeOK, StepSegmentTypeOK, StepPrepTypeOK, StepIsrTypeOK, StepProtocolTypeOK
     DEF TypeOK

-----------------------------------------------------------------------------
(* Ring arithmetic.                                                        *)

\* Positions in the segment ring are below its size; the head's is Count.
LEMMA PosRange ==
  ASSUME segment_buffer_tail \in Slots, segment_buffer_head \in Slots
  PROVE  /\ Count \in Slots /\ Pos(segment_buffer_head) = Count
         /\ \A i \in Slots : Pos(i) \in Slots
  BY SizeAssumption DEF Pos, Count, Slots

\* Moving the tail takes the oldest segment out and moves the others up by one.
LEMMA TailAdvance ==
  ASSUME segment_buffer_tail \in Slots, segment_buffer_head \in Slots, Count > 0,
         segment_buffer_tail' = next_slot(segment_buffer_tail),
         segment_buffer_head' = segment_buffer_head
  PROVE  /\ Count' = Count - 1
         /\ \A i \in Slots : Pos(i)' < Count' => Pos(i) = Pos(i)' + 1
  BY SizeAssumption DEF Pos, Count, Slots, next_slot

\* Moving the head of a ring that has room adds the segment at the head.
LEMMA HeadAdvance ==
  ASSUME segment_buffer_tail \in Slots, segment_buffer_head \in Slots,
         Count <= SEGMENT_BUFFER_SIZE - 2,
         segment_buffer_head' = segment_next_head,
         segment_buffer_tail' = segment_buffer_tail
  PROVE  /\ Count' = Count + 1
         /\ \A i \in Slots : Pos(i)' = Pos(i)
         /\ \A i \in Slots : Pos(i) = Count => i = segment_buffer_head
  BY SizeAssumption DEF Pos, Count, Slots, next_slot, segment_next_head

\* A ring that is not full has room for two more heads: the loop's guard.
LEMMA NotFull ==
  ASSUME segment_buffer_tail \in Slots, segment_buffer_head \in Slots,
         segment_buffer_tail # segment_next_head
  PROVE  Count <= SEGMENT_BUFFER_SIZE - 2
  BY SizeAssumption DEF Count, Slots, next_slot, segment_next_head

\* Distances back from the block slot in prep; taking the next slot adds one.
LEMMA BackRange ==
  ASSUME prep.st_block_index \in StBlocks
  PROVE  /\ \A b \in StBlocks : Back(b) \in StBlocks
         /\ \A b \in StBlocks : Back(b) = 0 <=> b = prep.st_block_index
  BY SizeAssumption DEF Back, StBlocks

LEMMA BackAdvance ==
  ASSUME prep.st_block_index \in StBlocks,
         prep'.st_block_index = st_next_block_index(prep.st_block_index)
  PROVE  \A b \in StBlocks :
           Back(b) < SEGMENT_BUFFER_SIZE - 2
             => Back(b)' = Back(b) + 1 /\ b # prep'.st_block_index
  BY SizeAssumption DEF Back, StBlocks, st_next_block_index

\* The types the ring lemmas ask for.
LEMMA RingTypes ==
  ASSUME IInv
  PROVE  /\ segment_buffer_tail \in Slots /\ segment_buffer_head \in Slots
         /\ Count \in Nat /\ (\A i \in Slots : Pos(i) \in Nat)
         /\ prep.st_block_index \in StBlocks /\ st.exec_block_index \in StBlocks
         /\ \A i \in Slots : segment_buffer[i].st_block_index \in StBlocks
         /\ \A b \in StBlocks : Back(b) \in Nat
<1>1. /\ segment_buffer_tail \in Slots /\ segment_buffer_head \in Slots
      /\ prep.st_block_index \in StBlocks /\ st.exec_block_index \in StBlocks
      /\ \A i \in Slots : segment_buffer[i].st_block_index \in StBlocks
  BY DEF IInv, TypeOK, SegmentTypeOK, IsrTypeOK, PrepTypeOK
<1>2. Slots \subseteq Nat /\ StBlocks \subseteq Nat
  BY SizeAssumption DEF Slots, StBlocks
<1> QED
  BY <1>1, <1>2, PosRange, BackRange

-----------------------------------------------------------------------------
(* What a step does to the pipeline, as far as the invariant can tell.     *)

\* Nothing moves; at most the slot at the head, which is not queued, is written.
Quiet ==
  /\ UNCHANGED <<segment_buffer_head, segment_buffer_tail, st, st_block_buffer>>
  /\ \A i \in Slots \ {segment_buffer_head} : segment_buffer'[i] = segment_buffer[i]
  /\ prep'.st_block_index = prep.st_block_index
  /\ BlockOpen' <=> BlockOpen

\* A new block is loaded: the next block slot is taken and overwritten.
Load ==
  /\ UNCHANGED <<segment_buffer, segment_buffer_head, segment_buffer_tail, st>>
  /\ Count <= SEGMENT_BUFFER_SIZE - 2
  /\ ~BlockOpen /\ BlockOpen'
  /\ prep'.st_block_index = st_next_block_index(prep.st_block_index)
  /\ \A b \in StBlocks \ {prep'.st_block_index} : st_block_buffer'[b] = st_block_buffer[b]

\* st_update_plan_block_parameters() leaves the block open, or leaves it closed.
LEMMA UpdateKeepsOpen ==
  ASSUME PrepTypeOK, st_update_plan_block_parameters, pc # "release", pc' # "release"
  PROVE  /\ BlockOpen' <=> BlockOpen
         /\ prep'.st_block_index = prep.st_block_index
         /\ prep'.steps_remaining = prep.steps_remaining
         /\ prep'.recalculate \/ pl_block' # NULL => prep.recalculate \/ pl_block # NULL
  BY DEF PrepTypeOK, st_update_plan_block_parameters, BlockOpen

\* Filling the head slot leaves every other slot alone.
LEMMA WriteAtHead ==
  ASSUME SegmentTypeOK, NEW n, NEW last, WriteSegment(n, last)
  PROVE  \A i \in Slots \ {segment_buffer_head} : segment_buffer'[i] = segment_buffer[i]
  BY DEF SegmentTypeOK, WriteSegment

\* Every step is one of these.
LEMMA StepEffect ==
  ASSUME IInv, [Next]_vars
  PROVE  Quiet \/ Load \/ Release \/ StepperTick \/ Abort
<1> USE DEF IInv, TypeOK
<1>1. CASE PlanBufferLine \/ FeedHold \/ CycleStop
  <2>1. pc = "main" /\ pc' # "release"
    BY <1>1 DEF PlanBufferLine, FeedHold, CycleStop, AtMain, ReloadSegments
  <2>2. /\ UNCHANGED <<segmentVars, isrVars, st_block_buffer>>
        /\ UNCHANGED <<prep, pl_block>> \/ st_update_plan_block_parameters
    BY <1>1 DEF PlanBufferLine, FeedHold, CycleStop
  <2> QED
    BY <2>1, <2>2, UpdateKeepsOpen DEF Quiet, BlockOpen
<1>2. CASE Poll \/ CycleStart \/ McReset \/ WakeUp \/ PrepReturn \/ StepperShutdown
  BY <1>2 DEF Poll, CycleStart, McReset, WakeUp, PrepReturn, StepperShutdown, AtMain,
     ReloadSegments, Quiet, BlockOpen
<1>3. CASE PrepBlock
  <2>1. CASE UNCHANGED prepVars /\ pl_block # NULL
    BY <1>3, <2>1 DEF PrepBlock, Quiet, BlockOpen
  <2>2. CASE prep.recalculate
    BY <1>3, <2>2 DEF PrepBlock, Quiet, BlockOpen, plan_get_current_block, PrepTypeOK,
       PlannerTypeOK, Blocks
  <2>3. CASE ~prep.recalculate /\ pl_block = NULL
    <3>1. Count <= SEGMENT_BUFFER_SIZE - 2
      BY <1>3, NotFull DEF PrepBlock, segment_buffer_full, SegmentTypeOK, IsrTypeOK
    <3>2. ~BlockOpen /\ BlockOpen'
      BY <1>3, <2>3 DEF PrepBlock, BlockOpen
    <3> DEFINE j == st_next_block_index(prep.st_block_index)
               b == block_buffer[block_buffer_tail]
    <3>3. /\ prep' = [prep EXCEPT !.st_block_index = j, !.steps_remaining = b.steps, !.part = 0]
          /\ st_block_buffer' = [st_block_buffer EXCEPT ![j] = b.id]
          /\ UNCHANGED <<segment_buffer, segment_buffer_head, segment_buffer_tail, st>>
      BY <1>3, <2>3 DEF PrepBlock
    <3> HIDE DEF j, b
    <3>4. prep'.st_block_index = j
      BY <3>3 DEF PrepTypeOK
    <3>5. \A k \in StBlocks \ {j} : st_block_buffer'[k] = st_block_buffer[k]
      BY <3>3 DEF PrepTypeOK
    <3> QED
      BY <3>1, <3>2, <3>3, <3>4, <3>5 DEF Load, j
  <2> QED
    BY <1>3, <2>1, <2>2, <2>3 DEF PrepBlock
<1>4. CASE SegmentInBlock
  <2>1. PICK n \in 1 .. prep.steps_remaining - 1, part \in Parts :
          /\ WriteSegment(n, FALSE)
          /\ prep' = [prep EXCEPT !.steps_remaining = prep.steps_remaining - n, !.part = part]
    BY <1>4, InBlockTakesSteps DEF IInv, TypeOK
  <2> QED
    BY <1>4, <2>1, WriteAtHead DEF SegmentInBlock, Quiet, BlockOpen, PrepTypeOK, HeadInv
<1>5. CASE SegmentEndsBlock
  BY <1>5, WriteAtHead DEF SegmentEndsBlock, Quiet, BlockOpen, PrepTypeOK, HeadInv
<1>6. CASE HoldWithoutStep
  BY <1>6, WriteAtHead DEF HoldWithoutStep, Quiet, BlockOpen, HeadInv
<1>7. CASE UNCHANGED vars
  BY <1>7 DEF vars, Quiet, BlockOpen
<1> QED
  BY <1>1, <1>2, <1>3, <1>4, <1>5, <1>6, <1>7 DEF Next, Protocol, Prep, Stepper

-----------------------------------------------------------------------------
(* Each part of the invariant is kept.                                     *)

\* A Quiet step keeps positions, distances and every queued segment.
LEMMA QuietKeeps ==
  ASSUME TypeOK, Quiet
  PROVE  /\ Count' = Count /\ Open' = Open
         /\ \A i \in Slots : Pos(i)' = Pos(i)
         /\ \A b \in StBlocks : Back(b)' = Back(b)
         /\ \A i \in Slots : Pos(i) < Count => segment_buffer'[i] = segment_buffer[i]
<1> USE DEF TypeOK, Quiet
<1>1. Count' = Count /\ (\A i \in Slots : Pos(i)' = Pos(i))
  BY DEF Count, Pos
<1>2. Open' = Open
  BY DEF Open
<1>3. \A b \in StBlocks : Back(b)' = Back(b)
  BY DEF Back
<1>4. ASSUME NEW i \in Slots, Pos(i) < Count PROVE segment_buffer'[i] = segment_buffer[i]
  <2>1. Pos(segment_buffer_head) = Count /\ Count \in Nat
    BY PosRange DEF SegmentTypeOK, IsrTypeOK, Slots
  <2>2. i # segment_buffer_head
    BY <1>4, <2>1
  <2> QED
    BY <1>4, <2>2
<1> QED
  BY <1>1, <1>2, <1>3, <1>4

\* A Release step adds a segment of the block in prep.
LEMMA ReleaseKeeps ==
  ASSUME IInv, Release
  PROVE  /\ Count' = Count + 1 /\ Open = 1 /\ Open' \in {0, 1}
         /\ \A i \in Slots : Pos(i)' = Pos(i)
         /\ \A b \in StBlocks : Back(b)' = Back(b)
         /\ \A i \in Slots : Pos(i) = Count =>
              /\ segment_buffer[i].st_block_index = prep.st_block_index
              /\ segment_buffer[i].n_step > 0
<1> USE DEF IInv, TypeOK, SegmentTypeOK, IsrTypeOK
<1>1. /\ Count' = Count + 1
      /\ \A i \in Slots : Pos(i)' = Pos(i)
      /\ \A i \in Slots : Pos(i) = Count => i = segment_buffer_head
  <2>1. Count <= SEGMENT_BUFFER_SIZE - 2
    BY DEF Release, HeadInv
  <2>2. /\ segment_buffer_head' = segment_next_head
        /\ segment_buffer_tail' = segment_buffer_tail
    BY DEF Release
  <2> QED
    BY <2>1, <2>2, HeadAdvance
<1>2. Open = 1 /\ Open' \in {0, 1}
  BY DEF Release, Open, BlockOpen
<1>3. \A b \in StBlocks : Back(b)' = Back(b)
  BY DEF Release, Back
<1>4. /\ segment_buffer[segment_buffer_head].st_block_index = prep.st_block_index
      /\ segment_buffer[segment_buffer_head].n_step > 0
  BY DEF Release, HeadInv
<1> QED
  BY <1>1, <1>2, <1>3, <1>4

\* An interrupt executes the oldest segment, and drops it or keeps it.
LEMMA TickKeeps ==
  ASSUME IInv, StepperTick
  PROVE  /\ Count > 0 /\ Open' = Open
         /\ UNCHANGED <<segment_buffer, st_block_buffer, prep, segment_buffer_head>>
         /\ \A b \in StBlocks : Back(b)' = Back(b)
         /\ st'.exec_block_index = segment_buffer[segment_buffer_tail].st_block_index
         /\ st'.counters = st_block_buffer[st'.exec_block_index]
         /\ \/ /\ segment_buffer_tail' = segment_buffer_tail
               /\ st'.exec_segment = segment_buffer_tail /\ st'.step_count > 0
            \/ /\ segment_buffer_tail' = next_slot(segment_buffer_tail)
               /\ st'.exec_segment = NULL
<1> USE DEF IInv, TypeOK, SegmentTypeOK, IsrTypeOK
<1>1. Count > 0
  BY OldestQueued DEF StepperTick, ExecInv
<1>2. /\ Open' = Open
      /\ UNCHANGED <<segment_buffer, st_block_buffer, prep, segment_buffer_head>>
  BY DEF StepperTick, Open, BlockOpen
<1>3. \A b \in StBlocks : Back(b)' = Back(b)
  BY <1>2 DEF Back
<1> DEFINE s == LoadSegment
<1>4. /\ s.exec_segment = segment_buffer_tail
      /\ s.exec_block_index = segment_buffer[segment_buffer_tail].st_block_index
      /\ s.counters = st_block_buffer[s.exec_block_index]
      /\ s.step_count \in Nat /\ s.step_count > 0
  <2>1. Pos(segment_buffer_tail) = 0 /\ segment_buffer[segment_buffer_tail].n_step > 0
    <3>1. Pos(segment_buffer_tail) = 0
      BY SizeAssumption DEF Pos, Slots
    <3> QED
      BY <1>1, <3>1 DEF StepsInv
  <2>2. CASE st.exec_segment = NULL
    BY <1>1, <2>1, <2>2 DEF LoadSegment, CountersInv
  <2>3. CASE st.exec_segment # NULL
    BY <1>1, <2>3 DEF LoadSegment, CountersInv, ExecInv
  <2> QED
    BY <2>2, <2>3
<1>5. s \in [exec_segment : Slots, step_count : Nat, exec_block_index : StBlocks,
             counters : Nat]
  BY DEF LoadSegment, PrepTypeOK
<1>6. \/ /\ s.step_count = 1 /\ st' = [s EXCEPT !.step_count = 0, !.exec_segment = NULL]
         /\ segment_buffer_tail' = next_slot(segment_buffer_tail)
      \/ /\ s.step_count # 1 /\ st' = [s EXCEPT !.step_count = @ - 1]
         /\ segment_buffer_tail' = segment_buffer_tail
  BY DEF StepperTick
<1> HIDE DEF s
<1>7. /\ st'.exec_block_index = segment_buffer[segment_buffer_tail].st_block_index
      /\ st'.counters = st_block_buffer[st'.exec_block_index]
  <2>1. st'.exec_block_index = s.exec_block_index /\ st'.counters = s.counters
    BY <1>5, <1>6
  <2> QED BY <1>4, <2>1
<1>8. \/ /\ segment_buffer_tail' = segment_buffer_tail
         /\ st'.exec_segment = segment_buffer_tail /\ st'.step_count > 0
      \/ /\ segment_buffer_tail' = next_slot(segment_buffer_tail)
         /\ st'.exec_segment = NULL
  <2>1. CASE s.step_count = 1
    BY <1>5, <1>6, <2>1
  <2>2. CASE s.step_count # 1
    <3>1. st' = [s EXCEPT !.step_count = @ - 1] /\ segment_buffer_tail' = segment_buffer_tail
      BY <1>6, <2>2
    <3>2. s.step_count - 1 > 0
      BY <1>4, <2>2
    <3>3. st'.exec_segment = s.exec_segment /\ st'.step_count = s.step_count - 1
      BY <1>5, <3>1
    <3> QED
      BY <1>4, <3>1, <3>2, <3>3
  <2> QED
    BY <2>1, <2>2
<1> QED
  BY <1>1, <1>2, <1>3, <1>7, <1>8

\* After a reset the rings are empty and nothing executes.
LEMMA AbortEffect ==
  ASSUME Abort
  PROVE  /\ Count' = 0 /\ Open' = 0 /\ ~BlockOpen' /\ st'.exec_segment = NULL
         /\ st'.exec_block_index = 0 /\ prep'.st_block_index = 0
         /\ pc' = "main"
         /\ \A i \in Slots : Pos(i)' = i
  BY SizeAssumption
     DEF Abort, AtMain, Count, Pos, Slots, Open, BlockOpen, PrepReset, StReset

\* Between two segments of the loop there is room for one.
LEMMA StepHeadInv ==
  ASSUME IInv, [Next]_vars
  PROVE  HeadInv'
<1> USE DEF IInv, TypeOK
<1>1. CASE pc' \notin {"segment", "release"}
  BY <1>1 DEF HeadInv
<1>2. CASE PrepBlock
  <2>1. Count <= SEGMENT_BUFFER_SIZE - 2 /\ Count' = Count
    BY <1>2, NotFull DEF PrepBlock, segment_buffer_full, SegmentTypeOK, IsrTypeOK, Count
  <2>2. pl_block' # NULL /\ pc' = "segment"
    BY <1>2 DEF PrepBlock
  <2> QED
    BY <2>1, <2>2 DEF HeadInv
<1>3. CASE SegmentInBlock
  <2>1. PICK n \in 1 .. prep.steps_remaining - 1, part \in Parts :
          /\ WriteSegment(n, FALSE)
          /\ prep' = [prep EXCEPT !.steps_remaining = prep.steps_remaining - n, !.part = part]
    BY <1>3, InBlockTakesSteps DEF IInv, TypeOK
  <2>2. n > 0
    BY <2>1 DEF PrepTypeOK
  <2> QED
    BY <1>3, <2>1, <2>2 DEF SegmentInBlock, HeadInv, WriteSegment, Count, PrepTypeOK,
       SegmentTypeOK
<1>4. CASE SegmentEndsBlock
  <2>1. prep.steps_remaining > 0
    BY <1>4 DEF SegmentEndsBlock, HeadInv, PrepInv
  <2> QED
    BY <1>4, <2>1 DEF SegmentEndsBlock, HeadInv, WriteSegment, Count, PrepTypeOK,
       SegmentTypeOK
<1>5. CASE StepperTick
  <2>1. Count' <= Count
    <3>1. CASE segment_buffer_tail' = segment_buffer_tail
      BY <1>5, <3>1, TickKeeps, RingTypes DEF Count
    <3>2. CASE segment_buffer_tail' = next_slot(segment_buffer_tail)
      <4>1. Count > 0 /\ segment_buffer_head' = segment_buffer_head
        BY <1>5, TickKeeps
      <4> HIDE DEF IInv
      <4> QED
        BY <3>2, <4>1, TailAdvance, RingTypes
    <3> QED
      BY <1>5, <3>1, <3>2, TickKeeps
  <2>2. UNCHANGED <<pc, pl_block, prep, segment_buffer, segment_buffer_head>>
    BY <1>5 DEF StepperTick
  <2> QED
    <3>1. Count \in Nat /\ Count' \in Int /\ SEGMENT_BUFFER_SIZE \in Nat
      BY <1>5, TickKeeps, RingTypes, IndexTypes, SizeAssumption DEF Count, Slots
    <3> QED
      BY <2>1, <2>2, <3>1 DEF HeadInv
<1>6. CASE UNCHANGED <<pc, pl_block, prep, segmentVars, segment_buffer_tail>>
  BY <1>6 DEF HeadInv, Count
<1> QED
  BY <1>1, <1>2, <1>3, <1>4, <1>5, <1>6
     DEF Next, Protocol, Prep, Stepper, vars, PlanBufferLine, Poll, FeedHold, CycleStart,
         CycleStop, McReset, Abort, WakeUp, PrepReturn, HoldWithoutStep, Release,
         StepperShutdown, AtMain, ReloadSegments

\* The executing segment stays the oldest.
LEMMA StepExecInv ==
  ASSUME IInv, [Next]_vars
  PROVE  ExecInv'
<1> USE DEF IInv, TypeOK, ExecInv
<1>1. CASE Quiet
  <2>1. Count > 0 => segment_buffer'[segment_buffer_tail] = segment_buffer[segment_buffer_tail]
    BY <1>1, PosRange, SizeAssumption DEF Quiet, Pos, SegmentTypeOK, IsrTypeOK, Slots
  <2>2. Count' = Count
    BY <1>1, QuietKeeps
  <2> QED
    BY <1>1, <2>1, <2>2 DEF Quiet
<1>2. CASE Load
  <2>1. Count' = Count
    BY <1>2 DEF Load, Count
  <2> QED
    BY <1>2, <2>1 DEF Load
<1>3. CASE Release
  <2>1. Count' = Count + 1 /\ Count \in Nat
    BY <1>3, ReleaseKeeps, RingTypes
  <2> QED
    BY <1>3, <2>1 DEF Release
<1>4. CASE StepperTick
  <2>1. CASE segment_buffer_tail' = segment_buffer_tail
    <3>1. Count' = Count
      BY <1>4, <2>1, TickKeeps DEF Count
    <3> QED
      BY <1>4, <2>1, <3>1, TickKeeps DEF SegmentTypeOK, IsrTypeOK, next_slot
  <2>2. CASE segment_buffer_tail' # segment_buffer_tail
    BY <1>4, <2>2, TickKeeps
  <2> QED
    BY <2>1, <2>2
<1>5. CASE Abort
  BY <1>5, AbortEffect
<1> QED
  BY <1>1, <1>2, <1>3, <1>4, <1>5, StepEffect

\* No block slot comes round again while a queued segment refers to it.
LEMMA StepWindowInv ==
  ASSUME IInv, [Next]_vars
  PROVE  WindowInv'
<1>1. SUFFICES ASSUME NEW i \in Slots, Pos(i)' < Count'
               PROVE  Back(segment_buffer[i].st_block_index)' + Pos(i)' < Count' + Open'
  BY DEF WindowInv
<1> DEFINE b == segment_buffer[i].st_block_index
<1>2. b \in StBlocks /\ Back(b) \in Nat /\ Pos(i) \in Nat /\ Count \in Nat
  BY RingTypes
<1>3. Pos(i) < Count => Back(b) + Pos(i) < Count + Open
  BY DEF IInv, WindowInv
<1>4. Open \in {0, 1} /\ Open' \in {0, 1}
  BY DEF Open
<1>5. CASE Quiet
  <2>1. TypeOK
    BY DEF IInv
  <2>2. Pos(i)' = Pos(i) /\ Count' = Count /\ Open' = Open /\ Back(b)' = Back(b)'
    BY <1>2, <1>5, <2>1, QuietKeeps
  <2>3. segment_buffer'[i] = segment_buffer[i]
    BY <1>1, <1>5, <2>1, <2>2, QuietKeeps
  <2>4. Back(segment_buffer[i].st_block_index)' = Back(b)
    BY <1>2, <1>5, <2>1, <2>3, QuietKeeps DEF Back
  <2> QED
    BY <1>1, <1>3, <2>2, <2>4
<1>6. CASE Load
  <2>1. Pos(i)' = Pos(i) /\ Count' = Count /\ Open = 0 /\ Open' = 1
    BY <1>6 DEF Load, Pos, Count, Open
  <2>2. Back(b) < SEGMENT_BUFFER_SIZE - 2
    BY <1>1, <1>2, <1>3, <1>6, <2>1, SizeAssumption DEF Load
  <2>3. Back(segment_buffer[i].st_block_index)' = Back(b) + 1
    BY <1>2, <1>6, <2>2, BackAdvance, RingTypes DEF Load, Back
  <2> QED
    BY <1>1, <1>2, <1>3, <2>1, <2>3
<1>7. CASE Release
  <2>1. /\ Pos(i)' = Pos(i) /\ Count' = Count + 1 /\ Open = 1
        /\ Pos(i) = Count => b = prep.st_block_index
    BY <1>7, ReleaseKeeps
  <2>2. Back(segment_buffer[i].st_block_index)' = Back(b)
    BY <1>2, <1>7, ReleaseKeeps DEF Release, Back
  <2>3. b = prep.st_block_index => Back(b) = 0
    BY <1>2, BackRange
  <2> QED
    BY <1>1, <1>2, <1>3, <1>4, <2>1, <2>2, <2>3
<1>8. CASE StepperTick
  <2>1. Open' = Open /\ Back(segment_buffer[i].st_block_index)' = Back(b)
    BY <1>2, <1>8, TickKeeps DEF Back
  <2>2. CASE segment_buffer_tail' = segment_buffer_tail
    <3>1. Pos(i)' = Pos(i) /\ Count' = Count
      BY <1>8, <2>2, TickKeeps DEF Pos, Count
    <3> QED
      BY <1>1, <1>3, <2>1, <3>1
  <2>3. CASE segment_buffer_tail' = next_slot(segment_buffer_tail)
    <3>1. Count > 0 /\ segment_buffer_head' = segment_buffer_head
      BY <1>8, TickKeeps
    <3>2. Count' = Count - 1 /\ Pos(i) = Pos(i)' + 1
      BY <1>1, <2>3, <3>1, TailAdvance, RingTypes
    <3>3. Pos(i)' = Pos(i) - 1
      BY <3>2, RingTypes, SizeAssumption, <1>8, TickKeeps, IndexTypes DEF Pos, Slots
    <3> QED
      BY <1>1, <1>2, <1>3, <1>4, <2>1, <3>2, <3>3
  <2> QED
    BY <1>8, <2>2, <2>3, TickKeeps
<1>9. CASE Abort
  <2>1. Count' = 0 /\ Pos(i)' = i /\ i \in Nat
    BY <1>9, AbortEffect, SizeAssumption DEF Slots
  <2> QED
    BY <1>1, <2>1
<1> QED
  BY <1>5, <1>6, <1>7, <1>8, <1>9, StepEffect

\* Equal block indices mean equal moves.
LEMMA StepCountersInv ==
  ASSUME IInv, [Next]_vars
  PROVE  CountersInv'
<1> DEFINE b == segment_buffer[segment_buffer_tail].st_block_index
           E == st.exec_block_index
<1>1. /\ b \in StBlocks /\ E \in StBlocks /\ prep.st_block_index \in StBlocks
      /\ Back(b) \in Nat /\ Back(E) \in Nat /\ Count \in Nat /\ Open \in {0, 1}
  BY RingTypes DEF Open
<1>2. Pos(segment_buffer_tail) = 0 /\ segment_buffer_tail \in Slots
  BY RingTypes, SizeAssumption DEF Pos, Slots
<1>3. Count > 0 => Back(b) < Count + Open
  BY <1>1, <1>2 DEF IInv, WindowInv
<1>4. CountersInv
  BY DEF IInv
<1>5. CASE Quiet
  <2>1. TypeOK
    BY DEF IInv
  <2>2. Count' = Count /\ Open' = Open
    BY <1>5, <2>1, QuietKeeps
  <2>3. Count > 0 => segment_buffer'[segment_buffer_tail] = segment_buffer[segment_buffer_tail]
    BY <1>2, <1>5, <2>1, QuietKeeps
  <2>4. Back(st.exec_block_index)' = Back(E)
    BY <1>1, <1>5 DEF Quiet, Back
  <2> QED
    BY <1>4, <1>5, <2>2, <2>3, <2>4 DEF Quiet, CountersInv
<1>6. CASE Load
  <2>1. Count' = Count /\ Open = 0 /\ Open' = 1 /\ BlockOpen'
    BY <1>6 DEF Load, Count, Open
  <2>2. ASSUME NEW d \in StBlocks, Back(d) < SEGMENT_BUFFER_SIZE - 2
        PROVE  /\ Back(d)' = Back(d) + 1 /\ d # prep'.st_block_index
               /\ st_block_buffer'[d] = st_block_buffer[d]
    BY <1>1, <1>6, <2>2, BackAdvance DEF Load
  <2>3. CASE Count > 0
    <3>1. Back(b) < SEGMENT_BUFFER_SIZE - 2
      BY <1>1, <1>3, <1>6, <2>1, <2>3, SizeAssumption DEF Load
    <3>2. st_block_buffer'[b] = st_block_buffer[b]
      BY <1>1, <2>2, <3>1
    <3> QED
      BY <1>4, <1>6, <2>1, <2>3, <3>2 DEF Load, CountersInv
  <2>4. CASE Count = 0
    <3>1. Back(E) <= 0
      BY <1>4, <2>1, <2>4 DEF CountersInv
    <3>2. st'.exec_block_index = E
      BY <1>6 DEF Load
    <3>3. Back(st.exec_block_index)' = Back(E) + 1 /\ E # prep'.st_block_index
      BY <1>1, <2>2, <3>1, <3>2, SizeAssumption DEF Back
    <3> QED
      BY <1>1, <2>1, <2>4, <3>1, <3>2, <3>3 DEF CountersInv
  <2> QED
    BY <1>1, <2>3, <2>4
<1>7. CASE Release
  <2>1. Count' = Count + 1 /\ Open = 1 /\ BlockOpen
    BY <1>7, ReleaseKeeps DEF Open
  <2>2. UNCHANGED <<segment_buffer, segment_buffer_tail, st, st_block_buffer>>
    BY <1>7 DEF Release
  <2>3. Count = 0 => b = prep.st_block_index
    BY <1>2, <1>7, ReleaseKeeps
  <2>4. b = E => st.counters = st_block_buffer[E]
    BY <1>1, <1>4, <2>1, <2>3 DEF CountersInv
  <2> QED
    BY <1>1, <2>1, <2>2, <2>4 DEF CountersInv
<1>8. CASE StepperTick
  <2>1. /\ st'.exec_block_index = b /\ st'.counters = st_block_buffer'[st'.exec_block_index]
        /\ UNCHANGED prep /\ Open' = Open /\ Count > 0
    BY <1>8, TickKeeps
  <2>2. Count' = 0 => Back(st.exec_block_index)' <= Open'
    <3>1. Back(st.exec_block_index)' = Back(b)
      BY <2>1 DEF Back
    <3>2. Count' = 0 => Count = 1
      <4>1. CASE segment_buffer_tail' = segment_buffer_tail
        BY <1>8, <2>1, <4>1, TickKeeps DEF Count
      <4>2. CASE segment_buffer_tail' = next_slot(segment_buffer_tail)
        <5>1. segment_buffer_head' = segment_buffer_head
          BY <1>8, TickKeeps
        <5> QED
          BY <1>1, <2>1, <4>2, <5>1, TailAdvance, RingTypes
      <4> QED
        BY <1>8, <4>1, <4>2, TickKeeps
    <3> QED
      BY <1>1, <1>3, <2>1, <3>1, <3>2
  <2> QED
    BY <2>1, <2>2 DEF CountersInv
<1>9. CASE Abort
  <2>1. Back(st.exec_block_index)' = 0
    BY <1>9, AbortEffect, SizeAssumption DEF Back
  <2> QED
    BY <1>9, <2>1, AbortEffect DEF CountersInv
<1> QED
  BY <1>5, <1>6, <1>7, <1>8, <1>9, StepEffect

\* The block in prep stays the oldest of the planner ring, and unfinished.
LEMMA StepPrepInv ==
  ASSUME IInv, [Next]_vars
  PROVE  PrepInv'
<1>1. PrepInv /\ PrepTypeOK /\ PlannerTypeOK /\ StepsInv
  BY DEF IInv, TypeOK
<1> USE <1>1 DEF PrepInv
<1>2. CASE /\ UNCHANGED <<prep, pl_block>> \/ st_update_plan_block_parameters
           /\ UNCHANGED <<block_buffer_tail, block_buffer_head>>
  BY <1>2 DEF st_update_plan_block_parameters, PrepTypeOK
<1>3. CASE PlanBufferLine
  <2>1. block_buffer_tail' = block_buffer_tail /\ block_buffer_head' # block_buffer_tail
    BY <1>3 DEF PlanBufferLine, plan_check_full_buffer
  <2>2. UNCHANGED <<prep, pl_block>> \/ st_update_plan_block_parameters
    BY <1>3 DEF PlanBufferLine
  <2> QED
    BY <2>1, <2>2 DEF st_update_plan_block_parameters, PrepTypeOK
<1>4. CASE PrepBlock
  <2>1. UNCHANGED <<block_buffer_tail, block_buffer_head>>
    BY <1>4 DEF PrepBlock
  <2>2. CASE UNCHANGED prepVars
    BY <2>1, <2>2
  <2>3. CASE pl_block = NULL
    <3>1. /\ pl_block' = block_buffer_tail /\ block_buffer_head # block_buffer_tail
          /\ ~prep'.recalculate
          /\ prep'.steps_remaining = IF prep.recalculate THEN prep.steps_remaining
                                     ELSE block_buffer[block_buffer_tail].steps
      BY <1>4, <2>3 DEF PrepBlock, plan_get_current_block, PrepTypeOK
    <3>2. InRing(block_buffer_tail, block_buffer_tail, block_buffer_head)
      BY <3>1, SizeAssumption DEF InRing, PlannerTypeOK, Blocks
    <3>3. block_buffer[block_buffer_tail].steps > 0
      BY <3>2 DEF StepsInv, PlannerTypeOK
    <3> QED
      BY <2>1, <3>1, <3>3
  <2> QED
    BY <1>4, <2>2, <2>3 DEF PrepBlock
<1>5. CASE SegmentInBlock
  <2>1. PICK n \in 1 .. prep.steps_remaining - 1, part \in Parts :
          prep' = [prep EXCEPT !.steps_remaining = prep.steps_remaining - n, !.part = part]
    BY <1>5, InBlockTakesSteps DEF IInv, TypeOK
  <2>2. /\ prep'.steps_remaining = prep.steps_remaining - n
        /\ prep'.recalculate = prep.recalculate
    BY <2>1 DEF PrepTypeOK
  <2>3. prep'.steps_remaining > 0
    BY <2>1, <2>2 DEF PrepTypeOK
  <2>4. UNCHANGED <<block_buffer_tail, block_buffer_head, pl_block>>
    BY <1>5 DEF SegmentInBlock
  <2>5. block_buffer_head # block_buffer_tail
    BY <1>5 DEF SegmentInBlock, IInv, HeadInv
  <2> QED
    BY <2>2, <2>3, <2>4, <2>5
<1>6. CASE SegmentEndsBlock
  <2>1. pl_block # NULL /\ ~prep.recalculate
    BY <1>6 DEF SegmentEndsBlock, IInv, HeadInv
  <2>2. ~prep'.recalculate /\ pl_block' = NULL
    BY <1>6, <2>1 DEF SegmentEndsBlock, PrepTypeOK
  <2> QED
    BY <2>2
<1>7. CASE Abort
  BY <1>7 DEF Abort, PrepReset
<1> QED
  BY <1>2, <1>3, <1>4, <1>5, <1>6, <1>7
     DEF Next, Protocol, Prep, Stepper, vars, Poll, FeedHold, CycleStart, CycleStop, McReset,
         WakeUp, PrepReturn, HoldWithoutStep, Release, StepperTick, StepperShutdown

\* No part of the pipeline holds a piece of a move without steps: the queued segments
LEMMA StepSegmentSteps ==
  ASSUME IInv, [Next]_vars,
         NEW i \in Slots, Pos(i)' < Count'
  PROVE  segment_buffer'[i].n_step > 0
<1>1. Pos(i) < Count => segment_buffer[i].n_step > 0
  BY DEF IInv, StepsInv
<1>2. TypeOK /\ Pos(i) \in Nat /\ Count \in Nat
  BY RingTypes DEF IInv
<1>3. CASE Quiet
  BY <1>1, <1>2, <1>3, QuietKeeps
<1>4. CASE Load
  BY <1>1, <1>4 DEF Load, Pos, Count
<1>5. CASE Release
  <2>1. /\ Pos(i)' = Pos(i) /\ Count' = Count + 1
        /\ Pos(i) = Count => segment_buffer[i].n_step > 0
    BY <1>5, ReleaseKeeps
  <2>2. UNCHANGED segment_buffer
    BY <1>5 DEF Release
  <2> QED
    BY <1>1, <1>2, <2>1, <2>2
<1>6. CASE StepperTick
  <2>1. UNCHANGED segment_buffer
    BY <1>6, TickKeeps
  <2>2. CASE segment_buffer_tail' = segment_buffer_tail
    BY <1>1, <1>6, <2>1, <2>2, TickKeeps DEF Pos, Count
  <2>3. CASE segment_buffer_tail' = next_slot(segment_buffer_tail)
    <3>1. Count > 0 /\ segment_buffer_head' = segment_buffer_head
      BY <1>6, TickKeeps
    <3>2. Count' = Count - 1 /\ Pos(i) = Pos(i)' + 1
      BY <2>3, <3>1, TailAdvance, RingTypes
    <3>3. Pos(i)' = Pos(i) - 1
      BY <1>6, <3>2, RingTypes, SizeAssumption, TickKeeps, IndexTypes DEF Pos, Slots
    <3> QED
      BY <1>1, <1>2, <2>1, <3>2, <3>3
  <2> QED
    BY <1>6, <2>2, <2>3, TickKeeps
<1>7. CASE Abort
  <2>1. Count' = 0 /\ Pos(i)' = i /\ i \in Nat
    BY <1>7, AbortEffect, SizeAssumption DEF Slots
  <2> QED
    BY <2>1
<1> QED
  BY <1>3, <1>4, <1>5, <1>6, <1>7, StepEffect

\* and the blocks of the planner ring.
LEMMA StepPlannerSteps ==
  ASSUME IInv, [Next]_vars,
         NEW i \in Blocks, InRing(i, block_buffer_tail, block_buffer_head)'
  PROVE  block_buffer'[i].steps > 0
<1> USE SizeAssumption DEF InRing, plan_next_block_index, Blocks
<1>1. /\ InRing(i, block_buffer_tail, block_buffer_head) => block_buffer[i].steps > 0
      /\ PlannerTypeOK
  BY DEF IInv, TypeOK, StepsInv
<1>2. CASE PlanBufferLine
  <2>1. PICK n \in StepEvents, c \in CallbackChoices :
          block_buffer' = [block_buffer EXCEPT ![block_buffer_head] =
                             [id |-> next_id, steps |-> n, callback |-> c]]
    BY <1>2 DEF PlanBufferLine
  <2>2. n > 0
    BY ValueAssumption
  <2>3. CASE i = block_buffer_head
    BY <1>1, <2>1, <2>2, <2>3 DEF PlannerTypeOK
  <2>4. CASE i # block_buffer_head
    <3>1. /\ block_buffer_head' = plan_next_block_index(block_buffer_head)
          /\ block_buffer_tail' = block_buffer_tail
          /\ block_buffer_tail # plan_next_block_index(block_buffer_head)
      BY <1>2 DEF PlanBufferLine, plan_check_full_buffer
    <3>2. InRing(i, block_buffer_tail, block_buffer_head)
      BY <1>1, <2>4, <3>1 DEF PlannerTypeOK
    <3>3. block_buffer'[i] = block_buffer[i]
      BY <1>1, <2>1, <2>4 DEF PlannerTypeOK
    <3> QED
      BY <1>1, <3>2, <3>3
  <2> QED
    BY <2>3, <2>4
<1>3. CASE SegmentEndsBlock
  <2>1. block_buffer_head # block_buffer_tail
    BY <1>3 DEF SegmentEndsBlock, IInv, HeadInv, PrepInv
  <2> QED
    BY <1>1, <1>3, <2>1 DEF SegmentEndsBlock, PlannerTypeOK
<1>4. CASE Abort
  BY <1>4 DEF Abort
<1>5. CASE UNCHANGED <<block_buffer, block_buffer_tail, block_buffer_head>>
  BY <1>1, <1>5
<1> QED
  BY <1>2, <1>3, <1>4, <1>5
     DEF Next, Protocol, Prep, Stepper, vars, Poll, FeedHold, CycleStart, CycleStop, McReset,
         WakeUp, PrepReturn, PrepBlock, SegmentInBlock, HoldWithoutStep, Release, StepperTick,
         StepperShutdown

-----------------------------------------------------------------------------
(* The theorems.                                                           *)

\* The invariant holds initially and is kept by every step.
LEMMA InitIInv == Init => IInv
<1> SUFFICES ASSUME Init PROVE IInv
  OBVIOUS
<1>1. TypeOK
  BY InitTypeOK
<1>2. /\ Count = 0 /\ Open = 0 /\ ~BlockOpen /\ Back(st.exec_block_index) = 0
      /\ prep.st_block_index = st.exec_block_index
      /\ \A i \in Slots : Pos(i) = i
  BY SizeAssumption DEF Init, Count, Pos, Open, BlockOpen, Back, PrepReset, StReset, Slots
<1>3. \A i \in Slots : ~(Pos(i) < Count)
  BY <1>2, SizeAssumption DEF Slots
<1>4. HeadInv /\ ExecInv
  BY DEF Init, HeadInv, ExecInv, StReset
<1>5. WindowInv /\ CountersInv
  BY <1>2, <1>3 DEF WindowInv, CountersInv
<1>6. PrepInv /\ StepsInv
  BY <1>3, SizeAssumption DEF Init, PrepInv, StepsInv, PrepReset, InRing, Blocks
<1> QED
  BY <1>1, <1>4, <1>5, <1>6 DEF IInv

LEMMA StepIInv == IInv /\ [Next]_vars => IInv'
<1> SUFFICES ASSUME IInv, [Next]_vars PROVE IInv'
  OBVIOUS
<1>1. StepsInv'
  <2>1. \A i \in Slots : Pos(i)' < Count' => segment_buffer'[i].n_step > 0
    BY StepSegmentSteps
  <2>2. \A i \in Blocks : InRing(i, block_buffer_tail, block_buffer_head)'
                            => block_buffer'[i].steps > 0
    BY StepPlannerSteps
  <2> QED
    BY <2>1, <2>2 DEF StepsInv, InRing
<1> QED
  BY <1>1, StepTypeOK, StepHeadInv, StepExecInv, StepWindowInv, StepCountersInv,
     StepPrepInv DEF IInv

THEOREM Invariance == Spec => []IInv
  BY InitIInv, StepIInv, PTL DEF Spec

\* Type correctness, for rings of every size.
THEOREM TypeCorrect == Spec => []TypeOK
<1>1. IInv => TypeOK
  BY DEF IInv
<1> QED
  BY <1>1, Invariance, PTL

\* The interrupt never steps one move with another move's counters: a changed
\* block index is found at every change of move, whatever the sizes of the rings,
\* the lengths of the moves and the interleaving with the interrupt.
THEOREM CountersAlwaysMatch == Spec => []CountersMatch
<1>1. IInv => CountersMatch
  BY DEF IInv, ExecInv, CountersInv, CountersMatch
<1> QED
  BY <1>1, Invariance, PTL

\* Queued and executing segments always have a step to make.
THEOREM SegmentsAlwaysHaveSteps == Spec => []SegmentsHaveSteps
<1>1. ASSUME IInv, NEW i \in Queued PROVE segment_buffer[i].n_step > 0
  <2>1. i \in Slots /\ Pos(i) < Count
    BY <1>1, RingTypes, SizeAssumption DEF Queued, InRing, Pos, Count, Slots
  <2> QED
    BY <1>1, <2>1 DEF IInv, StepsInv
<1>2. IInv => SegmentsHaveSteps
  BY <1>1 DEF SegmentsHaveSteps, IInv, ExecInv
<1> QED
  BY <1>2, Invariance, PTL

\* Nothing the interrupt has still to read is overwritten.
THEOREM QueuedDataIsStable == Spec => QueuedDataStable
<1>1. ASSUME IInv, [Next]_vars, NEW i \in Queued, i \in Queued'
      PROVE  /\ segment_buffer'[i] = segment_buffer[i]
             /\ st_block_buffer'[segment_buffer[i].st_block_index]
                  = st_block_buffer[segment_buffer[i].st_block_index]
  <2>1. i \in Slots /\ Pos(i) < Count
    BY <1>1, RingTypes, SizeAssumption DEF Queued, InRing, Pos, Count, Slots
  <2>2. segment_buffer[i].st_block_index \in StBlocks /\ Count \in Nat /\ Pos(i) \in Nat
        /\ Back(segment_buffer[i].st_block_index) \in Nat /\ TypeOK
    BY <1>1, <2>1, RingTypes DEF IInv
  <2>3. CASE Quiet
    BY <2>1, <2>2, <2>3, QuietKeeps DEF Quiet
  <2>4. CASE Load
    <3>1. Back(segment_buffer[i].st_block_index) < SEGMENT_BUFFER_SIZE - 2
      <4>1. Open = 0
        BY <2>4 DEF Load, Open
      <4>2. Back(segment_buffer[i].st_block_index) + Pos(i) < Count + Open
        BY <1>1, <2>1 DEF IInv, WindowInv
      <4> QED
        BY <2>2, <2>4, <4>1, <4>2, SizeAssumption DEF Load
    <3>2. segment_buffer[i].st_block_index # prep'.st_block_index
      BY <1>1, <2>2, <2>4, <3>1, BackAdvance, RingTypes DEF Load
    <3> QED
      BY <2>2, <2>4, <3>2 DEF Load
  <2>5. CASE Release
    BY <2>5 DEF Release
  <2>6. CASE StepperTick
    BY <2>6 DEF StepperTick
  <2>7. CASE Abort
    <3>1. Queued' = {}
      BY <2>7 DEF Abort, Queued, InRing, Slots
    <3> QED
      BY <1>1, <3>1
  <2> QED
    BY <1>1, <2>3, <2>4, <2>5, <2>6, <2>7, StepEffect
<1>2. IInv /\ [Next]_vars =>
        [\A i \in Queued \cap Queued' :
           LET seg == segment_buffer[i]
           IN /\ segment_buffer'[i] = seg
              /\ st_block_buffer'[seg.st_block_index] = st_block_buffer[seg.st_block_index]]_vars
  BY <1>1
<1> QED
  BY <1>2, Invariance, PTL DEF Spec, QueuedDataStable

-----------------------------------------------------------------------------
(* Rest.                                                                   *)

\* A step keeps the end of a motion and the interrupt in agreement.
LEMMA StopStep ==
  ASSUME ProtocolTypeOK, MainTypeOK, timer \in BOOLEAN, StopInv, [Next]_vars
  PROVE  StopInv'
<1> USE DEF StopInv, StoppedMeansStopped, ProtocolTypeOK, MainTypeOK, AtMain
<1>1. CASE PlanBufferLine \/ Poll
  BY <1>1 DEF PlanBufferLine, Poll
<1>2. CASE FeedHold
  BY <1>2 DEF FeedHold
<1>3. CASE CycleStart
  BY <1>3 DEF CycleStart
<1>4. CASE CycleStop
  BY <1>4 DEF CycleStop
<1>5. CASE Abort
  BY <1>5 DEF Abort
<1>6. CASE WakeUp
  BY <1>6 DEF WakeUp
<1>7. CASE McReset
  BY <1>7 DEF McReset
<1>8. CASE Prep
  <2>1. UNCHANGED <<timer, state, hold_complete, cycle_stop, waking>>
    BY <1>8 DEF Prep, PrepReturn, PrepBlock, SegmentInBlock, SegmentEndsBlock, HoldWithoutStep,
       Release
  <2> QED BY <2>1
<1>9. CASE Stepper
  BY <1>9 DEF Stepper, StepperTick, StepperShutdown
<1>10. CASE UNCHANGED vars
  BY <1>10 DEF vars
<1> QED BY <1>1, <1>2, <1>3, <1>4, <1>5, <1>6, <1>7, <1>8, <1>9, <1>10 DEF Next, Protocol

\* When the machine reports IDLE, or a hold as complete, the stepper interrupt is off
\* and no stop is left to be served (protocol.c:358-359, 456-487).
THEOREM RestIsRest == Spec => []StoppedMeansStopped
<1>1. Init => StopInv
  BY DEF Init, StopInv, StoppedMeansStopped
<1>2. IInv /\ StopInv /\ [Next]_vars => StopInv'
  BY StopStep DEF IInv, TypeOK, IsrTypeOK
<1>3. StopInv => StoppedMeansStopped
  BY DEF StopInv
<1> QED BY <1>1, <1>2, <1>3, Invariance, PTL DEF Spec

-----------------------------------------------------------------------------
(* Sums.                                                                   *)

LEMMA PartSize ==
  ASSUME NEW x, NEW n \in Nat
  PROVE  IsFiniteSet({x} \X (1 .. n)) /\ Cardinality({x} \X (1 .. n)) = n
<1>1. IsFiniteSet({x}) /\ Cardinality({x}) = 1
  BY FS_Singleton
<1>2. IsFiniteSet(1 .. n) /\ Cardinality(1 .. n) = n
  BY FS_Interval
<1>3. /\ IsFiniteSet({x} \X (1 .. n))
      /\ Cardinality({x} \X (1 .. n)) = Cardinality({x}) * Cardinality(1 .. n)
  BY <1>1, <1>2, FS_Product, Zenon
<1>4. 1 * n = n
  OBVIOUS
<1> QED
  BY <1>1, <1>2, <1>3, <1>4, Zenon

LEMMA PartsFinite ==
  ASSUME NEW S, IsFiniteSet(S), NEW f, \A i \in S : f[i] \in Nat
  PROVE  IsFiniteSet(UNION {{i} \X (1 .. f[i]) : i \in S})
<1> DEFINE part == [i \in S |-> {i} \X (1 .. f[i])]
           parts == {{i} \X (1 .. f[i]) : i \in S}
<1>1. part \in Surjection(S, parts)
  BY DEF Surjection
<1>2. IsFiniteSet(parts)
  BY <1>1, FS_Surjection
<1>3. ASSUME NEW i \in S PROVE IsFiniteSet({i} \X (1 .. f[i]))
  BY <1>3, PartSize
<1>4. \A T \in parts : IsFiniteSet(T)
  BY <1>3
<1> QED
  BY <1>2, <1>4, FS_UNION

LEMMA TotalType ==
  ASSUME NEW S, IsFiniteSet(S), NEW f, \A i \in S : f[i] \in Nat
  PROVE  Total(S, f) \in Nat
  BY PartsFinite, FS_CardinalityType DEF Total

LEMMA TotalNone == ASSUME NEW f PROVE Total({}, f) = 0
<1>1. UNION {{i} \X (1 .. f[i]) : i \in {}} = {}
  OBVIOUS
<1> QED
  BY <1>1, FS_EmptySet DEF Total

LEMMA TotalAdd ==
  ASSUME NEW S, IsFiniteSet(S), NEW f, \A i \in S : f[i] \in Nat, NEW x, x \notin S, f[x] \in Nat
  PROVE  Total(S \cup {x}, f) = Total(S, f) + f[x]
<1> DEFINE all == UNION {{i} \X (1 .. f[i]) : i \in S}
           new == {x} \X (1 .. f[x])
<1>1. UNION {{i} \X (1 .. f[i]) : i \in S \cup {x}} = all \cup new
  OBVIOUS
<1>2. all \cap new = {}
  OBVIOUS
<1>3. IsFiniteSet(all)
  BY PartsFinite
<1>4. IsFiniteSet(new) /\ Cardinality(new) = f[x]
  BY PartSize
<1> HIDE DEF all, new
<1>5. Cardinality(all \cup new) = Cardinality(all) + Cardinality(new) - 0
  BY <1>2, <1>3, <1>4, FS_Union, FS_EmptySet
<1>6. Cardinality(all) \in Nat
  BY <1>3, FS_CardinalityType
<1>7. Total(S, f) = Cardinality(all) /\ Total(S \cup {x}, f) = Cardinality(all \cup new)
  BY <1>1, Zenon DEF Total, all, new
<1> QED
  BY <1>4, <1>5, <1>6, <1>7

LEMMA TotalSame ==
  ASSUME NEW S, NEW f, NEW g, \A i \in S : f[i] = g[i] PROVE Total(S, f) = Total(S, g)
<1>1. {{i} \X (1 .. f[i]) : i \in S} = {{i} \X (1 .. g[i]) : i \in S}
  OBVIOUS
<1> QED
  BY <1>1 DEF Total

LEMMA TotalRemove ==
  ASSUME NEW S, IsFiniteSet(S), NEW f, \A i \in S : f[i] \in Nat, NEW x \in S
  PROVE  Total(S, f) = Total(S \ {x}, f) + f[x]
<1>1. IsFiniteSet(S \ {x}) /\ (S \ {x}) \cup {x} = S
  BY FS_RemoveElement
<1> QED
  BY <1>1, TotalAdd, x \notin S \ {x}

LEMMA TotalPositive ==
  ASSUME NEW S, IsFiniteSet(S), NEW f, \A i \in S : f[i] \in Nat, NEW x \in S, f[x] > 0
  PROVE  Total(S, f) > 0
<1>1. Total(S \ {x}, f) \in Nat
  BY FS_RemoveElement, TotalType
<1> QED
  BY <1>1, TotalRemove

-----------------------------------------------------------------------------
(* The rings.                                                              *)

\* Segments in the pipeline, the one that is not released yet included.
Filled == Count + (IF pc = "release" THEN 1 ELSE 0)

LEMMA PipelineFacts ==
  ASSUME IInv
  PROVE  /\ Pipeline = {i \in Slots : Pos(i) < Filled}
         /\ Queued = {i \in Slots : Pos(i) < Count}
         /\ Count \in Nat /\ Filled \in Nat /\ Filled < SEGMENT_BUFFER_SIZE
         /\ segment_buffer_head \in Slots /\ Pos(segment_buffer_head) = Count
         /\ segment_buffer_tail \in Slots /\ Pos(segment_buffer_tail) = 0
         /\ \A i, j \in Slots : Pos(i) = Pos(j) => i = j
<1> USE SizeAssumption
<1>1. segment_buffer_tail \in Slots /\ segment_buffer_head \in Slots
  BY RingTypes
<1>2. Queued = {i \in Slots : Pos(i) < Count}
  BY <1>1 DEF Queued, InRing, Pos, Count, Slots
<1>3. /\ Count \in Nat /\ Count < SEGMENT_BUFFER_SIZE /\ Pos(segment_buffer_head) = Count
      /\ Pos(segment_buffer_tail) = 0
      /\ \A i, j \in Slots : Pos(i) = Pos(j) => i = j
  BY <1>1 DEF Pos, Count, Slots
<1>4. Filled \in Nat /\ Filled < SEGMENT_BUFFER_SIZE
  BY <1>3 DEF Filled, IInv, HeadInv
<1>5. \A i \in Slots : Pos(i) \in Nat
  BY <1>1 DEF Pos, Slots
<1>6. Pipeline = {i \in Slots : Pos(i) < Filled}
  <2>1. CASE pc = "release"
    <3>1. Filled = Count + 1 /\ Pipeline = Queued \cup {segment_buffer_head}
      BY <2>1 DEF Filled, Pipeline
    <3>2. \A i \in Slots : Pos(i) < Count + 1 <=> Pos(i) < Count \/ i = segment_buffer_head
      BY <1>1, <1>3, <1>5
    <3> QED
      BY <1>1, <1>2, <3>1, <3>2
  <2>2. CASE pc # "release"
    BY <1>2, <1>3, <2>2 DEF Filled, Pipeline
  <2> QED
    BY <2>1, <2>2
<1> QED
  BY <1>1, <1>2, <1>3, <1>4, <1>6

LEMMA SlotsFinite == IsFiniteSet(Slots) /\ IsFiniteSet(Blocks)
  BY SizeAssumption, FS_Interval DEF Slots, Blocks

\* Every segment in the pipeline has a step to make.
LEMMA PipelineSteps ==
  ASSUME IInv
  PROVE  /\ IsFiniteSet(Pipeline) /\ Pipeline \subseteq Slots
         /\ \A i \in Pipeline : SegmentSteps[i] \in Nat /\ SegmentSteps[i] > 0
         /\ Pipeline # {} => segment_buffer_tail \in Pipeline
         /\ pc # "release" => segment_buffer_head \notin Pipeline
<1>1. Pipeline \subseteq Slots /\ IsFiniteSet(Pipeline)
  BY PipelineFacts, SlotsFinite, FS_Subset
<1>2. \A i \in Slots : Pos(i) \in Nat
  BY RingTypes
<1>3. ASSUME NEW i \in Pipeline PROVE SegmentSteps[i] \in Nat /\ SegmentSteps[i] > 0
  <2>1. i \in Slots /\ (Pos(i) < Count \/ (pc = "release" /\ i = segment_buffer_head))
    BY <1>3, PipelineFacts DEF Pipeline
  <2>2. segment_buffer[i].n_step \in Nat /\ segment_buffer[i].n_step > 0
    BY <2>1 DEF IInv, TypeOK, SegmentTypeOK, StepsInv, HeadInv
  <2>3. i = st.exec_segment => st.step_count \in Nat /\ st.step_count > 0
    BY <2>1, ValueAssumption, SizeAssumption DEF IInv, TypeOK, IsrTypeOK, ExecInv, Slots
  <2> QED
    BY <2>1, <2>2, <2>3 DEF SegmentSteps
<1>4. Pipeline # {} => segment_buffer_tail \in Pipeline
  BY <1>2, PipelineFacts
<1>5. pc # "release" => segment_buffer_head \notin Pipeline
  BY PipelineFacts DEF Filled
<1> QED
  BY <1>1, <1>3, <1>4, <1>5

InBlocks(i) == InRing(i, block_buffer_tail, block_buffer_head)

LEMMA BlockFacts ==
  ASSUME IInv
  PROVE  /\ BlockCount \in Nat /\ next_id \in Nat
         /\ BlockCount = 0 <=> block_buffer_head = block_buffer_tail
         /\ BlockCount > 0 => InBlocks(block_buffer_tail)
         /\ block_buffer_tail \in Blocks /\ Before(block_buffer_tail) >= BlockCount
         /\ BlockCount > 0 => Before(block_buffer_tail) = BlockCount
         /\ \A i \in Blocks : InBlocks(i) => Before(i) \in 1 .. BlockCount
         /\ \A i, j \in Blocks : Before(i) = Before(j) => i = j
  BY SizeAssumption
     DEF IInv, TypeOK, PlannerTypeOK, BlockCount, Before, InBlocks, InRing, Blocks

LEMMA PlannerSteps ==
  ASSUME IInv
  PROVE  /\ IsFiniteSet(PlannerQueued) /\ PlannerQueued \subseteq Blocks
         /\ \A i \in PlannerQueued : BlockSteps[i] \in Nat /\ BlockSteps[i] > 0 /\ InBlocks(i)
<1>1. PlannerQueued \subseteq Blocks /\ (\A i \in PlannerQueued : InBlocks(i))
  BY DEF PlannerQueued, InBlocks
<1>2. IsFiniteSet(PlannerQueued)
  BY <1>1, SlotsFinite, FS_Subset
<1>3. \A i \in PlannerQueued : BlockSteps[i] \in Nat /\ BlockSteps[i] > 0
  BY <1>1 DEF BlockSteps, InBlocks, IInv, TypeOK, PlannerTypeOK, StepsInv
<1> QED
  BY <1>1, <1>2, <1>3

-----------------------------------------------------------------------------
(* What a step does to the segments, to the block in prep and to the ring. *)

SegmentsStay ==
  /\ Pipeline' = Pipeline /\ segment_buffer_tail' = segment_buffer_tail
  /\ \A i \in Slots : Pos(i)' = Pos(i)
  /\ \A i \in Pipeline : MoveOf(i)' = MoveOf(i) /\ SegmentSteps'[i] = SegmentSteps[i]

PrepStays ==
  /\ PlannerBlockInPrep' <=> PlannerBlockInPrep
  /\ PlannerBlockInPrep => prep'.steps_remaining = prep.steps_remaining
  /\ MoveInPrep' = MoveInPrep

RingStays == UNCHANGED <<block_buffer, block_buffer_tail, block_buffer_head, next_id>>

\* A slot may be filled in or emptied of its callback, outside the pipeline.
CallbacksStay == \A i \in Slots : segment_buffer'[i].callback = segment_buffer[i].callback

\* Nothing happens to any move.
Still == SegmentsStay /\ PrepStays /\ RingStays /\ CallbacksStay

\* A move is planned.
Plan ==
  /\ SegmentsStay /\ PrepStays /\ CallbacksStay
  /\ next_id <= MaxBlocks /\ ~plan_check_full_buffer
  /\ \E n \in StepEvents, c \in BOOLEAN :
       block_buffer' = [block_buffer EXCEPT ![block_buffer_head] =
                          [id |-> next_id, steps |-> n, callback |-> c]]
  /\ block_buffer_head' = plan_next_block_index(block_buffer_head)
  /\ block_buffer_tail' = block_buffer_tail
  /\ next_id' = next_id + 1

\* The oldest block of the ring goes into prep.
LoadBlock ==
  /\ SegmentsStay /\ RingStays /\ CallbacksStay
  /\ ~PlannerBlockInPrep /\ PlannerBlockInPrep' /\ pc # "release"
  /\ block_buffer_head # block_buffer_tail
  /\ prep'.steps_remaining = block_buffer[block_buffer_tail].steps
  /\ MoveInPrep' = block_buffer[block_buffer_tail].id

\* A segment of n steps is cut off the block in prep, which is the last if it is n.
Cut(n) ==
  /\ n \in 1 .. prep.steps_remaining
  /\ PlannerBlockInPrep /\ pc # "release"
  /\ Pipeline' = Pipeline \cup {segment_buffer_head}
  /\ UNCHANGED <<segment_buffer_head, segment_buffer_tail>>
  /\ \A i \in Slots : Pos(i)' = Pos(i)
  /\ \A i \in Pipeline : MoveOf(i)' = MoveOf(i) /\ SegmentSteps'[i] = SegmentSteps[i]
  /\ MoveOf(segment_buffer_head)' = MoveInPrep /\ SegmentSteps'[segment_buffer_head] = n
  /\ MoveInPrep' = MoveInPrep
  /\ UNCHANGED <<block_buffer, block_buffer_head, next_id>>
  /\ \A i \in Slots \ {segment_buffer_head} :
       segment_buffer'[i].callback = segment_buffer[i].callback
  /\ \/ /\ n < prep.steps_remaining
        /\ PlannerBlockInPrep' /\ prep'.steps_remaining = prep.steps_remaining - n
        /\ block_buffer_tail' = block_buffer_tail
        /\ segment_buffer'[segment_buffer_head].callback
             = segment_buffer[segment_buffer_head].callback
     \/ /\ n = prep.steps_remaining
        /\ ~PlannerBlockInPrep'
        /\ block_buffer_tail' = plan_next_block_index(block_buffer_tail)
        /\ segment_buffer'[segment_buffer_head].callback
             \in {0, block_buffer[block_buffer_tail].id}

\* A step event is made, of the oldest segment.
Event ==
  /\ PrepStays /\ RingStays /\ CallbacksStay
  /\ segment_buffer_tail \in Pipeline
  /\ \A i \in Slots : MoveOf(i)' = MoveOf(i)
  /\ \A i \in Pipeline \ {segment_buffer_tail} : SegmentSteps'[i] = SegmentSteps[i]
  /\ \/ /\ SegmentSteps[segment_buffer_tail] > 1
        /\ Pipeline' = Pipeline /\ segment_buffer_tail' = segment_buffer_tail
        /\ \A i \in Slots : Pos(i)' = Pos(i)
        /\ SegmentSteps'[segment_buffer_tail] = SegmentSteps[segment_buffer_tail] - 1
        /\ callbacks' = callbacks
     \/ /\ SegmentSteps[segment_buffer_tail] = 1
        /\ Pipeline' = Pipeline \ {segment_buffer_tail}
        /\ \A i \in Pipeline' : Pos(i) = Pos(i)' + 1
        /\ \/ callbacks' = callbacks
           \/ LET c == segment_buffer[segment_buffer_tail].callback
              IN c # 0 /\ callbacks' = [callbacks EXCEPT ![c] = @ + 1]

\* A reset discards everything.
Discard ==
  /\ Pipeline' = {} /\ ~PlannerBlockInPrep' /\ BlockCount' = 0 /\ next_id' = next_id
  /\ \A i \in Blocks : ~InBlocks(i)'
  /\ CallbacksStay

-----------------------------------------------------------------------------
(* Every step is one of these.                                             *)

\* Steps that change neither the segments nor their data.
LEMMA SameSegments ==
  ASSUME UNCHANGED <<segment_buffer, segment_buffer_head, segment_buffer_tail, st,
                     st_block_buffer>>,
         pc' = "release" <=> pc = "release"
  PROVE  SegmentsStay /\ CallbacksStay
  BY DEF SegmentsStay, CallbacksStay, Pipeline, Queued, InRing, Pos, MoveOf, SegmentSteps

\* The new block's slot is none that a queued segment refers to.
LEMMA LoadedSegments ==
  ASSUME IInv, Load, pc # "release", pc' # "release"
  PROVE  SegmentsStay /\ CallbacksStay
<1>1. UNCHANGED <<segment_buffer, segment_buffer_head, segment_buffer_tail, st>>
  BY DEF Load
<1>2. ASSUME NEW i \in Pipeline PROVE MoveOf(i)' = MoveOf(i)
  <2>1. i \in Slots /\ Pos(i) < Count
    BY <1>2, PipelineFacts DEF Filled
  <2>2. segment_buffer[i].st_block_index \in StBlocks /\ Count \in Nat /\ Pos(i) \in Nat
        /\ Back(segment_buffer[i].st_block_index) \in Nat
    BY <2>1, RingTypes
  <2>3. Back(segment_buffer[i].st_block_index) < SEGMENT_BUFFER_SIZE - 2
    <3>1. Open = 0
      BY DEF Load, Open
    <3>2. Back(segment_buffer[i].st_block_index) + Pos(i) < Count + Open
      BY <2>1 DEF IInv, WindowInv
    <3> QED
      BY <2>2, <3>1, <3>2, SizeAssumption DEF Load
  <2>4. segment_buffer[i].st_block_index # prep'.st_block_index
    BY <2>2, <2>3, BackAdvance, RingTypes DEF Load
  <2> QED
    BY <1>1, <2>2, <2>4 DEF Load, MoveOf
<1> QED
  BY <1>1, <1>2 DEF SegmentsStay, CallbacksStay, Pipeline, Queued, InRing, Pos, SegmentSteps

\* A segment written at the head, which is not in the pipeline.
LEMMA WrittenSegment ==
  ASSUME IInv, pc = "segment", NEW n \in Nat, NEW last \in BOOLEAN, WriteSegment(n, last),
         UNCHANGED <<segment_buffer_head, segment_buffer_tail, st, st_block_buffer>>
  PROVE  /\ segment_buffer_head \notin Pipeline /\ segment_buffer_head \in Slots
         /\ Queued' = Queued /\ Pipeline = Queued
         /\ \A i \in Slots : Pos(i)' = Pos(i)
         /\ \A i \in Pipeline : MoveOf(i)' = MoveOf(i) /\ SegmentSteps'[i] = SegmentSteps[i]
         /\ MoveOf(segment_buffer_head)' = MoveInPrep
         /\ SegmentSteps'[segment_buffer_head] = n
         /\ \A i \in Slots \ {segment_buffer_head} :
              segment_buffer'[i].callback = segment_buffer[i].callback
         /\ segment_buffer'[segment_buffer_head].callback
              = IF ~last THEN segment_buffer[segment_buffer_head].callback
                ELSE IF block_buffer[pl_block].callback THEN block_buffer[pl_block].id ELSE 0
<1>1. segment_buffer_head \notin Pipeline /\ segment_buffer_head \in Slots
      /\ Pipeline \subseteq Slots /\ Pipeline = Queued
  BY PipelineSteps, PipelineFacts DEF Pipeline
<1>2. \A i \in Slots \ {segment_buffer_head} : segment_buffer'[i] = segment_buffer[i]
  BY WriteAtHead DEF IInv, TypeOK
<1>3. /\ segment_buffer'[segment_buffer_head].st_block_index = prep.st_block_index
      /\ segment_buffer'[segment_buffer_head].n_step = n
      /\ segment_buffer'[segment_buffer_head].callback
              = IF ~last THEN segment_buffer[segment_buffer_head].callback
                ELSE IF block_buffer[pl_block].callback THEN block_buffer[pl_block].id ELSE 0
  BY <1>1 DEF WriteSegment, IInv, TypeOK, SegmentTypeOK
<1>4. st.exec_segment # segment_buffer_head
  <2>1. segment_buffer_head = segment_buffer_tail => Count = 0
    BY SizeAssumption, PipelineFacts DEF Count
  <2> QED
    BY <1>1, <2>1, ValueAssumption DEF IInv, ExecInv, Slots
<1> QED
  BY <1>1, <1>2, <1>3, <1>4
     DEF Queued, InRing, Pos, MoveOf, MoveInPrep, SegmentSteps

LEMMA TickEvent == ASSUME IInv, StepperTick PROVE Event
<1> DEFINE t == segment_buffer_tail
           s == LoadSegment
<1>1. /\ Count > 0 /\ t \in Slots /\ Pos(t) = 0 /\ t \in Queued /\ t \in Pipeline
      /\ UNCHANGED <<plannerVars, segmentVars, prepVars, pc>>
  BY TickKeeps, PipelineFacts DEF StepperTick, Pipeline
<1>2. PrepStays /\ RingStays /\ CallbacksStay /\ (\A i \in Slots : MoveOf(i)' = MoveOf(i))
  BY <1>1 DEF PrepStays, RingStays, CallbacksStay, PlannerBlockInPrep, MoveInPrep, MoveOf
<1>3. st.exec_segment = NULL \/ st.exec_segment = t
  BY DEF IInv, ExecInv
<1>4. s.exec_segment = t /\ s.step_count = SegmentSteps[t] /\ SegmentSteps[t] \in Nat
  <2>1. NULL # t
    BY <1>1, ValueAssumption, SizeAssumption DEF Slots
  <2>2. SegmentSteps[t] = IF t = st.exec_segment THEN st.step_count ELSE segment_buffer[t].n_step
    BY <1>1 DEF SegmentSteps
  <2>3. CASE st.exec_segment = NULL
    BY <1>1, <2>1, <2>2, <2>3, PipelineSteps DEF LoadSegment
  <2>4. CASE st.exec_segment = t
    BY <1>1, <2>1, <2>2, <2>4, PipelineSteps DEF LoadSegment
  <2> QED
    BY <1>3, <2>3, <2>4
<1>5. s \in [exec_segment : Slots, step_count : Nat, exec_block_index : StBlocks, counters : Nat]
  <2>1. st \in [exec_segment : Slots \cup {NULL}, step_count : Nat,
                exec_block_index : StBlocks, counters : Nat]
    BY DEF IInv, TypeOK, IsrTypeOK
  <2>2. CASE st.exec_segment = NULL
    BY <1>1, <2>2, <2>1 DEF LoadSegment, IInv, TypeOK, SegmentTypeOK, PrepTypeOK
  <2>3. CASE st.exec_segment # NULL
    BY <1>1, <1>3, <2>3, <2>1 DEF LoadSegment
  <2> QED
    BY <2>2, <2>3
<1>6. segment_buffer_tail' = t
        => Count' = Count /\ (\A i \in Slots : Pos(i)' = Pos(i)) /\ Queued' = Queued
  BY <1>1 DEF Count, Pos, Queued, InRing
<1>7. ASSUME s.step_count = 1 PROVE Event
  <2>1. /\ st' = [s EXCEPT !.step_count = 0, !.exec_segment = NULL]
        /\ segment_buffer_tail' = next_slot(t)
        /\ callbacks' = IF segment_buffer[t].callback = 0 THEN callbacks
                        ELSE [callbacks EXCEPT ![segment_buffer[t].callback] = @ + 1]
    BY <1>4, <1>7 DEF StepperTick
  <2>2. st'.exec_segment = NULL
    BY <1>5, <2>1
  <2>3. /\ Count' = Count - 1
        /\ \A i \in Slots : Pos(i)' < Count' => Pos(i) = Pos(i)' + 1
    BY <1>1, <2>1, TailAdvance, PipelineFacts
  <2>4. /\ Pipeline' = Pipeline \ {t}
        /\ \A i \in Pipeline' : Pos(i) = Pos(i)' + 1
    <3>1. \A i \in Slots : i # t => Pos(i)' = Pos(i) - 1
      BY <1>1, <2>1, SizeAssumption, PipelineFacts DEF Pos, Slots, next_slot
    <3>2. Filled' = Filled - 1
      BY <1>1, <2>3, PipelineFacts DEF Filled
    <3>3. Queued' = Queued \ {t} /\ segment_buffer_head # t
      BY <1>1, <2>1, SizeAssumption, PipelineFacts DEF Queued, InRing, Slots, next_slot, Count
    <3>4. Pipeline' = Pipeline \ {t}
      BY <1>1, <3>3 DEF Pipeline
    <3>5. \A i \in Slots : Pos(i) \in Nat
      BY RingTypes
    <3> QED
      BY <3>1, <3>4, <3>5, PipelineSteps
  <2>5. \A i \in Pipeline \ {t} : SegmentSteps'[i] = SegmentSteps[i]
    BY <1>1, <1>3, <2>2, PipelineSteps, ValueAssumption, SizeAssumption DEF SegmentSteps, Slots
  <2> QED
    BY <1>1, <1>2, <1>4, <1>7, <2>1, <2>4, <2>5 DEF Event
<1>8. ASSUME s.step_count # 1 PROVE Event
  <2>1. /\ st' = [s EXCEPT !.step_count = @ - 1]
        /\ segment_buffer_tail' = t /\ callbacks' = callbacks
    BY <1>4, <1>8 DEF StepperTick
  <2>2. st'.exec_segment = t /\ st'.step_count = s.step_count - 1
    <3> HIDE DEF s
    <3> QED
      BY <1>4, <1>5, <2>1
  <2>3. Pipeline' = Pipeline
    BY <1>1, <1>6, <2>1 DEF Pipeline
  <2>4. /\ SegmentSteps'[t] = SegmentSteps[t] - 1
        /\ \A i \in Pipeline \ {t} : SegmentSteps'[i] = SegmentSteps[i]
    BY <1>1, <1>3, <1>4, <2>2, PipelineSteps, ValueAssumption, SizeAssumption
       DEF SegmentSteps, Slots
  <2>5. SegmentSteps[t] > 1
    BY <1>1, <1>4, <1>8, PipelineSteps
  <2> QED
    BY <1>1, <1>2, <1>6, <2>1, <2>3, <2>4, <2>5 DEF Event
<1> QED
  BY <1>7, <1>8

LEMMA StepKinds ==
  ASSUME IInv, [Next]_vars
  PROVE  Still \/ Plan \/ LoadBlock \/ (\E n \in Nat : Cut(n)) \/ Event \/ Discard
<1>1. CASE FeedHold \/ CycleStop
  <2>1. pc # "release" /\ pc' # "release"
    BY <1>1 DEF FeedHold, CycleStop, AtMain, ReloadSegments
  <2>2. /\ UNCHANGED <<plannerVars, segmentVars, isrVars, st_block_buffer>>
        /\ UNCHANGED <<prep, pl_block>> \/ st_update_plan_block_parameters
    BY <1>1 DEF FeedHold, CycleStop
  <2>3. PrepStays
    BY <2>1, <2>2 DEF st_update_plan_block_parameters, PrepStays, PlannerBlockInPrep, MoveInPrep,
       IInv, TypeOK, PrepTypeOK
  <2> QED
    BY <2>1, <2>2, <2>3, SameSegments DEF Still, RingStays
<1>2. CASE PlanBufferLine
  <2>1. pc # "release" /\ pc' # "release"
    BY <1>2 DEF PlanBufferLine, AtMain
  <2>2. PrepStays
    BY <1>2 DEF PlanBufferLine, st_update_plan_block_parameters, PrepStays, PlannerBlockInPrep,
       MoveInPrep, IInv, TypeOK, PrepTypeOK
  <2>3. \E n \in StepEvents, c \in BOOLEAN :
          block_buffer' = [block_buffer EXCEPT ![block_buffer_head] =
                             [id |-> next_id, steps |-> n, callback |-> c]]
    BY <1>2, ValueAssumption DEF PlanBufferLine
  <2> QED
    BY <1>2, <2>1, <2>2, <2>3, SameSegments DEF PlanBufferLine, Plan
<1>3. CASE Poll \/ CycleStart \/ McReset \/ WakeUp \/ PrepReturn \/ StepperShutdown
           \/ UNCHANGED vars
  <2>1. /\ UNCHANGED <<plannerVars, segmentVars, prepVars, segment_buffer_tail, st>>
        /\ pc' = "release" <=> pc = "release"
    BY <1>3 DEF Poll, CycleStart, McReset, WakeUp, PrepReturn, StepperShutdown, AtMain,
       ReloadSegments, vars
  <2> QED
    BY <2>1, SameSegments DEF Still, PrepStays, RingStays, PlannerBlockInPrep, MoveInPrep
<1>4. CASE PrepBlock
  <2>0. pc # "release" /\ pc' # "release"
        /\ UNCHANGED <<plannerVars, segmentVars, isrVars>>
    BY <1>4 DEF PrepBlock
  <2>1. CASE UNCHANGED prepVars /\ pl_block # NULL
    BY <2>0, <2>1, SameSegments DEF Still, PrepStays, RingStays, PlannerBlockInPrep, MoveInPrep
  <2>2. CASE prep.recalculate /\ pl_block = NULL
    <3>1. /\ pl_block' = plan_get_current_block /\ plan_get_current_block # NULL
          /\ prep' = [prep EXCEPT !.recalculate = FALSE] /\ UNCHANGED st_block_buffer
      BY <1>4, <2>2 DEF PrepBlock
    <3>2. PrepStays
      BY <2>2, <3>1 DEF PrepStays, PlannerBlockInPrep, MoveInPrep, IInv, TypeOK, PrepTypeOK
    <3> QED
      BY <2>0, <3>1, <3>2, SameSegments DEF Still, RingStays
  <2>3. CASE ~prep.recalculate /\ pl_block = NULL
    <3> DEFINE j == st_next_block_index(prep.st_block_index)
               b == block_buffer[block_buffer_tail]
    <3>1. /\ pl_block' = plan_get_current_block /\ plan_get_current_block # NULL
          /\ prep' = [prep EXCEPT !.st_block_index = j, !.steps_remaining = b.steps, !.part = 0]
          /\ st_block_buffer' = [st_block_buffer EXCEPT ![j] = b.id]
          /\ ~segment_buffer_full
      BY <1>4, <2>3 DEF PrepBlock
    <3>2. j \in StBlocks
      BY IndexTypes DEF IInv, TypeOK, PrepTypeOK
    <3>3. prep'.st_block_index = j /\ prep'.steps_remaining = b.steps /\ MoveInPrep' = b.id
      BY <3>1, <3>2 DEF MoveInPrep, IInv, TypeOK, PrepTypeOK
    <3>4. ~PlannerBlockInPrep /\ PlannerBlockInPrep' /\ block_buffer_head # block_buffer_tail
      BY <2>3, <3>1 DEF PlannerBlockInPrep, plan_get_current_block
    <3>5. Load
      <4>1. Count <= SEGMENT_BUFFER_SIZE - 2
        BY <3>1, NotFull DEF segment_buffer_full, IInv, TypeOK, SegmentTypeOK, IsrTypeOK
      <4>2. ~BlockOpen /\ BlockOpen'
        BY <2>0, <3>4 DEF BlockOpen, PlannerBlockInPrep
      <4> QED
        BY <2>0, <3>1, <3>3, <4>1, <4>2 DEF Load, IInv, TypeOK, PrepTypeOK
    <3> QED
      BY <2>0, <3>3, <3>4, <3>5, LoadedSegments DEF LoadBlock, RingStays
  <2> QED
    BY <1>4, <2>1, <2>2, <2>3 DEF PrepBlock
<1>5. CASE SegmentInBlock
  <2>1. PICK n \in 1 .. prep.steps_remaining - 1, part \in Parts :
          /\ WriteSegment(n, FALSE)
          /\ prep' = [prep EXCEPT !.steps_remaining = prep.steps_remaining - n, !.part = part]
    BY <1>5, InBlockTakesSteps DEF IInv, TypeOK
  <2>2. pc = "segment" /\ pc' = "release" /\ pl_block # NULL /\ prep.steps_remaining \in Nat
    BY <1>5 DEF SegmentInBlock, IInv, HeadInv, TypeOK, PrepTypeOK
  <2>3. n \in 1 .. prep.steps_remaining /\ n < prep.steps_remaining /\ n \in Nat
    BY <2>1, <2>2
  <2>4. /\ UNCHANGED <<segment_buffer_head, segment_buffer_tail, st, st_block_buffer, pl_block>>
        /\ UNCHANGED <<block_buffer, block_buffer_tail, block_buffer_head, next_id>>
    BY <1>5 DEF SegmentInBlock
  <2>5. /\ prep'.steps_remaining = prep.steps_remaining - n /\ MoveInPrep' = MoveInPrep
        /\ PlannerBlockInPrep /\ PlannerBlockInPrep'
    BY <2>1, <2>2, <2>4 DEF PlannerBlockInPrep, MoveInPrep, IInv, TypeOK, PrepTypeOK
  <2>6. Cut(n)
    BY <2>1, <2>2, <2>3, <2>4, <2>5, WrittenSegment DEF Cut, Pipeline
  <2> QED
    BY <2>3, <2>6
<1>6. CASE SegmentEndsBlock
  <2> DEFINE n == prep.steps_remaining
  <2>1. /\ WriteSegment(n, TRUE) /\ prep' = [prep EXCEPT !.steps_remaining = 0, !.part = 0]
        /\ pl_block' = NULL /\ block_buffer_tail' = plan_next_block_index(block_buffer_tail)
        /\ pc = "segment" /\ pc' = "release"
        /\ UNCHANGED <<segment_buffer_head, segment_buffer_tail, st, st_block_buffer>>
        /\ UNCHANGED <<block_buffer, block_buffer_head, next_id>>
    BY <1>6 DEF SegmentEndsBlock
  <2>2. /\ pl_block = block_buffer_tail /\ pl_block # NULL /\ ~prep.recalculate
        /\ n \in Nat /\ n > 0
    BY <2>1 DEF IInv, HeadInv, PrepInv, TypeOK, PrepTypeOK
  <2>3. MoveInPrep' = MoveInPrep /\ PlannerBlockInPrep /\ ~PlannerBlockInPrep'
    BY <2>1, <2>2 DEF PlannerBlockInPrep, MoveInPrep, IInv, TypeOK, PrepTypeOK
  <2> HIDE DEF n
  <2>4. /\ segment_buffer_head \notin Pipeline /\ segment_buffer_head \in Slots
        /\ Queued' = Queued /\ Pipeline = Queued
        /\ \A i \in Slots : Pos(i)' = Pos(i)
        /\ \A i \in Pipeline : MoveOf(i)' = MoveOf(i) /\ SegmentSteps'[i] = SegmentSteps[i]
        /\ MoveOf(segment_buffer_head)' = MoveInPrep
        /\ SegmentSteps'[segment_buffer_head] = n
        /\ \A i \in Slots \ {segment_buffer_head} :
              segment_buffer'[i].callback = segment_buffer[i].callback
        /\ segment_buffer'[segment_buffer_head].callback
              = IF block_buffer[pl_block].callback THEN block_buffer[pl_block].id ELSE 0
    BY <2>1, <2>2, TRUE \in BOOLEAN, WrittenSegment
  <2>5. Pipeline' = Pipeline \cup {segment_buffer_head}
    BY <2>1, <2>4 DEF Pipeline
  <2>6. segment_buffer'[segment_buffer_head].callback \in {0, block_buffer[block_buffer_tail].id}
    BY <2>2, <2>4
  <2>7. Cut(n)
    BY <2>1, <2>2, <2>3, <2>4, <2>5, <2>6 DEF Cut, n
  <2> QED
    BY <2>2, <2>7
<1>7. CASE HoldWithoutStep
  <2>1. /\ WriteSegment(0, FALSE) /\ pc = "segment" /\ pc' = "main"
        /\ UNCHANGED <<plannerVars, segment_buffer_head, prepVars, isrVars>>
    BY <1>7 DEF HoldWithoutStep
  <2>2. SegmentsStay /\ CallbacksStay
    BY <2>1, WrittenSegment DEF SegmentsStay, CallbacksStay, Pipeline
  <2> QED
    BY <2>1, <2>2 DEF Still, PrepStays, RingStays, PlannerBlockInPrep, MoveInPrep
<1>8. CASE Release
  <2>1. /\ pc = "release" /\ pc' # "release" /\ segment_buffer_head' = segment_next_head
        /\ UNCHANGED <<plannerVars, segment_buffer, prepVars, isrVars>>
    BY <1>8 DEF Release
  <2>2. Queued' = Queued \cup {segment_buffer_head}
    <3>1. Count <= SEGMENT_BUFFER_SIZE - 2
      BY <2>1 DEF IInv, HeadInv
    <3> QED
      BY <2>1, <3>1, SizeAssumption, PipelineFacts
         DEF Queued, InRing, Slots, segment_next_head, next_slot, Count
  <2>3. SegmentsStay /\ CallbacksStay
    BY <2>1, <2>2 DEF SegmentsStay, CallbacksStay, Pipeline, Pos, MoveOf, SegmentSteps
  <2> QED
    BY <2>1, <2>3 DEF Still, PrepStays, RingStays, PlannerBlockInPrep, MoveInPrep
<1>9. CASE StepperTick
  BY <1>9, TickEvent
<1>10. CASE Abort
  <2>1. Pipeline' = {} /\ BlockCount' = 0 /\ (\A i \in Blocks : ~InBlocks(i)')
    BY <1>10, SizeAssumption
       DEF Abort, AtMain, Pipeline, Queued, InRing, InBlocks, Slots, Blocks, BlockCount
  <2> QED
    BY <1>10, <2>1 DEF Abort, Discard, PrepReset, PlannerBlockInPrep, CallbacksStay
<1> QED
  BY <1>1, <1>2, <1>3, <1>4, <1>5, <1>6, <1>7, <1>8, <1>9, <1>10 DEF Next, Protocol, Prep, Stepper

-----------------------------------------------------------------------------
(* The moves stay in order.                                                *)

LEMMA MoveTypes ==
  ASSUME IInv
  PROVE  /\ MoveInPrep \in Nat /\ \A i \in Slots : MoveOf(i) \in Nat
         /\ \A i \in Blocks : block_buffer[i].id \in Nat /\ block_buffer[i].steps \in Nat
         /\ \A i \in Slots : Pos(i) \in Nat
         /\ PlannerBlockInPrep => prep.steps_remaining \in Nat /\ prep.steps_remaining > 0
                                  /\ BlockCount > 0
<1>1. /\ MoveInPrep \in Nat /\ \A i \in Slots : MoveOf(i) \in Nat
      /\ \A i \in Blocks : block_buffer[i].id \in Nat /\ block_buffer[i].steps \in Nat
  BY DEF IInv, TypeOK, PlannerTypeOK, SegmentTypeOK, PrepTypeOK, MoveInPrep, MoveOf
<1>2. \A i \in Slots : Pos(i) \in Nat
  BY RingTypes
<1>3. PlannerBlockInPrep => prep.steps_remaining \in Nat /\ prep.steps_remaining > 0
                           /\ BlockCount > 0
  BY BlockFacts DEF IInv, PrepInv, TypeOK, PrepTypeOK, PlannerBlockInPrep
<1> QED
  BY <1>1, <1>2, <1>3

LeftFacts(id) ==
  /\ SegmentsLeft(id) \in Nat /\ PrepLeft(id) \in Nat /\ PlannerLeft(id) \in Nat
  /\ SegmentsLeft(id) = 0 <=> SegmentsOf(id) = {}
  /\ PrepLeft(id) = 0 <=> ~(PlannerBlockInPrep /\ MoveInPrep = id)
  /\ PlannerLeft(id) = 0 <=> BlocksOf(id) = {}

LEMMA LeftTypes == ASSUME IInv, NEW id PROVE LeftFacts(id)
<1>1. /\ IsFiniteSet(SegmentsOf(id)) /\ IsFiniteSet(BlocksOf(id))
      /\ \A i \in SegmentsOf(id) : SegmentSteps[i] \in Nat /\ SegmentSteps[i] > 0
      /\ \A i \in BlocksOf(id) : BlockSteps[i] \in Nat /\ BlockSteps[i] > 0
  BY PipelineSteps, PlannerSteps, FS_Subset DEF SegmentsOf, BlocksOf
<1>2. SegmentsLeft(id) \in Nat /\ PlannerLeft(id) \in Nat
  BY <1>1, TotalType DEF SegmentsLeft, PlannerLeft
<1>3. /\ SegmentsOf(id) = {} => SegmentsLeft(id) = 0
      /\ BlocksOf(id) = {} => PlannerLeft(id) = 0
  BY TotalNone DEF SegmentsLeft, PlannerLeft
<1>4. /\ SegmentsOf(id) # {} => SegmentsLeft(id) > 0
      /\ BlocksOf(id) # {} => PlannerLeft(id) > 0
  BY <1>1, TotalPositive DEF SegmentsLeft, PlannerLeft
<1>5. PrepLeft(id) \in Nat /\ (PrepLeft(id) = 0 <=> ~(PlannerBlockInPrep /\ MoveInPrep = id))
  BY MoveTypes DEF PrepLeft
<1> QED
  BY <1>2, <1>3, <1>4, <1>5 DEF LeftFacts

\* What the type and head invariants say of the rings, for use in either state.
RingFacts ==
  /\ Pipeline \subseteq Slots /\ IsFiniteSet(Pipeline)
  /\ Pipeline # {} => segment_buffer_tail \in Pipeline /\ Pos(segment_buffer_tail) = 0
  /\ segment_buffer_head \in Slots
  /\ \A i \in Pipeline : SegmentSteps[i] \in Nat /\ SegmentSteps[i] > 0
  /\ \A i \in Slots : Pos(i) \in Nat /\ MoveOf(i) \in Nat /\ segment_buffer[i].callback \in Nat
  /\ pc # "release" => /\ segment_buffer_head \notin Pipeline
                       /\ \A i \in Pipeline : Pos(i) < Pos(segment_buffer_head)
  /\ MoveInPrep \in Nat
  /\ PlannerBlockInPrep => prep.steps_remaining \in Nat /\ prep.steps_remaining > 0
                           /\ BlockCount > 0
  /\ IsFiniteSet(PlannerQueued) /\ PlannerQueued \subseteq Blocks
  /\ \A i \in PlannerQueued : BlockSteps[i] \in Nat /\ BlockSteps[i] > 0 /\ InBlocks(i)
  /\ block_buffer_tail \in Blocks /\ block_buffer_head \in Blocks
  /\ block_buffer \in [Blocks -> [id : Nat, steps : Nat, callback : BOOLEAN]]
  /\ BlockCount \in Nat /\ next_id \in Nat
  /\ \A id : LeftFacts(id)

LEMMA Rings == IInv => RingFacts
<1> SUFFICES ASSUME IInv PROVE RingFacts
  OBVIOUS
<1>1. pc # "release" => \A i \in Pipeline : Pos(i) < Pos(segment_buffer_head)
  BY PipelineFacts DEF Filled
<1>2. /\ block_buffer \in [Blocks -> [id : Nat, steps : Nat, callback : BOOLEAN]]
      /\ block_buffer_head \in Blocks
      /\ \A i \in Slots : segment_buffer[i].callback \in Nat
  BY DEF IInv, TypeOK, PlannerTypeOK, SegmentTypeOK
<1>3. \A id : LeftFacts(id)
  BY LeftTypes
<1>4. /\ Pipeline # {} => segment_buffer_tail \in Pipeline /\ Pos(segment_buffer_tail) = 0
      /\ segment_buffer_head \in Slots
      /\ pc # "release" => segment_buffer_head \notin Pipeline
      /\ Pipeline \subseteq Slots /\ IsFiniteSet(Pipeline)
      /\ \A i \in Pipeline : SegmentSteps[i] \in Nat /\ SegmentSteps[i] > 0
  BY PipelineSteps, PipelineFacts
<1>5. /\ IsFiniteSet(PlannerQueued) /\ PlannerQueued \subseteq Blocks
      /\ \A i \in PlannerQueued : BlockSteps[i] \in Nat /\ BlockSteps[i] > 0 /\ InBlocks(i)
      /\ block_buffer_tail \in Blocks /\ BlockCount \in Nat /\ next_id \in Nat
  BY PlannerSteps, BlockFacts
<1>6. /\ MoveInPrep \in Nat /\ \A i \in Slots : Pos(i) \in Nat /\ MoveOf(i) \in Nat
      /\ PlannerBlockInPrep => prep.steps_remaining \in Nat /\ prep.steps_remaining > 0
                           /\ BlockCount > 0
  BY MoveTypes
<1> QED
  BY <1>1, <1>2, <1>3, <1>4, <1>5, <1>6 DEF RingFacts

LEMMA NextRings == IInv' => RingFacts'
  BY Rings, PTL

\* The planner ring, for the tail, the head and every block between.
LEMMA RingBlocks ==
  ASSUME RingFacts
  PROVE  /\ BlockCount = 0 <=> block_buffer_head = block_buffer_tail
         /\ BlockCount > 0 => /\ InBlocks(block_buffer_tail)
                              /\ Before(block_buffer_tail) = BlockCount
         /\ \A i \in Blocks : InBlocks(i) => Before(i) \in 1 .. BlockCount
         /\ \A i \in Blocks : Before(i) \in Nat
         /\ \A k \in 1 .. BlockCount : \E i \in Blocks : InBlocks(i) /\ Before(i) = k
         /\ \A k \in 1 .. BlockCount - 1 :
              \E i \in Blocks : InBlocks(i) /\ Before(i) = k /\ i # block_buffer_tail
<1> USE SizeAssumption DEF RingFacts, BlockCount, Before, InBlocks, InRing, Blocks
<1>1. /\ BlockCount = 0 <=> block_buffer_head = block_buffer_tail
      /\ BlockCount > 0 => /\ InBlocks(block_buffer_tail)
                           /\ Before(block_buffer_tail) = BlockCount
      /\ \A i \in Blocks : InBlocks(i) => Before(i) \in 1 .. BlockCount
      /\ \A i \in Blocks : Before(i) \in Nat
  OBVIOUS
<1>2. ASSUME NEW k \in 1 .. BlockCount
      PROVE  \E i \in Blocks : /\ InBlocks(i) /\ Before(i) = k
                               /\ k < BlockCount => i # block_buffer_tail
  <2> DEFINE i == IF k <= block_buffer_head THEN block_buffer_head - k
                  ELSE block_buffer_head - k + BLOCK_BUFFER_SIZE
  <2>1. i \in Blocks /\ InBlocks(i) /\ Before(i) = k
    OBVIOUS
  <2>2. k < BlockCount => i # block_buffer_tail
    OBVIOUS
  <2> QED
    BY <2>1, <2>2
<1> HIDE DEF RingFacts, BlockCount, Before, InBlocks, InRing, Blocks
<1>3. BlockCount \in Nat
  BY DEF RingFacts
<1> QED
  BY <1>1, <1>2, <1>3

-----------------------------------------------------------------------------
(* What each kind of step does to the steps left of a move.                *)

LEMMA SegmentsLeftStays ==
  ASSUME NEW id, SegmentsOf(id)' = SegmentsOf(id),
         \A i \in SegmentsOf(id) : SegmentSteps'[i] = SegmentSteps[i]
  PROVE  SegmentsLeft(id)' = SegmentsLeft(id)
  BY TotalSame DEF SegmentsLeft

LEMMA PlannerLeftStays ==
  ASSUME NEW id, BlocksOf(id)' = BlocksOf(id),
         \A i \in BlocksOf(id) : BlockSteps'[i] = BlockSteps[i]
  PROVE  PlannerLeft(id)' = PlannerLeft(id)
  BY TotalSame DEF PlannerLeft

LEMMA SegmentsStayLeft ==
  ASSUME SegmentsStay, Pipeline \subseteq Slots, NEW id
  PROVE  SegmentsOf(id)' = SegmentsOf(id) /\ SegmentsLeft(id)' = SegmentsLeft(id)
<1>1. SegmentsOf(id)' = SegmentsOf(id)
  BY DEF SegmentsStay, SegmentsOf
<1>2. \A i \in SegmentsOf(id) : SegmentSteps'[i] = SegmentSteps[i]
  BY DEF SegmentsStay, SegmentsOf
<1> QED
  BY <1>1, <1>2, SegmentsLeftStays

LEMMA RingStaysLeft ==
  ASSUME RingStays, NEW id, PlannerBlockInPrep' <=> PlannerBlockInPrep
  PROVE  PlannerLeft(id)' = PlannerLeft(id)
<1>1. BlocksOf(id)' = BlocksOf(id) /\ BlockSteps' = BlockSteps
  BY DEF RingStays, BlocksOf, PlannerQueued, InRing, BlockSteps
<1> QED
  BY <1>1, PlannerLeftStays

LEMMA PrepStaysLeft ==
  ASSUME PrepStays, NEW id PROVE PrepLeft(id)' = PrepLeft(id)
  BY DEF PrepStays, PrepLeft

LEMMA StillLeft == ASSUME RingFacts, Still, NEW id PROVE Left(id)' = Left(id)
<1>1. SegmentsLeft(id)' = SegmentsLeft(id) /\ PlannerLeft(id)' = PlannerLeft(id)
      /\ PrepLeft(id)' = PrepLeft(id)
  BY SegmentsStayLeft, RingStaysLeft, PrepStaysLeft DEF Still, RingFacts, PrepStays
<1> QED
  BY <1>1 DEF Left

\* A new move has its steps, and no other one changes.
LEMMA PlanLeft ==
  ASSUME RingFacts, RingFacts', Plan, NEW id
  PROVE  Left(id)' = IF id = next_id
                     THEN Left(id) + block_buffer'[block_buffer_head].steps ELSE Left(id)
<1> DEFINE h == block_buffer_head
<1>1. SegmentsLeft(id)' = SegmentsLeft(id) /\ PrepLeft(id)' = PrepLeft(id)
  BY SegmentsStayLeft, PrepStaysLeft DEF Plan, RingFacts
<1>2. PICK n \in StepEvents, c \in BOOLEAN :
        block_buffer' = [block_buffer EXCEPT ![h] = [id |-> next_id, steps |-> n, callback |-> c]]
  BY DEF Plan
<1>3. /\ h \in Blocks /\ h \notin PlannerQueued /\ PlannerQueued' = PlannerQueued \cup {h}
  <2>1. PlannerBlockInPrep' <=> PlannerBlockInPrep
    BY DEF Plan, PrepStays
  <2>2. PlannerBlockInPrep => block_buffer_tail # h
    BY RingBlocks DEF RingFacts
  <2>3. h \in Blocks /\ block_buffer_tail \in Blocks
    BY DEF RingFacts
  <2>4. \A i \in Blocks : InRing(i, block_buffer_tail, block_buffer_head)'
                             <=> InRing(i, block_buffer_tail, h) \/ i = h
    BY <2>3, SizeAssumption DEF Plan, InRing, Blocks, plan_next_block_index, plan_check_full_buffer
  <2>5. ~InRing(h, block_buffer_tail, h)
    BY <2>3, SizeAssumption DEF InRing, Blocks
  <2>6. block_buffer_tail' = block_buffer_tail
    BY DEF Plan
  <2> QED
    BY <2>1, <2>2, <2>3, <2>4, <2>5, <2>6 DEF PlannerQueued
<1>4. /\ \A i \in PlannerQueued : block_buffer'[i] = block_buffer[i]
      /\ block_buffer'[h].id = next_id /\ block_buffer'[h].steps = n
  BY <1>2, <1>3 DEF RingFacts
<1>5. \A i \in PlannerQueued : BlockSteps'[i] = BlockSteps[i]
  BY <1>3, <1>4 DEF BlockSteps, RingFacts
<1>6. CASE id # next_id
  <2>1. BlocksOf(id)' = BlocksOf(id)
    BY <1>3, <1>4, <1>6 DEF BlocksOf
  <2>2. PlannerLeft(id)' = PlannerLeft(id)
    BY <1>5, <2>1, PlannerLeftStays DEF BlocksOf
  <2> QED
    BY <1>1, <1>6, <2>2 DEF Left
<1>7. CASE id = next_id
  <2>1. BlocksOf(id)' = BlocksOf(id) \cup {h} /\ h \notin BlocksOf(id)
        /\ BlocksOf(id) \subseteq PlannerQueued
    BY <1>3, <1>4, <1>7 DEF BlocksOf
  <2>2. IsFiniteSet(BlocksOf(id)) /\ BlockSteps'[h] = n /\ n \in Nat
        /\ \A i \in BlocksOf(id) : BlockSteps'[i] \in Nat
    BY <1>3, <1>4, <1>5, <2>1, FS_Subset, ValueAssumption DEF RingFacts, BlockSteps
  <2> DEFINE f == BlockSteps'
  <2>3. Total(BlocksOf(id) \cup {h}, f) = Total(BlocksOf(id), f) + f[h]
    <3> HIDE DEF f, h
    <3>1. IsFiniteSet(BlocksOf(id)) /\ h \notin BlocksOf(id) /\ f[h] \in Nat
          /\ \A i \in BlocksOf(id) : f[i] \in Nat
      BY <2>1, <2>2 DEF f
    <3> QED
      BY <3>1, TotalAdd
  <2>4. Total(BlocksOf(id), f) = Total(BlocksOf(id), BlockSteps)
    BY <1>5, <2>1, TotalSame
  <2>5. PlannerLeft(id)' = PlannerLeft(id) + n
    BY <2>1, <2>2, <2>3, <2>4 DEF PlannerLeft
  <2> QED
    BY <1>1, <1>4, <1>7, <2>2, <2>5 DEF Left, RingFacts, LeftFacts
<1> QED
  BY <1>6, <1>7

\* The steps of a block that is loaded are in prep instead of in the ring.
LEMMA LoadBlockLeft ==
  ASSUME RingFacts, RingFacts', LoadBlock, NEW id PROVE Left(id)' = Left(id)
<1> DEFINE t == block_buffer_tail
           b == block_buffer[t]
<1>1. SegmentsLeft(id)' = SegmentsLeft(id)
  BY SegmentsStayLeft DEF LoadBlock, RingFacts
<1>2. t \in PlannerQueued /\ PlannerQueued' = PlannerQueued \ {t} /\ BlockSteps' = BlockSteps
      /\ b.steps = BlockSteps[t] /\ t \in Blocks
  <2>1. t \in Blocks /\ InBlocks(t)
    BY RingBlocks DEF RingFacts, LoadBlock
  <2> QED
    BY <2>1 DEF PlannerQueued, InBlocks, InRing, LoadBlock, RingStays, BlockSteps
<1>3. BlocksOf(id)' = BlocksOf(id) \ {t} /\ BlocksOf(id) \subseteq PlannerQueued
      /\ (t \in BlocksOf(id) <=> id = b.id)
  BY <1>2 DEF BlocksOf, LoadBlock, RingStays
<1>4. IsFiniteSet(BlocksOf(id)) /\ \A i \in BlocksOf(id) : BlockSteps[i] \in Nat
  BY <1>3, FS_Subset DEF RingFacts
<1>5. PrepLeft(id) = 0 /\ PrepLeft(id)' = IF id = b.id THEN b.steps ELSE 0
  BY DEF PrepLeft, LoadBlock
<1>6. BlockSteps[t] \in Nat
  BY <1>2 DEF RingFacts
<1>7. CASE id # b.id
  <2>1. BlocksOf(id)' = BlocksOf(id)
    BY <1>3, <1>7
  <2>2. PlannerLeft(id)' = PlannerLeft(id)
    BY <1>2, <2>1, PlannerLeftStays
  <2> QED
    BY <1>1, <1>5, <1>7, <2>2 DEF Left
<1>8. CASE id = b.id
  <2>1. Total(BlocksOf(id), BlockSteps) = Total(BlocksOf(id) \ {t}, BlockSteps) + BlockSteps[t]
    <3> HIDE DEF t
    <3> QED
      BY <1>3, <1>4, <1>8, TotalRemove
  <2>2. PlannerLeft(id) = PlannerLeft(id)' + BlockSteps[t]
    BY <1>2, <1>3, <2>1 DEF PlannerLeft
  <2>3. LeftFacts(id)' /\ LeftFacts(id)
    BY DEF RingFacts
  <2> QED
    BY <1>1, <1>2, <1>5, <1>6, <1>8, <2>2, <2>3 DEF Left, LeftFacts
<1> QED
  BY <1>7, <1>8

\* The steps that are cut off are in a segment instead of in prep.
LEMMA CutLeft ==
  ASSUME RingFacts, RingFacts', NEW n \in Nat, Cut(n), NEW id PROVE Left(id)' = Left(id)
<1> DEFINE h == segment_buffer_head
           f == SegmentSteps'
<1>1. h \notin Pipeline /\ Pipeline \subseteq Slots /\ h \in Slots
  BY DEF RingFacts, Cut
<1>2. /\ SegmentsOf(id)' = IF id = MoveInPrep THEN SegmentsOf(id) \cup {h} ELSE SegmentsOf(id)
      /\ h \notin SegmentsOf(id) /\ SegmentsOf(id) \subseteq Pipeline
  BY <1>1 DEF SegmentsOf, Cut
<1>3. IsFiniteSet(SegmentsOf(id)) /\ f[h] = n
      /\ \A i \in SegmentsOf(id) : f[i] = SegmentSteps[i] /\ f[i] \in Nat
  BY <1>2, FS_Subset DEF RingFacts, Cut
<1>4. SegmentsLeft(id)' = SegmentsLeft(id) + IF id = MoveInPrep THEN n ELSE 0
  <2>1. SegmentsLeft(id)' = Total(SegmentsOf(id)', f)
    BY DEF SegmentsLeft
  <2>2. SegmentsLeft(id) = Total(SegmentsOf(id), f)
    BY <1>3, TotalSame DEF SegmentsLeft
  <2> HIDE DEF f, h
  <2>3. Total(SegmentsOf(id) \cup {h}, f) = Total(SegmentsOf(id), f) + n
    BY <1>2, <1>3, TotalAdd
  <2>4. SegmentsLeft(id) \in Nat
    BY DEF RingFacts, LeftFacts
  <2> QED
    BY <1>2, <2>1, <2>2, <2>3, <2>4
<1>5. PrepLeft(id) = PrepLeft(id)' + IF id = MoveInPrep THEN n ELSE 0
  BY DEF PrepLeft, Cut, RingFacts
<1>6. PlannerQueued' = PlannerQueued /\ block_buffer' = block_buffer
  <2>1. CASE n < prep.steps_remaining
    BY <2>1 DEF Cut, PlannerQueued
  <2>2. CASE n = prep.steps_remaining
    <3>1. /\ PlannerBlockInPrep /\ ~PlannerBlockInPrep' /\ block_buffer_head' = block_buffer_head
          /\ block_buffer_tail' = plan_next_block_index(block_buffer_tail)
          /\ block_buffer' = block_buffer
      BY <2>2 DEF Cut, RingFacts
    <3>2. \A i \in Blocks : InRing(i, block_buffer_tail, block_buffer_head)'
            <=> InRing(i, block_buffer_tail, block_buffer_head) /\ i # block_buffer_tail
      <4>1. block_buffer_tail # block_buffer_head
        BY <3>1, RingBlocks DEF RingFacts
      <4>2. block_buffer_tail \in Blocks /\ block_buffer_head \in Blocks
        BY DEF RingFacts
      <4> QED
        BY <3>1, <4>1, <4>2, SizeAssumption DEF InRing, Blocks, plan_next_block_index
    <3> QED
      BY <3>1, <3>2 DEF PlannerQueued
  <2> QED
    BY <2>1, <2>2 DEF Cut, RingFacts
<1>7. PlannerLeft(id)' = PlannerLeft(id)
  <2>1. BlocksOf(id)' = BlocksOf(id) /\ BlockSteps' = BlockSteps
    BY <1>6 DEF BlocksOf, BlockSteps
  <2> QED
    BY <2>1, PlannerLeftStays
<1>8. LeftFacts(id) /\ LeftFacts(id)'
  BY DEF RingFacts
<1> QED
  BY <1>4, <1>5, <1>7, <1>8 DEF Left, LeftFacts

\* A step event is one of the oldest segment's move.
LEMMA EventLeft ==
  ASSUME RingFacts, RingFacts', Event, NEW id
  PROVE  Left(id) = Left(id)' + IF id = MoveOf(segment_buffer_tail) THEN 1 ELSE 0
<1> DEFINE t == segment_buffer_tail
           f == SegmentSteps'
           g == SegmentSteps
           S == SegmentsOf(id)
<1>1. PrepLeft(id)' = PrepLeft(id) /\ PlannerLeft(id)' = PlannerLeft(id)
  BY PrepStaysLeft, RingStaysLeft DEF Event, PrepStays
<1>2. t \in Pipeline /\ Pipeline \subseteq Slots
  BY DEF Event, RingFacts
<1>3. IsFiniteSet(S) /\ (\A i \in S : g[i] \in Nat) /\ (t \in S <=> id = MoveOf(t))
      /\ IsFiniteSet(S \ {t})
  BY <1>2, FS_Subset DEF RingFacts, SegmentsOf
<1>4. \A i \in S \ {t} : f[i] = g[i]
  BY DEF Event, SegmentsOf
<1>5. Total(S \ {t}, f) = Total(S \ {t}, g)
  <2> HIDE DEF f, g, S, t
  <2> QED
    BY <1>4, TotalSame
<1>6. t \in S => SegmentsLeft(id) = Total(S \ {t}, g) + g[t]
  <2>1. SegmentsLeft(id) = Total(S, g)
    BY DEF SegmentsLeft
  <2> HIDE DEF f, g, S, t
  <2> QED
    BY <1>3, <2>1, TotalRemove
<1>7. Total(S \ {t}, g) \in Nat
  <2> HIDE DEF g, S, t
  <2> QED
    BY <1>3, TotalType
<1>8. g[t] \in Nat /\ LeftFacts(id)' /\ LeftFacts(id)
  BY <1>2 DEF RingFacts
<1>9. CASE g[t] > 1
  <2>1. SegmentsOf(id)' = S /\ f[t] = g[t] - 1
    BY <1>2, <1>9 DEF SegmentsOf, Event, RingFacts
  <2>2. SegmentsLeft(id)' = Total(S, f)
    BY <2>1 DEF SegmentsLeft
  <2>3. t \in S => Total(S, f) = Total(S \ {t}, f) + f[t]
    <3>1. \A i \in S : i # t => f[i] \in Nat
      BY <1>3, <1>4
    <3>2. f[t] \in Nat
      BY <1>8, <1>9, <2>1
    <3> HIDE DEF f, g, S, t
    <3> QED
      BY <1>3, <3>1, <3>2, TotalRemove
  <2>4. t \notin S => SegmentsLeft(id)' = SegmentsLeft(id)
    <3>1. t \notin S => S \ {t} = S
      OBVIOUS
    <3> QED
      BY <1>4, <2>1, <3>1, SegmentsLeftStays
  <2> HIDE DEF f, g, S, t
  <2>5. SegmentsLeft(id) = SegmentsLeft(id)' + IF t \in S THEN 1 ELSE 0
    BY <1>5, <1>6, <1>7, <1>8, <2>1, <2>2, <2>3, <2>4 DEF LeftFacts
  <2> QED
    BY <1>1, <1>3, <1>8, <2>5 DEF Left, LeftFacts, t
<1>10. CASE g[t] = 1
  <2>1. SegmentsOf(id)' = S \ {t}
    BY <1>2, <1>10 DEF SegmentsOf, Event, RingFacts
  <2>2. SegmentsLeft(id)' = Total(S \ {t}, f)
    BY <2>1 DEF SegmentsLeft
  <2>3. t \notin S => SegmentsLeft(id)' = SegmentsLeft(id)
    <3>1. t \notin S => S \ {t} = S
      OBVIOUS
    <3> QED
      BY <1>4, <2>1, <3>1, SegmentsLeftStays
  <2>4. SegmentsLeft(id) = SegmentsLeft(id)' + IF t \in S THEN 1 ELSE 0
    <3> HIDE DEF f, g, S, t
    <3> QED
      BY <1>5, <1>6, <1>7, <1>8, <1>10, <2>2, <2>3 DEF LeftFacts
  <2> HIDE DEF f, g, S, t
  <2> QED
    BY <1>1, <1>3, <1>8, <2>4 DEF Left, LeftFacts, t
<1> QED
  BY <1>2, <1>8, <1>9, <1>10 DEF RingFacts

LEMMA DiscardLeft == ASSUME RingFacts', Discard, NEW id PROVE Left(id)' = 0
<1>1. SegmentsOf(id)' = {} /\ BlocksOf(id)' = {} /\ ~PlannerBlockInPrep'
  BY DEF Discard, SegmentsOf, BlocksOf, PlannerQueued, InBlocks
<1>2. LeftFacts(id)'
  BY DEF RingFacts
<1> QED
  BY <1>1, <1>2 DEF Left, LeftFacts

-----------------------------------------------------------------------------
(* The moves stay in order.                                                *)

InOrder == PlannerOrder /\ PrepOrder /\ SegmentOrder

\* The ring grows by one block, or the oldest leaves it.
LEMMA PlannedOrder ==
  ASSUME RingFacts, PlannerOrder, Plan
  PROVE  PlannerOrder' /\ BlockCount' = BlockCount + 1
<1> DEFINE h == block_buffer_head
<1>1. PICK n \in StepEvents, c \in BOOLEAN :
        block_buffer' = [block_buffer EXCEPT ![h] = [id |-> next_id, steps |-> n, callback |-> c]]
  BY DEF Plan
<1>2. h \in Blocks /\ block_buffer_tail \in Blocks /\ next_id \in Nat /\ BlockCount \in Nat
  BY DEF RingFacts
<1>3. BlockCount' = BlockCount + 1
  BY <1>2, SizeAssumption
     DEF Plan, BlockCount, Blocks, plan_next_block_index, plan_check_full_buffer
<1>4. ASSUME NEW i \in Blocks, InRing(i, block_buffer_tail, block_buffer_head)'
      PROVE  /\ Before(i) \in Nat
             /\ i = h => Before(i)' = 1
             /\ i # h => Before(i)' = Before(i) + 1 /\ InRing(i, block_buffer_tail, h)
  BY <1>2, <1>4, SizeAssumption
     DEF Plan, Before, InRing, Blocks, plan_next_block_index, plan_check_full_buffer
<1>5. /\ block_buffer'[h].id = next_id
      /\ \A i \in Blocks : i # h => block_buffer'[i] = block_buffer[i]
  BY <1>1, <1>2 DEF RingFacts
<1>6. next_id' = next_id + 1
  BY DEF Plan
<1>7. ASSUME NEW i \in Blocks, InRing(i, block_buffer_tail, block_buffer_head)'
      PROVE  block_buffer'[i].id = next_id' - Before(i)'
  <2>1. CASE i = h
    BY <1>2, <1>4, <1>5, <1>6, <1>7, <2>1
  <2>2. CASE i # h
    BY <1>2, <1>4, <1>5, <1>6, <1>7, <2>2 DEF PlannerOrder
  <2> QED
    BY <2>1, <2>2
<1> QED
  BY <1>2, <1>3, <1>6, <1>7 DEF PlannerOrder

LEMMA CutPlannerOrder ==
  ASSUME RingFacts, PlannerOrder, NEW n \in Nat, Cut(n)
  PROVE  /\ PlannerOrder'
         /\ BlockCount' = IF n < prep.steps_remaining THEN BlockCount ELSE BlockCount - 1
<1>1. CASE n < prep.steps_remaining
  BY <1>1 DEF Cut, PlannerOrder, BlockCount, Before, InRing
<1>2. CASE ~(n < prep.steps_remaining)
  <2>1. /\ block_buffer_tail' = plan_next_block_index(block_buffer_tail)
        /\ UNCHANGED <<block_buffer, block_buffer_head, next_id>> /\ BlockCount > 0
        /\ BlockCount \in Nat /\ next_id \in Nat
    BY <1>2 DEF Cut, RingFacts
  <2>2. block_buffer_tail # block_buffer_head
    BY <2>1, RingBlocks
  <2>3. block_buffer_tail \in Blocks /\ block_buffer_head \in Blocks
    BY DEF RingFacts
  <2>4. /\ BlockCount' = BlockCount - 1
        /\ \A i \in Blocks : InRing(i, block_buffer_tail, block_buffer_head)'
                               => InRing(i, block_buffer_tail, block_buffer_head)
        /\ \A i \in Blocks : Before(i)' = Before(i)
    BY <2>1, <2>2, <2>3, SizeAssumption
       DEF InRing, BlockCount, Before, Blocks, plan_next_block_index
  <2> QED
    BY <1>2, <2>1, <2>4 DEF PlannerOrder
<1> QED
  BY <1>1, <1>2

\* With the segments and the block in prep as they are, their order stays.
LEMMA SameOrder ==
  ASSUME RingFacts, SegmentsStay, PrepStays, SegmentOrder PROVE SegmentOrder'
<1>1. \A m : SegmentsOf(m)' = SegmentsOf(m)
  BY SegmentsStayLeft DEF RingFacts
<1>2. Pipeline # {} => MoveOf(segment_buffer_tail)' = MoveOf(segment_buffer_tail)
  BY DEF RingFacts, SegmentsStay
<1>3. /\ \A i \in Pipeline' : MoveOf(i)' \in 1 .. MoveInPrep'
      /\ \A i, j \in Pipeline' : Pos(i)' <= Pos(j)' => MoveOf(i)' <= MoveOf(j)'
  BY DEF RingFacts, SegmentsStay, PrepStays, SegmentOrder
<1>4. ASSUME Pipeline' # {}, NEW m \in MoveOf(segment_buffer_tail)' .. MoveInPrep'
      PROVE  (m = MoveInPrep' /\ PlannerBlockInPrep') \/ SegmentsOf(m)' # {}
  BY <1>1, <1>2, <1>4 DEF SegmentsStay, PrepStays, SegmentOrder
<1> QED
  BY <1>3, <1>4 DEF SegmentOrder

LEMMA StillOrder == ASSUME RingFacts, Still, InOrder PROVE InOrder'
<1>1. SegmentOrder'
  BY SameOrder DEF Still, InOrder
<1>2. PlannerOrder' /\ BlockCount' = BlockCount /\ next_id' = next_id
  BY DEF Still, InOrder, RingStays, PlannerOrder, BlockCount, Before, InRing
<1>3. PrepOrder'
  BY <1>2 DEF Still, InOrder, PrepStays, SegmentsStay, PrepOrder
<1> QED
  BY <1>1, <1>2, <1>3 DEF InOrder

LEMMA PlanOrder == ASSUME RingFacts, Plan, InOrder PROVE InOrder'
<1>1. SegmentOrder'
  BY SameOrder DEF Plan, InOrder
<1>2. PlannerOrder' /\ BlockCount' = BlockCount + 1 /\ next_id' = next_id + 1
  BY PlannedOrder DEF Plan, InOrder
<1>3. PrepOrder'
  BY <1>2 DEF Plan, InOrder, PrepStays, SegmentsStay, PrepOrder, RingFacts
<1> QED
  BY <1>1, <1>2, <1>3 DEF InOrder

LEMMA LoadBlockOrder ==
  ASSUME RingFacts, LoadBlock, InOrder
  PROVE  InOrder' /\ (Pipeline # {} => MoveInPrep' = MoveInPrep + 1)
<1>1. PlannerOrder' /\ BlockCount' = BlockCount /\ next_id' = next_id
  BY DEF LoadBlock, InOrder, RingStays, PlannerOrder, BlockCount, Before, InRing
<1>2. MoveInPrep' = next_id - BlockCount
  BY RingBlocks DEF LoadBlock, InOrder, PlannerOrder, RingFacts, InBlocks
<1>3. PrepOrder'
  BY <1>1, <1>2 DEF LoadBlock, PrepOrder
<1>4. Pipeline # {} => MoveInPrep' = MoveInPrep + 1
  BY <1>2 DEF LoadBlock, InOrder, PrepOrder
<1>5. \A m : SegmentsOf(m)' = SegmentsOf(m)
  BY SegmentsStayLeft DEF RingFacts, LoadBlock
<1>6. Pipeline # {} => MoveOf(segment_buffer_tail)' = MoveOf(segment_buffer_tail)
  BY DEF RingFacts, SegmentsStay, LoadBlock
<1>7. \A i \in Pipeline : MoveOf(i) \in 1 .. MoveInPrep
  BY DEF InOrder, SegmentOrder
<1>8. /\ \A i \in Pipeline' : MoveOf(i)' \in 1 .. MoveInPrep'
      /\ \A i, j \in Pipeline' : Pos(i)' <= Pos(j)' => MoveOf(i)' <= MoveOf(j)'
  BY <1>4, <1>7 DEF RingFacts, SegmentsStay, LoadBlock, InOrder, SegmentOrder
<1>9. ASSUME Pipeline' # {}, NEW m \in MoveOf(segment_buffer_tail)' .. MoveInPrep'
      PROVE  (m = MoveInPrep' /\ PlannerBlockInPrep') \/ SegmentsOf(m)' # {}
  <2>1. Pipeline # {} /\ PlannerBlockInPrep' /\ ~PlannerBlockInPrep
    BY <1>9 DEF SegmentsStay, LoadBlock
  <2>2. MoveInPrep \in Nat /\ MoveOf(segment_buffer_tail) \in Nat
    BY <2>1 DEF RingFacts
  <2>3. m = MoveInPrep' \/ m \in MoveOf(segment_buffer_tail) .. MoveInPrep
    BY <1>4, <1>6, <1>9, <2>1, <2>2
  <2> QED
    BY <1>5, <2>1, <2>3 DEF InOrder, SegmentOrder
<1> QED
  BY <1>1, <1>3, <1>4, <1>8, <1>9 DEF InOrder, SegmentOrder

LEMMA CutOrder ==
  ASSUME RingFacts, RingFacts', NEW n \in Nat, Cut(n), InOrder PROVE InOrder'
<1> DEFINE h == segment_buffer_head
           t == segment_buffer_tail
<1>1. /\ PlannerOrder'
      /\ BlockCount' = IF n < prep.steps_remaining THEN BlockCount ELSE BlockCount - 1
      /\ next_id' = next_id /\ MoveInPrep' = MoveInPrep /\ PlannerBlockInPrep
      /\ PlannerBlockInPrep' <=> n < prep.steps_remaining
  BY CutPlannerOrder DEF InOrder, Cut, RingFacts
<1>2. MoveInPrep = next_id - BlockCount /\ MoveInPrep \in Nat /\ MoveInPrep > 0
      /\ BlockCount \in Nat /\ next_id \in Nat
  BY <1>1 DEF InOrder, PrepOrder, PlannerOrder, RingFacts
<1>3. PrepOrder'
  BY <1>1, <1>2 DEF PrepOrder
<1>4. /\ Pipeline' = Pipeline \cup {h} /\ h \notin Pipeline /\ MoveOf(h)' = MoveInPrep
      /\ h \in Slots /\ t' = t /\ h' = h
      /\ \A i \in Pipeline : MoveOf(i)' = MoveOf(i) /\ Pos(i)' = Pos(i) /\ Pos(i)' < Pos(h)'
      /\ Pos(h)' \in Nat
  BY DEF Cut, RingFacts
<1>5. \A i \in Pipeline : MoveOf(i) \in 1 .. MoveInPrep /\ Pos(i) \in Nat /\ MoveOf(i) \in Nat
  BY DEF InOrder, SegmentOrder, RingFacts
<1>6. \A i \in Pipeline' : MoveOf(i)' \in 1 .. MoveInPrep'
  BY <1>1, <1>2, <1>4, <1>5
<1>7. ASSUME NEW i \in Pipeline', NEW j \in Pipeline', Pos(i)' <= Pos(j)'
      PROVE  MoveOf(i)' <= MoveOf(j)'
  <2>1. CASE j = h
    BY <1>1, <1>2, <1>4, <1>6, <2>1
  <2>2. CASE i = h /\ j # h
    BY <1>4, <1>5, <1>7, <2>2
  <2>3. CASE i # h /\ j # h
    BY <1>4, <1>5, <1>7, <2>3 DEF InOrder, SegmentOrder
  <2> QED
    BY <2>1, <2>2, <2>3
<1>8. ASSUME NEW m \in MoveOf(segment_buffer_tail)' .. MoveInPrep'
      PROVE  SegmentsOf(m)' # {}
  <2>1. CASE m = MoveInPrep
    BY <1>4, <2>1 DEF SegmentsOf
  <2>2. CASE m # MoveInPrep
    <3>1. t \in Pipeline
      <4>1. t \in Pipeline'
        BY <1>4 DEF RingFacts
      <4>2. t # h
        BY <1>1, <1>2, <1>4, <1>8, <2>2
      <4> QED
        BY <1>4, <4>1, <4>2
    <3>2. MoveOf(segment_buffer_tail)' = MoveOf(segment_buffer_tail)
      BY <1>4, <3>1
    <3>3. SegmentsOf(m) # {}
      BY <1>1, <1>8, <2>2, <3>1, <3>2 DEF InOrder, SegmentOrder
    <3> QED
      BY <1>4, <3>3 DEF SegmentsOf
  <2> QED
    BY <2>1, <2>2
<1> QED
  BY <1>1, <1>3, <1>6, <1>7, <1>8 DEF InOrder, SegmentOrder

LEMMA EventOrder == ASSUME RingFacts, RingFacts', Event, InOrder PROVE InOrder'
<1> DEFINE t == segment_buffer_tail
<1>1. PlannerOrder' /\ BlockCount' = BlockCount /\ next_id' = next_id
  BY DEF Event, InOrder, RingStays, PlannerOrder, BlockCount, Before, InRing
<1>2. t \in Pipeline /\ Pipeline' \subseteq Pipeline /\ Pipeline \subseteq Slots /\ Pos(t) = 0
  BY DEF Event, RingFacts
<1>3. PrepOrder'
  BY <1>1, <1>2 DEF Event, InOrder, PrepStays, PrepOrder
<1>4. /\ \A i \in Pipeline : MoveOf(i)' = MoveOf(i) /\ MoveOf(i) \in 1 .. MoveInPrep
                            /\ MoveOf(i) \in Nat /\ Pos(i) \in Nat /\ Pos(i)' \in Nat
                            /\ MoveOf(t) <= MoveOf(i)
      /\ MoveInPrep' = MoveInPrep /\ MoveInPrep \in Nat
  BY <1>2 DEF Event, PrepStays, InOrder, SegmentOrder, RingFacts
<1>5. /\ \A i \in Pipeline' : Pos(i) = Pos(i)'
      \/ \A i \in Pipeline' : Pos(i) = Pos(i)' + 1
  BY <1>2 DEF Event
<1>6. ASSUME NEW i \in Pipeline', NEW j \in Pipeline', Pos(i)' <= Pos(j)'
      PROVE  MoveOf(i)' <= MoveOf(j)'
  <2>1. Pos(i) <= Pos(j)
    BY <1>2, <1>4, <1>5, <1>6
  <2> QED
    BY <1>2, <1>4, <2>1 DEF InOrder, SegmentOrder
<1>7. ASSUME Pipeline' # {}, NEW m \in MoveOf(segment_buffer_tail)' .. MoveInPrep'
      PROVE  (m = MoveInPrep' /\ PlannerBlockInPrep') \/ SegmentsOf(m)' # {}
  <2>1. PICK u \in Pipeline' : u = segment_buffer_tail' /\ u \in Pipeline
    BY <1>2, <1>7 DEF RingFacts
  <2>2. MoveOf(segment_buffer_tail)' = MoveOf(u)
    BY <1>2, <2>1 DEF Event, MoveOf
  <2>3. m \in MoveOf(t) .. MoveInPrep
    BY <1>2, <1>4, <1>7, <2>1, <2>2
  <2>4. (m = MoveInPrep /\ PlannerBlockInPrep) \/ SegmentsOf(m) # {}
    BY <1>2, <2>3 DEF InOrder, SegmentOrder
  <2>5. ASSUME SegmentsOf(m) # {} PROVE SegmentsOf(m)' # {}
    <3>1. PICK i \in Pipeline : MoveOf(i) = m
      BY <2>5 DEF SegmentsOf
    <3>2. CASE i \in Pipeline'
      BY <1>4, <3>1, <3>2 DEF SegmentsOf
    <3>3. CASE i \notin Pipeline'
      <4>1. i = t
        BY <3>1, <3>3 DEF Event
      <4>2. MoveOf(u) = m
        BY <1>2, <1>4, <1>7, <2>1, <2>2, <3>1, <4>1
      <4>3. MoveOf(u)' = m
        BY <2>1, <4>2, <1>2 DEF Event, MoveOf
      <4> QED
        BY <2>1, <2>2, <4>2, <1>4 DEF SegmentsOf
    <3> QED
      BY <3>2, <3>3
  <2> QED
    BY <1>4, <2>4, <2>5 DEF Event, PrepStays
<1>8. \A i \in Pipeline' : MoveOf(i)' \in 1 .. MoveInPrep'
  BY <1>2, <1>4
<1> QED
  BY <1>1, <1>3, <1>6, <1>7, <1>8 DEF InOrder, SegmentOrder

LEMMA DiscardOrder == ASSUME RingFacts, Discard, InOrder PROVE InOrder'
<1>1. BlockCount < next_id /\ next_id \in Nat /\ BlockCount \in Nat
  BY DEF InOrder, PlannerOrder, RingFacts
<1>2. PlannerOrder'
  BY <1>1 DEF Discard, InBlocks, PlannerOrder
<1> QED
  BY <1>2 DEF InOrder, Discard, PrepOrder, SegmentOrder

-----------------------------------------------------------------------------
(* The queue of the moves that are left.                                   *)

\* A move that was planned has steps left if and only if it is not older than move k.
LeftFrom(k) ==
  /\ k \in 1 .. next_id
  /\ \A j \in 1 .. k - 1 : Left(j) = 0
  /\ \A j \in k .. next_id - 1 : Left(j) \in Nat /\ Left(j) > 0

\* The oldest segment's move is the oldest of all; without one, it is the oldest of
\* the planner ring.
First == IF Pipeline # {} THEN MoveOf(segment_buffer_tail) ELSE next_id - BlockCount

LEMMA LeftZero ==
  ASSUME RingFacts, NEW id
  PROVE  /\ Left(id) \in Nat
         /\ Left(id) = 0 <=> /\ SegmentsOf(id) = {} /\ BlocksOf(id) = {}
                             /\ ~(PlannerBlockInPrep /\ MoveInPrep = id)
<1>1. LeftFacts(id)
  BY DEF RingFacts
<1> QED
  BY <1>1 DEF LeftFacts, Left

LEMMA LeftOfYounger ==
  ASSUME RingFacts, InOrder, NEW id \in Nat, id >= next_id PROVE Left(id) = 0
<1>1. BlockCount \in Nat /\ next_id \in Nat /\ MoveInPrep \in Nat /\ BlockCount < next_id
      /\ (PlannerBlockInPrep => BlockCount > 0)
  BY DEF RingFacts, InOrder, PlannerOrder
<1>2. PlannerBlockInPrep => MoveInPrep < next_id
  BY <1>1 DEF InOrder, PrepOrder
<1>3. \A i \in Pipeline : MoveOf(i) \in Nat /\ MoveOf(i) < next_id
  BY <1>1, <1>2 DEF InOrder, PrepOrder, SegmentOrder
<1>4. \A i \in PlannerQueued : block_buffer[i].id < next_id
  <2> SUFFICES ASSUME NEW i \in PlannerQueued PROVE block_buffer[i].id < next_id
    OBVIOUS
  <2>1. i \in Blocks /\ InBlocks(i)
    BY DEF RingFacts
  <2>2. Before(i) \in 1 .. BlockCount
    BY <2>1, RingBlocks
  <2> QED
    BY <1>1, <2>1, <2>2 DEF InOrder, PlannerOrder, InBlocks
<1>5. \A i \in PlannerQueued : block_buffer[i].id \in Nat
  BY DEF RingFacts
<1> QED
  BY <1>1, <1>2, <1>3, <1>4, <1>5, LeftZero DEF SegmentsOf, BlocksOf

LEMMA LeftFromFirst == ASSUME RingFacts, InOrder PROVE LeftFrom(First)
<1>1. BlockCount \in Nat /\ next_id \in Nat /\ MoveInPrep \in Nat /\ BlockCount < next_id
      /\ (PlannerBlockInPrep => BlockCount > 0)
  BY DEF RingFacts, InOrder, PlannerOrder
<1>2. /\ PlannerBlockInPrep => MoveInPrep = next_id - BlockCount
      /\ Pipeline # {} => MoveInPrep + 1 >= next_id - BlockCount /\ MoveInPrep < next_id
  BY <1>1 DEF InOrder, PrepOrder
<1>3. Pipeline # {} =>
        /\ First \in Nat /\ First \in 1 .. MoveInPrep /\ First <= next_id - BlockCount
        /\ \A i \in Pipeline : MoveOf(i) \in Nat /\ First <= MoveOf(i)
  <2> SUFFICES ASSUME Pipeline # {}
               PROVE  /\ First \in Nat /\ First \in 1 .. MoveInPrep
                      /\ First <= next_id - BlockCount
                      /\ \A i \in Pipeline : MoveOf(i) \in Nat /\ First <= MoveOf(i)
    OBVIOUS
  <2>1. /\ segment_buffer_tail \in Pipeline /\ Pos(segment_buffer_tail) = 0
        /\ \A i \in Pipeline : Pos(i) \in Nat /\ MoveOf(i) \in Nat
    BY DEF RingFacts
  <2>2. \A i \in Pipeline : First <= MoveOf(i)
    BY <2>1 DEF First, InOrder, SegmentOrder
  <2>3. First \in Nat /\ First \in 1 .. MoveInPrep
    BY <2>1 DEF First, InOrder, SegmentOrder
  <2>4. First <= next_id - BlockCount
    BY <1>1, <1>2, <2>3 DEF InOrder, PrepOrder
  <2> QED
    BY <2>1, <2>2, <2>3, <2>4
<1>4. Pipeline = {} => First = next_id - BlockCount
  BY DEF First
<1>5. First \in Nat /\ First \in 1 .. next_id /\ First <= next_id - BlockCount
  BY <1>1, <1>2, <1>3, <1>4
<1>6. ASSUME NEW j \in 1 .. First - 1 PROVE Left(j) = 0
  <2>1. SegmentsOf(j) = {}
    BY <1>3, <1>5, <1>6 DEF SegmentsOf
  <2>2. ~(PlannerBlockInPrep /\ MoveInPrep = j)
    BY <1>1, <1>2, <1>5, <1>6
  <2>3. BlocksOf(j) = {}
    <3> SUFFICES ASSUME NEW i \in PlannerQueued, block_buffer[i].id = j PROVE FALSE
      BY DEF BlocksOf
    <3>1. i \in Blocks /\ InBlocks(i)
      BY DEF RingFacts
    <3>2. Before(i) \in 1 .. BlockCount
      BY <3>1, RingBlocks
    <3>3. j = next_id - Before(i)
      BY <3>1 DEF InOrder, PlannerOrder, InBlocks
    <3> QED
      BY <1>1, <1>5, <1>6, <3>2, <3>3
  <2> QED
    BY <2>1, <2>2, <2>3, LeftZero
<1>7. ASSUME NEW j \in First .. next_id - 1 PROVE Left(j) \in Nat /\ Left(j) > 0
  <2>1. ASSUME j > next_id - BlockCount PROVE BlocksOf(j) # {}
    <3>1. next_id - j \in 1 .. BlockCount - 1
      BY <1>1, <1>5, <1>7, <2>1
    <3>2. PICK i \in Blocks : /\ InBlocks(i) /\ Before(i) = next_id - j
                              /\ i # block_buffer_tail
      BY <3>1, RingBlocks
    <3>3. block_buffer[i].id = j
      BY <1>1, <1>5, <1>7, <3>2 DEF InOrder, PlannerOrder, InBlocks
    <3> QED
      BY <3>2, <3>3 DEF BlocksOf, PlannerQueued, InBlocks
  <2>2. ASSUME j = next_id - BlockCount, ~PlannerBlockInPrep PROVE BlocksOf(j) # {}
    <3>1. BlockCount > 0
      BY <1>1, <1>5, <1>7, <2>2
    <3>2. /\ block_buffer_tail \in Blocks /\ InBlocks(block_buffer_tail)
          /\ Before(block_buffer_tail) = BlockCount
      BY <3>1, RingBlocks DEF RingFacts
    <3>3. block_buffer[block_buffer_tail].id = j
      BY <2>2, <3>2 DEF InOrder, PlannerOrder, InBlocks
    <3> QED
      BY <2>2, <3>2, <3>3 DEF BlocksOf, PlannerQueued, InBlocks
  <2>3. ASSUME j < next_id - BlockCount PROVE SegmentsOf(j) # {}
    <3>1. Pipeline # {} /\ j \in MoveOf(segment_buffer_tail) .. MoveInPrep
      BY <1>1, <1>2, <1>3, <1>4, <1>5, <1>7, <2>3 DEF First
    <3>2. ~(j = MoveInPrep /\ PlannerBlockInPrep)
      BY <1>1, <1>2, <2>3
    <3> QED
      BY <3>1, <3>2 DEF InOrder, SegmentOrder
  <2>4. j \in Nat /\ (j > next_id - BlockCount \/ j < next_id - BlockCount
                      \/ j = next_id - BlockCount)
    BY <1>1, <1>5, <1>7
  <2>5. Left(j) \in Nat /\ Left(j) # 0
    BY <1>2, <2>1, <2>2, <2>3, <2>4, LeftZero
  <2> QED
    BY <2>5
<1> QED
  BY <1>5, <1>6, <1>7 DEF LeftFrom

\* There is only one such move, Oldest.
LEMMA OldestIs ==
  ASSUME NEW k, LeftFrom(k), next_id \in Nat PROVE Oldest = k
<1> DEFINE P(m) == /\ m \in 1 .. next_id
                   /\ m = next_id \/ Left(m) > 0
                   /\ \A j \in 1 .. m - 1 : Left(j) = 0
<1>1. P(k)
  BY DEF LeftFrom
<1>2. Oldest = CHOOSE m \in 1 .. next_id : (m = next_id \/ Left(m) > 0)
                                            /\ \A j \in 1 .. m - 1 : Left(j) = 0
  BY Zenon DEF Oldest
<1>3. P(Oldest)
  BY <1>1, <1>2
<1> QED
  BY <1>1, <1>3 DEF LeftFrom

LEMMA FunctionIsSeq ==
  ASSUME NEW S, NEW n \in Nat, NEW q, q = [i \in 1 .. n |-> q[i]], \A i \in 1 .. n : q[i] \in S
  PROVE  q \in Seq(S) /\ Len(q) = n
  OBVIOUS

\* The queue, if move k is the oldest.
PendingFrom(k) == [i \in 1 .. next_id - k |-> [id |-> k + (i - 1), left |-> Left(k + (i - 1))]]

QueueFacts == \A k : LeftFrom(k) /\ next_id \in Nat => Oldest = k /\ Pending = PendingFrom(k)

LEMMA QueueIs == QueueFacts
<1> SUFFICES ASSUME NEW k, LeftFrom(k), next_id \in Nat PROVE Oldest = k /\ Pending = PendingFrom(k)
  BY DEF QueueFacts
<1>1. Oldest = k /\ k \in 1 .. next_id
  BY OldestIs DEF LeftFrom
<1> DEFINE n == next_id - 1
           p == PendingFrom(k)
           S == {Moves[i] : i \in k .. n}
<1>2. n \in Int /\ k \in Int /\ n - k + 1 = next_id - k
  BY <1>1
<1>3. /\ Pending \in Seq(S)
      /\ Len(Pending) = next_id - k
      /\ \A i \in 1 .. next_id - k : Pending[i] = Moves[k + i - 1]
  <2>1. \A i \in k .. n : Moves[i] \in S
    OBVIOUS
  <2> HIDE DEF n, S
  <2>2. /\ SubSeq(Moves, k, n) \in Seq(S)
        /\ Len(SubSeq(Moves, k, n)) = IF k <= n THEN n - k + 1 ELSE 0
        /\ \A i \in 1 .. n - k + 1 : SubSeq(Moves, k, n)[i] = Moves[k + i - 1]
    BY <1>2, <2>1, SubSeqProperties
  <2>3. Pending = SubSeq(Moves, k, n)
    BY <1>1 DEF Pending, n
  <2>4. k <= n \/ next_id - k = 0
    BY <1>1 DEF n
  <2>5. ~(k <= n) \/ next_id - k = n - k + 1
    BY <1>2
  <2>6. Len(Pending) = next_id - k
    BY <1>1, <1>2, <2>2, <2>3, <2>4 DEF n
  <2> QED
    BY <1>2, <2>2, <2>3, <2>6
<1>4. \A i \in 1 .. next_id - k : /\ p[i] = Moves[k + i - 1]
                                 /\ k + i - 1 \in k .. n
  <2> SUFFICES ASSUME NEW i \in 1 .. next_id - k
               PROVE  p[i] = Moves[k + i - 1] /\ k + i - 1 \in k .. n
    OBVIOUS
  <2>1. k + i - 1 \in 1 .. n /\ k + i - 1 \in k .. n /\ k + i - 1 = k + (i - 1)
    BY <1>1
  <2> QED
    BY <2>1 DEF PendingFrom, Moves
<1>5. p = [i \in 1 .. next_id - k |-> p[i]] /\ next_id - k \in Nat
  BY <1>1 DEF PendingFrom
<1>6. \A i \in 1 .. next_id - k : p[i] \in S
  BY <1>4
<1> HIDE DEF n, p, S
<1>7. p \in Seq(S) /\ Len(p) = next_id - k
  BY <1>5, <1>6, FunctionIsSeq
<1>8. Pending = p
  BY <1>3, <1>4, <1>7, SeqEqual
<1> QED
  BY <1>1, <1>8 DEF p

LEMMA NextQueueIs == QueueFacts'
  BY QueueIs, PTL

LEMMA SamePending ==
  ASSUME RingFacts, InOrder, \A id : Left(id)' = Left(id), next_id' = next_id
  PROVE  Pending' = Pending
<1> DEFINE k == First
<1>1. LeftFrom(k) /\ next_id \in Nat
  BY LeftFromFirst DEF RingFacts
<1> HIDE DEF k
<1>2. PICK m : m = k
  OBVIOUS
<1>3. LeftFrom(m)
  BY <1>1, <1>2
<1>4. LeftFrom(m)'
  BY <1>3 DEF LeftFrom
<1>5. PendingFrom(m)' = PendingFrom(m)
  BY DEF PendingFrom
<1>6. Pending = PendingFrom(m)
  BY <1>1, <1>3, QueueIs DEF QueueFacts
<1>7. Pending' = PendingFrom(m)'
  BY <1>1, <1>4, NextQueueIs DEF QueueFacts
<1> QED
  BY <1>5, <1>6, <1>7

LEMMA PlanEnqueues ==
  ASSUME RingFacts, RingFacts', InOrder, Plan PROVE Queue!Enqueue
<1>1. LeftFrom(First) /\ next_id \in Nat /\ next_id' = next_id + 1 /\ next_id <= MaxBlocks
  BY LeftFromFirst DEF RingFacts, Plan
<1>2. PICK n \in StepEvents : block_buffer'[block_buffer_head].steps = n /\ n \in Nat /\ n > 0
  BY ValueAssumption DEF Plan, RingFacts
<1>3. \A id : Left(id)' = IF id = next_id THEN Left(id) + n ELSE Left(id)
  BY <1>2, PlanLeft
<1>4. Left(next_id) = 0
  BY <1>1, LeftOfYounger
<1>5. PICK m : m = First
  OBVIOUS
<1>6. LeftFrom(m)
  BY <1>1, <1>5
<1>7. m \in 1 .. next_id
  BY <1>6 DEF LeftFrom
<1>8. LeftFrom(m)'
  <2>1. \A j \in 1 .. m - 1 : Left(j)' = 0
    BY <1>1, <1>3, <1>6, <1>7 DEF LeftFrom
  <2>2. \A j \in m .. next_id - 1 : Left(j)' \in Nat /\ Left(j)' > 0
    BY <1>1, <1>3, <1>6, <1>7 DEF LeftFrom
  <2>3. \A j : j = next_id => Left(j)' = n
    BY <1>2, <1>3, <1>4
  <2> QED
    BY <1>1, <1>2, <1>7, <2>1, <2>2, <2>3 DEF LeftFrom
<1>9. Pending = PendingFrom(m)
  BY <1>1, <1>6, QueueIs DEF QueueFacts
<1>10. Pending' = PendingFrom(m)'
  BY <1>1, <1>8, NextQueueIs DEF QueueFacts
<1>11. PendingFrom(m)' = Append(PendingFrom(m), [id |-> next_id, left |-> n])
  BY <1>1, <1>2, <1>3, <1>4, <1>7 DEF PendingFrom
<1> QED
  BY <1>1, <1>9, <1>10, <1>11 DEF Queue!Enqueue

LEMMA HeadAndTail ==
  ASSUME NEW S, NEW q \in Seq(S), q # <<>>
  PROVE  Head(q) = q[1] /\ Tail(q) = [i \in 1 .. Len(q) - 1 |-> q[i + 1]]
<1>1. Head(q) = q[1]
  OBVIOUS
<1>2. Len(q) \in Nat /\ Len(q) > 0
  OBVIOUS
<1> DEFINE r == [i \in 1 .. Len(q) - 1 |-> q[i + 1]]
<1>3. r \in Seq(S) /\ Len(r) = Len(q) - 1
  <2>1. \A i \in 1 .. Len(q) - 1 : q[i + 1] \in S
    BY <1>2, ElementOfSeq
  <2> QED
    BY <1>2, <2>1
<1>4. /\ Tail(q) \in Seq(S) /\ Len(Tail(q)) = Len(q) - 1
      /\ \A i \in 1 .. Len(Tail(q)) : Tail(q)[i] = q[i + 1]
  BY HeadTailProperties
<1>5. \A i \in 1 .. Len(r) : Tail(q)[i] = r[i]
  BY <1>3, <1>4
<1> HIDE DEF r
<1>6. Tail(q) = r
  BY <1>3, <1>4, <1>5, SeqEqual
<1> QED
  BY <1>1, <1>6 DEF r

LEMMA EventStepsQueue ==
  ASSUME RingFacts, RingFacts', InOrder, Event PROVE Queue!StepEvent
<1>1. LeftFrom(First) /\ next_id \in Nat /\ next_id' = next_id
      /\ First = MoveOf(segment_buffer_tail)
  BY LeftFromFirst DEF RingFacts, Event, RingStays, First
<1>2. PICK m : m = First
  OBVIOUS
<1>3. LeftFrom(m) /\ m \in 1 .. next_id
  BY <1>1, <1>2 DEF LeftFrom
<1>4. \A id : Left(id) = Left(id)' + IF id = m THEN 1 ELSE 0
  BY <1>1, <1>2, EventLeft
<1>5. \A id : Left(id) \in Nat /\ Left(id)' \in Nat
  <2>1. \A id : LeftFacts(id) /\ LeftFacts(id)'
    BY DEF RingFacts
  <2> QED
    BY <2>1 DEF LeftFacts, Left
<1>6. m < next_id
  <2>1. Left(m) # 0
    BY <1>4, <1>5
  <2> QED
    BY <1>1, <1>3, <2>1, LeftOfYounger, InOrder, RingFacts
<1>7. /\ \A id : id # m => Left(id)' = Left(id)
      /\ Left(m)' = Left(m) - 1 /\ Left(m) > 0
  BY <1>4, <1>5
<1> DEFINE q == PendingFrom(m)
<1>8. Pending = q
  BY <1>1, <1>3, QueueIs DEF QueueFacts
<1>9. q # <<>> /\ Head(q) = [id |-> m, left |-> Left(m)]
      /\ q = [i \in 1 .. next_id - m |-> [id |-> m + (i - 1), left |-> Left(m + (i - 1))]]
      /\ Len(q) = next_id - m /\ Tail(q) = [i \in 1 .. Len(q) - 1 |-> q[i + 1]]
  <2>1. q = [i \in 1 .. next_id - m |-> [id |-> m + (i - 1), left |-> Left(m + (i - 1))]]
    BY DEF PendingFrom
  <2>2. next_id - m \in Nat /\ next_id - m > 0 /\ m \in Nat
    BY <1>1, <1>3, <1>6
  <2>3. Len(q) = next_id - m
    BY <2>1, <2>2
  <2>4. q[1] = [id |-> m, left |-> Left(m)]
    <3>1. m + (1 - 1) = m
      BY <2>2
    <3> QED
      BY <2>1, <2>2, <3>1
  <2>5. q \in Seq([id : Nat, left : Nat]) /\ q # <<>>
    <3>1. \A i \in 1 .. next_id - m : q[i] \in [id : Nat, left : Nat]
      BY <1>5, <2>1, <2>2
    <3>2. q = [i \in 1 .. next_id - m |-> q[i]]
      BY <2>1
    <3>3. q \in Seq([id : Nat, left : Nat])
      <4> HIDE DEF q
      <4> QED
        BY <2>2, <3>1, <3>2, FunctionIsSeq
    <3>4. q # <<>>
      <4> HIDE DEF q
      <4> QED
        BY <2>2, <2>3
    <3> QED
      BY <3>3, <3>4
  <2>6. Head(q) = q[1] /\ Tail(q) = [i \in 1 .. Len(q) - 1 |-> q[i + 1]]
    BY <2>5, HeadAndTail
  <2> QED
    BY <2>1, <2>3, <2>4, <2>5, <2>6
<1>10. CASE Left(m) = 1
  <2>1. LeftFrom(m + 1)'
    <3>1. \A j \in 1 .. m : Left(j)' = 0
      BY <1>3, <1>5, <1>7, <1>10 DEF LeftFrom
    <3>2. \A j \in m + 1 .. next_id - 1 : Left(j)' \in Nat /\ Left(j)' > 0
      BY <1>1, <1>3, <1>5, <1>7 DEF LeftFrom
    <3> QED
      BY <1>1, <1>3, <1>6, <3>1, <3>2 DEF LeftFrom
  <2>2. Pending' = PendingFrom(m + 1)'
    BY <1>1, <2>1, NextQueueIs DEF QueueFacts
  <2>3. PendingFrom(m + 1)' = Tail(q)
    <3>1. PendingFrom(m + 1)'
            = [i \in 1 .. next_id - (m + 1) |->
                 [id |-> m + 1 + (i - 1), left |-> Left(m + 1 + (i - 1))']]
      BY <1>1 DEF PendingFrom
    <3>2. Tail(q) = [i \in 1 .. Len(q) - 1 |-> q[i + 1]]
      BY <1>9
    <3> HIDE DEF q
    <3>3. ASSUME NEW i \in 1 .. next_id - (m + 1)
          PROVE  [id |-> m + 1 + (i - 1), left |-> Left(m + 1 + (i - 1))'] = q[i + 1]
      <4>1. /\ i + 1 \in 1 .. next_id - m /\ m + 1 + (i - 1) = m + (i + 1 - 1)
            /\ m + 1 + (i - 1) # m
        BY <1>1, <1>3, <3>3
      <4> QED
        BY <1>7, <1>9, <4>1
    <3>4. Len(q) - 1 = next_id - (m + 1)
      BY <1>1, <1>3, <1>9
    <3> QED
      BY <3>1, <3>2, <3>3, <3>4
  <2> QED
    <3> HIDE DEF q
    <3>1. Pending # <<>> /\ Head(Pending).left = 1
      BY <1>8, <1>9, <1>10
    <3>2. Pending' = Tail(Pending)
      BY <1>8, <2>2, <2>3
    <3> QED
      BY <1>1, <3>1, <3>2 DEF Queue!StepEvent
<1>11. CASE Left(m) # 1
  <2>1. LeftFrom(m)'
    <3>1. \A j \in 1 .. m - 1 : Left(j)' = 0
      BY <1>3, <1>5, <1>7 DEF LeftFrom
    <3>2. \A j \in m .. next_id - 1 : Left(j)' \in Nat /\ Left(j)' > 0
      BY <1>1, <1>3, <1>5, <1>7, <1>11 DEF LeftFrom
    <3> QED
      BY <1>1, <1>3, <3>1, <3>2 DEF LeftFrom
  <2>2. Pending' = PendingFrom(m)'
    BY <1>1, <2>1, NextQueueIs DEF QueueFacts
  <2>3. PendingFrom(m)' = [q EXCEPT ![1].left = @ - 1]
    <3>1. PendingFrom(m)'
            = [i \in 1 .. next_id - m |-> [id |-> m + (i - 1), left |-> Left(m + (i - 1))']]
      BY <1>1 DEF PendingFrom
    <3>2. ASSUME NEW i \in 1 .. next_id - m
          PROVE  [id |-> m + (i - 1), left |-> Left(m + (i - 1))']
                   = [q EXCEPT ![1].left = @ - 1][i]
      <4>1. CASE i = 1
        BY <1>1, <1>3, <1>6, <1>7, <1>9, <3>2, <4>1
      <4>2. CASE i # 1
        BY <1>1, <1>3, <1>6, <1>7, <1>9, <3>2, <4>2
      <4> QED
        BY <4>1, <4>2
    <3>3. q = [i \in 1 .. next_id - m |-> q[i]]
      BY <1>9
    <3> HIDE DEF q
    <3> QED
      BY <3>1, <3>2, <3>3
  <2> QED
    BY <1>1, <1>8, <1>9, <1>11, <2>2, <2>3 DEF Queue!StepEvent
<1> QED
  BY <1>10, <1>11

LEMMA DiscardFlushes ==
  ASSUME RingFacts, RingFacts', InOrder, Discard PROVE Queue!Flush
<1>1. next_id \in Nat /\ next_id' = next_id /\ next_id > 0
  BY DEF RingFacts, Discard, InOrder, PlannerOrder
<1>2. PICK m : m = next_id
  OBVIOUS
<1>3. LeftFrom(m)'
  BY <1>1, <1>2, DiscardLeft DEF LeftFrom
<1>4. Pending' = PendingFrom(m)'
  BY <1>1, <1>3, NextQueueIs DEF QueueFacts
<1>5. PendingFrom(m)' = <<>>
  BY <1>1, <1>2 DEF PendingFrom
<1> QED
  BY <1>1, <1>4, <1>5 DEF Queue!Flush

-----------------------------------------------------------------------------
(* A callback waits for the last step of its move.                         *)

CallbackKept(i, c) == c < next_id /\ (Left(c) = 0 \/ LastSegmentOf(i, c))

\* CallbackOrder, of slot i and the callback c it has.
Waiting == \A i \in Slots : \A c : c = segment_buffer[i].callback /\ c # 0 => CallbackKept(i, c)

LEMMA WaitingIs == CallbackOrder <=> Waiting
  BY DEF CallbackOrder, Waiting, CallbackKept

LEMMA NextWaitingIs == CallbackOrder' <=> Waiting'
  BY WaitingIs, PTL

LEMMA LastStays ==
  ASSUME RingFacts, SegmentsStay, PrepStays, NEW i, NEW c, LastSegmentOf(i, c)
  PROVE  LastSegmentOf(i, c)'
<1>1. SegmentsOf(c)' = SegmentsOf(c)
  BY SegmentsStayLeft DEF RingFacts
<1>2. SegmentsOf(c) \subseteq Slots
  BY DEF RingFacts, SegmentsOf
<1> QED
  BY <1>1, <1>2 DEF LastSegmentOf, SegmentsStay, PrepStays

LEMMA StillCallbacks == ASSUME RingFacts, Still, Waiting PROVE Waiting'
<1> SUFFICES ASSUME NEW i \in Slots, NEW c, c = segment_buffer'[i].callback, c # 0
             PROVE  CallbackKept(i, c)'
  BY DEF Waiting
<1>1. CallbackKept(i, c)
  BY DEF Still, CallbacksStay, Waiting
<1>2. Left(c)' = Left(c) /\ next_id' = next_id
  BY StillLeft DEF Still, RingStays
<1> QED
  BY <1>1, <1>2, LastStays DEF CallbackKept, Still

LEMMA PlanCallbacks == ASSUME RingFacts, RingFacts', Plan, Waiting PROVE Waiting'
<1> SUFFICES ASSUME NEW i \in Slots, NEW c, c = segment_buffer'[i].callback, c # 0
             PROVE  CallbackKept(i, c)'
  BY DEF Waiting
<1>1. CallbackKept(i, c) /\ c \in Nat /\ next_id \in Nat
  BY DEF Plan, CallbacksStay, Waiting, RingFacts
<1>2. c # next_id /\ c < next_id /\ next_id' = next_id + 1
  BY <1>1 DEF Plan, CallbackKept
<1>3. Left(c)' = Left(c)
  BY <1>2, PlanLeft
<1> QED
  BY <1>1, <1>2, <1>3, LastStays DEF CallbackKept, Plan

LEMMA LoadBlockCallbacks ==
  ASSUME RingFacts, RingFacts', LoadBlock, InOrder, Waiting PROVE Waiting'
<1> SUFFICES ASSUME NEW i \in Slots, NEW c, c = segment_buffer'[i].callback, c # 0
             PROVE  CallbackKept(i, c)'
  BY DEF Waiting
<1>1. CallbackKept(i, c)
  BY DEF LoadBlock, CallbacksStay, Waiting
<1>2. Left(c)' = Left(c) /\ next_id' = next_id
  BY LoadBlockLeft DEF LoadBlock, RingStays
<1>3. ASSUME LastSegmentOf(i, c) PROVE LastSegmentOf(i, c)'
  <2>1. SegmentsOf(c)' = SegmentsOf(c) /\ i \in SegmentsOf(c) /\ SegmentsOf(c) \subseteq Slots
    <3>1. SegmentsStay /\ Pipeline \subseteq Slots
      BY DEF LoadBlock, RingFacts
    <3>2. SegmentsOf(c)' = SegmentsOf(c)
      BY <3>1, SegmentsStayLeft
    <3> QED
      BY <1>3, <3>1, <3>2 DEF SegmentsOf, LastSegmentOf
  <2>2. MoveInPrep' # c
    <3>1. MoveInPrep' = MoveInPrep + 1
      BY <2>1, LoadBlockOrder DEF SegmentsOf
    <3>2. c \in 1 .. MoveInPrep
      BY <2>1 DEF SegmentsOf, InOrder, SegmentOrder
    <3> QED
      BY <3>1, <3>2 DEF RingFacts
  <2> QED
    BY <1>3, <2>1, <2>2 DEF LastSegmentOf, LoadBlock, SegmentsStay
<1> QED
  BY <1>1, <1>2, <1>3 DEF CallbackKept

LEMMA CutCallbacks ==
  ASSUME RingFacts, RingFacts', NEW n \in Nat, Cut(n), InOrder, Waiting PROVE Waiting'
<1> SUFFICES ASSUME NEW i \in Slots, NEW c, c = segment_buffer'[i].callback, c # 0
             PROVE  CallbackKept(i, c)'
  BY DEF Waiting
<1> DEFINE h == segment_buffer_head
<1>1. Left(c)' = Left(c) /\ next_id' = next_id /\ MoveInPrep' = MoveInPrep /\ PlannerBlockInPrep
      /\ Left(MoveInPrep) # 0
  BY CutLeft, LeftZero DEF Cut
<1>2. /\ Pipeline' = Pipeline \cup {h} /\ h \notin Pipeline /\ h' = h /\ Pipeline \subseteq Slots
      /\ \A j \in Pipeline : MoveOf(j)' = MoveOf(j) /\ Pos(j)' = Pos(j) /\ Pos(j)' < Pos(h)'
                            /\ Pos(j)' \in Nat
      /\ MoveOf(h)' = MoveInPrep /\ Pos(h)' \in Nat /\ h \in Slots
  BY DEF Cut, RingFacts
<1>3. SegmentsOf(c)' = IF c = MoveInPrep THEN SegmentsOf(c) \cup {h} ELSE SegmentsOf(c)
  BY <1>2 DEF SegmentsOf
<1>4. CASE c = segment_buffer[i].callback
  <2>1. CallbackKept(i, c)
    BY <1>4 DEF Waiting
  <2>2. ASSUME LastSegmentOf(i, c) PROVE LastSegmentOf(i, c)'
    <3>1. c # MoveInPrep
      BY <1>1, <2>2 DEF LastSegmentOf
    <3>2. SegmentsOf(c)' = SegmentsOf(c) /\ SegmentsOf(c) \subseteq Pipeline
      BY <1>3, <3>1 DEF SegmentsOf
    <3> QED
      BY <1>1, <1>2, <2>2, <3>1, <3>2 DEF LastSegmentOf
  <2> QED
    BY <1>1, <2>1, <2>2 DEF CallbackKept
<1>5. CASE c # segment_buffer[i].callback
  <2>1. i = h /\ ~PlannerBlockInPrep' /\ c = block_buffer[block_buffer_tail].id
    BY <1>5 DEF Cut
  <2>2. c = MoveInPrep /\ c < next_id
    <3>1. /\ BlockCount \in Nat /\ next_id \in Nat /\ BlockCount > 0
          /\ block_buffer_tail \in Blocks
      BY <1>1 DEF RingFacts
    <3>2. InBlocks(block_buffer_tail) /\ Before(block_buffer_tail) = BlockCount
      BY <3>1, RingBlocks
    <3>3. block_buffer[block_buffer_tail].id = next_id - BlockCount
      BY <3>1, <3>2 DEF InOrder, PlannerOrder, InBlocks
    <3> QED
      BY <1>1, <2>1, <3>1, <3>3 DEF InOrder, PrepOrder
  <2>3. h \in SegmentsOf(c)' /\ \A j \in SegmentsOf(c)' : Pos(j)' <= Pos(h)'
    BY <1>2, <2>2 DEF SegmentsOf
  <2>4. LastSegmentOf(i, c)'
    BY <1>2, <2>1, <2>3 DEF LastSegmentOf
  <2> QED
    BY <1>1, <2>2, <2>4 DEF CallbackKept
<1> QED
  BY <1>4, <1>5

\* When the last segment of a move ends, the move has no step left.
LEMMA EventCallbacks ==
  ASSUME RingFacts, RingFacts', Event, InOrder, Waiting, callbacks \in [1 .. MaxBlocks -> Nat]
  PROVE  /\ Waiting'
         /\ \A id \in 1 .. MaxBlocks : callbacks'[id] # callbacks[id] => Left(id)' = 0
<1> DEFINE t == segment_buffer_tail
<1>1. /\ t \in Pipeline /\ Pipeline \subseteq Slots /\ Pos(t) = 0 /\ next_id' = next_id
      /\ \A j \in Pipeline : Pos(j) \in Nat /\ Pos(j)' \in Nat
      /\ Pipeline' \subseteq Pipeline /\ (\A j \in Slots : MoveOf(j)' = MoveOf(j))
      /\ MoveInPrep' = MoveInPrep /\ (PlannerBlockInPrep' <=> PlannerBlockInPrep)
  BY DEF Event, RingFacts, RingStays, PrepStays
<1>2. \/ Pipeline' = Pipeline /\ callbacks' = callbacks /\ \A j \in Slots : Pos(j)' = Pos(j)
      \/ /\ Pipeline' = Pipeline \ {t}
         /\ \A j \in Pipeline' : Pos(j) = Pos(j)' + 1
         /\ \/ callbacks' = callbacks
            \/ LET c == segment_buffer[t].callback
               IN c # 0 /\ callbacks' = [callbacks EXCEPT ![c] = @ + 1]
  BY DEF Event
<1>3. ASSUME NEW c PROVE Left(c) = 0 => Left(c)' = 0
  <2>1. LeftFacts(c) /\ LeftFacts(c)'
    BY DEF RingFacts
  <2>2. Left(c) \in Nat /\ Left(c)' \in Nat
    BY <2>1 DEF LeftFacts, Left
  <2> QED
    BY <2>2, EventLeft
<1>4. ASSUME NEW c, LastSegmentOf(t, c), Pipeline' = Pipeline \ {t} PROVE Left(c)' = 0
  <2>1. \A j \in SegmentsOf(c) : j = t
    <3> SUFFICES ASSUME NEW j \in SegmentsOf(c), j # t PROVE FALSE
      OBVIOUS
    <3>1. j \in Pipeline' /\ Pos(j) <= 0 /\ Pos(j) = Pos(j)' + 1
      BY <1>1, <1>2, <1>4 DEF SegmentsOf, LastSegmentOf
    <3> QED
      BY <1>1, <3>1
  <2>2. SegmentsOf(c)' = {}
    BY <1>1, <1>4, <2>1 DEF SegmentsOf
  <2>3. SegmentsOf(c) # {} /\ ~(PlannerBlockInPrep /\ MoveInPrep = c)
    BY <1>4 DEF LastSegmentOf
  <2>4. BlocksOf(c) = {}
    <3> SUFFICES ASSUME NEW b \in PlannerQueued, block_buffer[b].id = c PROVE FALSE
      BY DEF BlocksOf
    <3>1. b \in Blocks /\ InBlocks(b) /\ BlockCount \in Nat /\ next_id \in Nat /\ MoveInPrep \in Nat
      BY DEF RingFacts
    <3>2. Before(b) \in 1 .. BlockCount /\ c = next_id - Before(b)
      BY <3>1, RingBlocks DEF InOrder, PlannerOrder, InBlocks
    <3>3. c \in 1 .. MoveInPrep /\ Pipeline # {}
      BY <2>3 DEF SegmentsOf, InOrder, SegmentOrder
    <3>4. c = MoveInPrep /\ PlannerBlockInPrep
      BY <3>1, <3>2, <3>3 DEF InOrder, PrepOrder
    <3> QED
      BY <2>3, <3>4
  <2>5. BlocksOf(c)' = {}
    BY <1>1, <2>4 DEF Event, RingStays, BlocksOf, PlannerQueued, InRing
  <2>6. LeftFacts(c)'
    BY DEF RingFacts
  <2> QED
    BY <1>1, <2>2, <2>3, <2>5, <2>6 DEF LeftFacts, Left
<1>5. ASSUME NEW i \in Slots, NEW c, c = segment_buffer'[i].callback, c # 0
      PROVE  CallbackKept(i, c)'
  <2>1. CallbackKept(i, c)
    BY <1>5 DEF Event, CallbacksStay, Waiting
  <2>2. CASE Left(c) = 0
    BY <1>1, <1>3, <2>1, <2>2 DEF CallbackKept
  <2>3. CASE LastSegmentOf(i, c) /\ i = t /\ Pipeline' = Pipeline \ {t}
    BY <1>1, <1>4, <2>1, <2>3 DEF CallbackKept
  <2>4. CASE LastSegmentOf(i, c) /\ ~(i = t /\ Pipeline' = Pipeline \ {t})
    <3>1. i \in Pipeline' /\ i \in SegmentsOf(c)' /\ SegmentsOf(c)' \subseteq SegmentsOf(c)
      BY <1>1, <1>2, <2>4 DEF LastSegmentOf, SegmentsOf
    <3>2. ASSUME NEW j \in SegmentsOf(c)' PROVE Pos(j)' <= Pos(i)'
      <4>1. j \in Pipeline' /\ Pos(j) <= Pos(i)
        BY <2>4, <3>1, <3>2 DEF LastSegmentOf, SegmentsOf
      <4> QED
        BY <1>1, <1>2, <3>1, <4>1
    <3>3. LastSegmentOf(i, c)'
      BY <1>1, <2>4, <3>1, <3>2 DEF LastSegmentOf
    <3> QED
      BY <1>1, <2>1, <3>3 DEF CallbackKept
  <2> QED
    BY <2>1, <2>2, <2>3, <2>4 DEF CallbackKept
<1>6. ASSUME NEW id \in 1 .. MaxBlocks, callbacks'[id] # callbacks[id] PROVE Left(id)' = 0
  <2>1. /\ Pipeline' = Pipeline \ {t} /\ id = segment_buffer[t].callback /\ id # 0
    <3> HIDE DEF t
    <3> QED
      BY <1>2, <1>6
  <2>2. CallbackKept(t, id)
    BY <1>1, <2>1 DEF Waiting
  <2> QED
    BY <1>3, <1>4, <2>1, <2>2 DEF CallbackKept
<1> QED
  BY <1>5, <1>6 DEF Waiting

LEMMA DiscardCallbacks == ASSUME RingFacts', Discard, Waiting PROVE Waiting'
  BY DiscardLeft DEF Waiting, CallbackKept, Discard, CallbacksStay

-----------------------------------------------------------------------------
(* Together.                                                               *)
LEMMA InitOrder == Init => OrderInv /\ Queue!Init
<1> SUFFICES ASSUME Init PROVE OrderInv /\ Queue!Init
  OBVIOUS
<1>1. /\ Pipeline = {} /\ ~PlannerBlockInPrep /\ next_id = 1 /\ BlockCount = 0
      /\ \A i \in Blocks : ~InRing(i, block_buffer_tail, block_buffer_head)
      /\ \A i \in Slots : segment_buffer[i].callback = 0
  BY SizeAssumption DEF Init, Pipeline, Queued, PlannerBlockInPrep, BlockCount, InRing,
     PrepReset, NoSegment, Slots, Blocks
<1>2. OrderInv
  BY <1>1 DEF OrderInv, PlannerOrder, PrepOrder, SegmentOrder, CallbackOrder
<1>3. RingFacts
  BY InitIInv, Rings
<1>4. InOrder
  BY <1>2 DEF OrderInv, InOrder
<1>5. LeftFrom(1)
  <2>1. First = 1
    BY <1>1 DEF First
  <2> QED
    BY <1>3, <1>4, <2>1, LeftFromFirst
<1>6. Pending = <<>>
  <2>1. Pending = PendingFrom(1)
    BY <1>1, <1>5, QueueIs DEF QueueFacts
  <2> QED
    BY <1>1, <2>1 DEF PendingFrom
<1> QED
  BY <1>1, <1>2, <1>6 DEF Queue!Init

\* One step: the order is kept, the queue takes a step or none, and a callback is
\* called only for a move without a step left.
LEMMA StepOrder ==
  ASSUME IInv, IInv', OrderInv, [Next]_vars
  PROVE  OrderInv' /\ (Queue!Next \/ UNCHANGED Queue!queueVars)
<1>1. RingFacts /\ RingFacts' /\ InOrder /\ Waiting
  BY Rings, NextRings, WaitingIs DEF OrderInv, InOrder
<1>0. callbacks \in [1 .. MaxBlocks -> Nat]
  BY DEF IInv, TypeOK, IsrTypeOK
<1>2. InOrder' /\ Waiting' => OrderInv'
  BY NextWaitingIs DEF OrderInv, InOrder
<1>3. (\A id : Left(id)' = Left(id)) /\ next_id' = next_id => UNCHANGED Queue!queueVars
  BY <1>1, SamePending DEF Queue!queueVars
<1>4. CASE Still
  <2>1. InOrder' /\ Waiting'
    BY <1>1, <1>4, StillOrder, StillCallbacks
  <2>2. (\A id : Left(id)' = Left(id)) /\ next_id' = next_id
    BY <1>1, <1>4, StillLeft DEF Still, RingStays
  <2> QED
    BY <1>2, <1>3, <2>1, <2>2
<1>5. CASE Plan
  BY <1>1, <1>2, <1>5, PlanOrder, PlanCallbacks, PlanEnqueues DEF Queue!Next
<1>6. CASE LoadBlock
  <2>1. InOrder' /\ Waiting'
    BY <1>1, <1>6, LoadBlockOrder, LoadBlockCallbacks
  <2>2. (\A id : Left(id)' = Left(id)) /\ next_id' = next_id
    BY <1>1, <1>6, LoadBlockLeft DEF LoadBlock, RingStays
  <2> QED
    BY <1>2, <1>3, <2>1, <2>2
<1>7. ASSUME NEW n \in Nat, Cut(n) PROVE OrderInv' /\ UNCHANGED Queue!queueVars
  <2>1. InOrder' /\ Waiting'
    BY <1>1, <1>7, CutOrder, CutCallbacks
  <2>2. (\A id : Left(id)' = Left(id)) /\ next_id' = next_id
    BY <1>1, <1>7, CutLeft DEF Cut
  <2> QED
    BY <1>2, <1>3, <2>1, <2>2
<1>8. CASE Event
  BY <1>0, <1>1, <1>2, <1>8, EventOrder, EventCallbacks, EventStepsQueue DEF Queue!Next
<1>9. CASE Discard
  BY <1>1, <1>2, <1>9, DiscardOrder, DiscardCallbacks, DiscardFlushes DEF Queue!Next
<1> QED
  BY <1>4, <1>5, <1>6, <1>7, <1>8, <1>9, StepKinds

\* Only the interrupt calls a callback, at the end of the move's last segment.
LEMMA StepCallbacks ==
  ASSUME IInv, IInv', OrderInv, [Next]_vars
  PROVE  \A id \in 1 .. MaxBlocks : callbacks'[id] # callbacks[id] => Left(id)' = 0
<1>0. callbacks \in [1 .. MaxBlocks -> Nat]
  BY DEF IInv, TypeOK, IsrTypeOK
<1>1. CASE StepperTick
  <2>1. RingFacts /\ RingFacts' /\ InOrder /\ Waiting
    BY Rings, NextRings, WaitingIs DEF OrderInv, InOrder
  <2> QED
    BY <1>0, <1>1, <2>1, TickEvent, EventCallbacks
<1>2. CASE ~StepperTick
  <2>1. callbacks' = callbacks
    BY <1>2
       DEF Next, Protocol, Prep, Stepper, PlanBufferLine, Poll, FeedHold, CycleStart, CycleStop,
           Abort, WakeUp, McReset, PrepReturn, PrepBlock, SegmentInBlock, SegmentEndsBlock,
           HoldWithoutStep, Release, StepperShutdown, vars
  <2> QED
    BY <2>1
<1> QED
  BY <1>1, <1>2

\* The moves stay in the order in which they were planned, in the planner ring, in
\* st_prep_buffer() and in the segment ring.
THEOREM MovesStayInOrder == Spec => []OrderInv
<1>1. Init => IInv /\ OrderInv
  BY InitIInv, InitOrder
<1>2. (IInv /\ OrderInv) /\ [Next]_vars => (IInv /\ OrderInv)'
  BY StepIInv, StepOrder
<1> QED
  BY <1>1, <1>2, PTL DEF Spec

\* The pipeline is a first-in first-out queue of moves: planner ring, prep and segment
\* ring together lose, repeat and reorder no step event of any move.
THEOREM PipelineIsAQueue == Spec => ImplementsMotionQueue
<1>1. Init => Queue!Init
  BY InitOrder
<1>2. IInv /\ IInv' /\ OrderInv /\ [Next]_vars => [Queue!Next]_(Queue!queueVars)
  BY StepOrder
<1> QED
  BY <1>1, <1>2, Invariance, MovesStayInOrder, PTL
     DEF Spec, ImplementsMotionQueue, Queue!Spec

\* "Callback function to be called by the stepper ISR on completion of the line move":
\* it is never called while its move has a step event to make.
THEOREM CallbacksComeLast == Spec => CallbackAfterLastStep
<1>1. IInv /\ IInv' /\ OrderInv /\ [Next]_vars
        => [\A id \in 1 .. MaxBlocks : callbacks'[id] # callbacks[id] => Left(id)' = 0]_vars
  BY StepCallbacks
<1> QED
  BY <1>1, Invariance, MovesStayInOrder, PTL DEF Spec, CallbackAfterLastStep
=============================================================================
