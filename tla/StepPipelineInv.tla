--------------------------- MODULE StepPipelineInv ---------------------------
(***************************************************************************)
(* Why the interrupt's test for a new move (a changed block index) works,  *)
(* with block slots reused round and round: the inductive invariant of     *)
(* StepPipeline.  It is kept by every action, which StepPipelineProofs     *)
(* proves for every ring size and TLC checks for a small one.              *)
(***************************************************************************)
EXTENDS StepPipeline

\* Number of queued segments, and how many of them are ahead of slot i.
Count == IF segment_buffer_tail <= segment_buffer_head
         THEN segment_buffer_head - segment_buffer_tail
         ELSE segment_buffer_head - segment_buffer_tail + SEGMENT_BUFFER_SIZE
Pos(i) == IF segment_buffer_tail <= i
          THEN i - segment_buffer_tail
          ELSE i - segment_buffer_tail + SEGMENT_BUFFER_SIZE

\* How many block slots lie between slot b and the one in prep.
Back(b) == IF b <= prep.st_block_index
           THEN prep.st_block_index - b
           ELSE prep.st_block_index - b + SEGMENT_BUFFER_SIZE - 1

\* The move of prep.st_block_index has steps that are not in a queued segment.
BlockOpen == pl_block # NULL \/ prep.recalculate \/ pc = "release"
Open == IF BlockOpen THEN 1 ELSE 0

\* Between two segments of the loop there is room for one: the slot at the head
\* is filled before it is released, and belongs to the block in prep.
HeadInv ==
  /\ pc \in {"segment", "release"} => Count <= SEGMENT_BUFFER_SIZE - 2
  /\ pc = "segment" => pl_block # NULL
  /\ pc = "release" => /\ segment_buffer[segment_buffer_head].st_block_index
                            = prep.st_block_index
                       /\ segment_buffer[segment_buffer_head].n_step > 0

\* The executing segment is the oldest in the ring.
ExecInv ==
  st.exec_segment # NULL =>
    /\ st.exec_segment = segment_buffer_tail /\ Count > 0
    /\ st.exec_block_index = segment_buffer[segment_buffer_tail].st_block_index
    /\ st.step_count > 0

\* A queued segment's block slot is no further back than the segments after it
\* account for: no slot comes round again while a segment refers to it.
WindowInv ==
  \A i \in Slots : Pos(i) < Count =>
    Back(segment_buffer[i].st_block_index) + Pos(i) < Count + Open

\* An index equal to the interrupt's means that the counters are of that move.
CountersInv ==
  /\ Count > 0 /\ segment_buffer[segment_buffer_tail].st_block_index = st.exec_block_index
       => st.counters = st_block_buffer[st.exec_block_index]
  /\ Count = 0 =>
       /\ Back(st.exec_block_index) <= Open
       /\ BlockOpen /\ prep.st_block_index = st.exec_block_index
            => st.counters = st_block_buffer[st.exec_block_index]

\* The block in prep, or to be picked up again, is the oldest of the planner ring
\* and not finished.
PrepInv ==
  /\ pl_block # NULL \/ prep.recalculate =>
       prep.steps_remaining > 0 /\ block_buffer_head # block_buffer_tail
  /\ pl_block # NULL => pl_block = block_buffer_tail /\ ~prep.recalculate

\* No part of the pipeline holds a move, or a piece of one, without steps.
StepsInv ==
  /\ \A i \in Slots : Pos(i) < Count => segment_buffer[i].n_step > 0
  /\ \A i \in Blocks : InRing(i, block_buffer_tail, block_buffer_head)
                         => block_buffer[i].steps > 0

\* The end of a motion is flagged with the interrupt off, and a start that has not
\* switched it on yet begins with no stop left over.
StopInv ==
  /\ StoppedMeansStopped
  /\ cycle_stop => ~timer
  /\ waking => state = "CYCLE" /\ ~hold_complete /\ ~timer /\ ~cycle_stop

\* The inductive invariant: why a changed block index identifies a new move.
IInv == /\ TypeOK /\ HeadInv /\ ExecInv /\ WindowInv /\ CountersInv
        /\ PrepInv /\ StepsInv
=============================================================================
