----------------------------- MODULE MotionQueue -----------------------------
(***************************************************************************)
(* What the planner ring, the segment ring and the stepper interrupt       *)
(* promise together to the rest of the firmware: a first-in first-out      *)
(* queue of moves.  A move is a number of step events; the machine emits   *)
(* the events of the oldest move, one at a time, and only then starts the  *)
(* next move.  Feed holds, cycle stops, resumes and re-planning are not    *)
(* visible here: they may delay an event, never add, drop or reorder one.  *)
(* Only a reset discards moves, all of them at once.                       *)
(***************************************************************************)
EXTENDS Naturals, Sequences

CONSTANTS StepEvents,   \* the step_event_count values a move may have
          MaxBlocks     \* bound on the number of moves ever queued

VARIABLES pending,      \* the queued moves, oldest first: [id, left]
          next_id       \* identity of the next move to be queued

queueVars == <<pending, next_id>>

Init == pending = <<>> /\ next_id = 1

Enqueue ==
  /\ next_id <= MaxBlocks /\ next_id' = next_id + 1
  /\ \E n \in StepEvents : pending' = Append(pending, [id |-> next_id, left |-> n])

StepEvent ==
  /\ pending # <<>>
  /\ pending' = IF Head(pending).left = 1
                THEN Tail(pending)
                ELSE [pending EXCEPT ![1].left = @ - 1]
  /\ UNCHANGED next_id

Flush == pending' = <<>> /\ UNCHANGED next_id

Next == Enqueue \/ StepEvent \/ Flush

Spec == Init /\ [][Next]_queueVars
=============================================================================
