---------------------------- MODULE StepPipeline ----------------------------
(***************************************************************************)
(* The motion pipeline: planner ring (planner.c), segment preparation by   *)
(* the main program (st_prep_buffer), segment ring, and the stepper driver *)
(* interrupt that empties it (stepper.c), driven by the parts of the       *)
(* realtime state machine that start, hold, stop and reset motion          *)
(* (protocol.c, motion_control.c).                                         *)
(*                                                                         *)
(* Two processes: the main program, with a program counter pc inside       *)
(* st_prep_buffer, and the interrupt, which runs to completion between any *)
(* two main steps.  A move is abstracted to its identity and its number of *)
(* step events; speeds, distances and AMASS levels are left out, so a      *)
(* segment ends wherever the profile could end it.  Places along a move    *)
(* are counted in parts of a step, for a segment need not end at a whole   *)
(* step although the interrupt makes only whole ones.                      *)
(* EXECUTE_SYS_MOTION (homing) is not set by anything in this module.      *)
(*                                                                         *)
(* A definition written just before the one it resembles, and used nowhere,*)
(* is a mistake that one of the properties catches: README, "Mutants".     *)
(***************************************************************************)
EXTENDS Integers, FiniteSets

CONSTANTS BLOCK_BUFFER_SIZE,    \* slots of the planner ring
          SEGMENT_BUFFER_SIZE,  \* slots of the segment ring
          StepEvents,           \* step_event_count values of a planned move
          StepParts,            \* places within a step where a segment may end
          CallbackChoices,      \* may a move carry a completion callback?
          MaxBlocks,            \* bound on the moves ever planned
          NULL                  \* the null pointer

ASSUME SizeAssumption ==
  /\ BLOCK_BUFFER_SIZE \in Nat /\ BLOCK_BUFFER_SIZE >= 2
  /\ SEGMENT_BUFFER_SIZE \in Nat /\ SEGMENT_BUFFER_SIZE >= 3

ASSUME ValueAssumption ==
  /\ StepEvents \subseteq Nat \ {0} /\ StepParts \in Nat \ {0}
  /\ MaxBlocks \in Nat
  /\ CallbackChoices \subseteq BOOLEAN
  /\ NULL \notin Nat

VARIABLES
  block_buffer, block_buffer_tail, block_buffer_head,     \* planner ring
  segment_buffer, segment_buffer_tail, segment_buffer_head,
  st_block_buffer,      \* block data the queued segments refer to: move ids
  prep,                 \* [st_block_index, steps_remaining, part, recalculate]
  pl_block,             \* planner slot being prepped, or NULL
  st,                   \* interrupt data, see Init
  timer,                \* OCIE1A: is the stepper interrupt enabled?
  step_control,         \* subset of {"HOLD", "END"}
  state,                \* sys.state: "IDLE", "CYCLE" or "HOLD"
  hold_complete,        \* SUSPEND_HOLD_COMPLETE
  cycle_stop, reset,    \* EXEC_CYCLE_STOP, EXEC_RESET
  pc, waking,           \* main program: place in st_prep_buffer; st_wake_up due after it
  next_id,              \* identity of the next planned move
  callbacks             \* number of times each move's callback has been called

plannerVars  == <<block_buffer, block_buffer_tail, block_buffer_head, next_id>>
segmentVars  == <<segment_buffer, segment_buffer_head>>
prepVars     == <<prep, pl_block, st_block_buffer>>
isrVars      == <<segment_buffer_tail, st, timer, callbacks>>
protocolVars == <<step_control, state, hold_complete, cycle_stop, reset>>
mainVars     == <<pc, waking>>
vars == <<plannerVars, segmentVars, prepVars, isrVars, protocolVars, mainVars>>

Blocks   == 0 .. BLOCK_BUFFER_SIZE - 1
Slots    == 0 .. SEGMENT_BUFFER_SIZE - 1
StBlocks == 0 .. SEGMENT_BUFFER_SIZE - 2

plan_next_block_index(i) == IF i + 1 = BLOCK_BUFFER_SIZE THEN 0 ELSE i + 1
next_slot(i)             == IF i + 1 = SEGMENT_BUFFER_SIZE THEN 0 ELSE i + 1
st_next_block_index_short(i) == IF i + 1 = SEGMENT_BUFFER_SIZE - 2 THEN 0 ELSE i + 1
st_next_block_index(i)   == IF i + 1 = SEGMENT_BUFFER_SIZE - 1 THEN 0 ELSE i + 1

segment_next_head == next_slot(segment_buffer_head)

segment_buffer_full == segment_buffer_tail = segment_next_head

\* plan_get_current_block() returns NULL on an empty ring, else the tail slot.
plan_get_current_block ==
  IF block_buffer_head = block_buffer_tail THEN NULL ELSE block_buffer_tail

plan_check_full_buffer ==
  block_buffer_tail = plan_next_block_index(block_buffer_head)

st_update_plan_block_parameters_forgets ==
  UNCHANGED prep /\ pl_block' = NULL

\* st_update_plan_block_parameters(): re-plan the rest of the block in prep.
st_update_plan_block_parameters ==
  /\ prep' = [prep EXCEPT !.recalculate = @ \/ pl_block # NULL]
  /\ pl_block' = NULL

-----------------------------------------------------------------------------
(* Initial values: memory as plan_reset() and st_reset() leave it after a  *)
(* power-up, with the static buffers zeroed.                               *)

\* part: by how many parts of a step pl_block->millimeters is less than the steps
\* remaining, which are rounded up.
PrepReset == [st_block_index |-> 0, steps_remaining |-> 0, part |-> 0, recalculate |-> FALSE]

\* counters: the move the Bresenham counters were initialised for.
StReset == [exec_segment |-> NULL, step_count |-> 0, exec_block_index |-> 0,
            counters |-> 0]

NoSegment == [st_block_index |-> 0, n_step |-> 0, callback |-> 0]

Init ==
  /\ block_buffer = [i \in Blocks |-> [id |-> 0, steps |-> 0, callback |-> FALSE]]
  /\ block_buffer_tail = 0 /\ block_buffer_head = 0
  /\ segment_buffer = [i \in Slots |-> NoSegment]
  /\ segment_buffer_tail = 0 /\ segment_buffer_head = 0
  /\ st_block_buffer = [i \in StBlocks |-> 0]
  /\ prep = PrepReset /\ pl_block = NULL
  /\ st = StReset /\ timer = FALSE
  /\ step_control = {} /\ state = "IDLE" /\ hold_complete = FALSE
  /\ cycle_stop = FALSE /\ reset = FALSE
  /\ pc = "main" /\ waking = FALSE
  /\ next_id = 1
  /\ callbacks = [i \in 1 .. MaxBlocks |-> 0]

-----------------------------------------------------------------------------
(* The main program outside st_prep_buffer.                                *)

AtMain == pc = "main" /\ ~waking

\* mc_line() past its poll and full-buffer check, then plan_buffer_line().  The
\* poll blocks in the suspend loop only once a hold is complete.  When the plan
\* reaches back to the tail, planner_recalculate() notifies the stepper module;
\* that needs at least two plannable blocks.
PlanBufferLine ==
  /\ AtMain /\ ~hold_complete
  /\ next_id <= MaxBlocks
  /\ ~plan_check_full_buffer
  /\ \E n \in StepEvents, c \in CallbackChoices :
       block_buffer' = [block_buffer EXCEPT ![block_buffer_head] =
                          [id |-> next_id, steps |-> n, callback |-> c]]
  /\ block_buffer_head' = plan_next_block_index(block_buffer_head)
  /\ next_id' = next_id + 1
  /\ \/ plan_get_current_block # NULL /\ st_update_plan_block_parameters
     \/ UNCHANGED <<prep, pl_block>>
  /\ UNCHANGED <<block_buffer_tail, st_block_buffer>>
  /\ UNCHANGED <<segmentVars, isrVars, protocolVars, mainVars>>

\* The last lines of protocol_exec_rt_system(): reload the segment buffer in
\* a moving state.  st_prep_buffer() returns at once under END_MOTION.
ReloadSegments ==
  pc' = IF state' # "IDLE" /\ "END" \notin step_control' THEN "prep" ELSE "main"

\* A pass of protocol_exec_rt_system() with nothing flagged.
Poll ==
  /\ AtMain /\ ~reset /\ ~cycle_stop
  /\ UNCHANGED <<plannerVars, segmentVars, prepVars, isrVars, protocolVars, waking>>
  /\ ReloadSegments

\* A pass with EXEC_FEED_HOLD.  From CYCLE the hold decelerates; from IDLE it
\* is complete at once.  A pending EXEC_CYCLE_STOP is served in the same pass
\* and finds the state already HOLD.
FeedHold ==
  /\ AtMain /\ ~reset /\ state \in {"IDLE", "CYCLE"}
  /\ state' = "HOLD"
  /\ \/ /\ state = "CYCLE"
        /\ st_update_plan_block_parameters
        /\ step_control' = IF cycle_stop THEN {} ELSE {"HOLD"}
        /\ hold_complete' = cycle_stop
     \/ /\ state = "IDLE"
        /\ hold_complete' = TRUE
        /\ IF cycle_stop
           THEN st_update_plan_block_parameters /\ step_control' = step_control \ {"HOLD"}
           ELSE UNCHANGED <<prep, pl_block, step_control>>
  /\ cycle_stop' = FALSE
  /\ UNCHANGED <<plannerVars, segmentVars, st_block_buffer, isrVars, reset, waking>>
  /\ ReloadSegments

CycleStartKeepsControl ==
  /\ AtMain /\ ~reset /\ ~cycle_stop
  /\ state = "IDLE" \/ (state = "HOLD" /\ hold_complete)
  /\ UNCHANGED step_control
  /\ hold_complete' = FALSE
  /\ IF plan_get_current_block # NULL
     THEN /\ state' = "CYCLE" /\ waking' = TRUE
          /\ pc' = IF "END" \in step_control THEN "main" ELSE "prep"
     ELSE state' = "IDLE" /\ UNCHANGED mainVars
  /\ UNCHANGED <<plannerVars, segmentVars, prepVars, isrVars, cycle_stop, reset>>

\* A pass with EXEC_CYCLE_START, from the operator or protocol_auto_cycle_start():
\* start or resume if a block is queued.  st_prep_buffer() runs before st_wake_up().
CycleStart ==
  /\ AtMain /\ ~reset /\ ~cycle_stop
  /\ state = "IDLE" \/ (state = "HOLD" /\ hold_complete)
  /\ step_control' = {}
  /\ hold_complete' = FALSE
  /\ IF plan_get_current_block # NULL
     THEN state' = "CYCLE" /\ pc' = "prep" /\ waking' = TRUE
     ELSE state' = "IDLE" /\ UNCHANGED mainVars
  /\ UNCHANGED <<plannerVars, segmentVars, prepVars, isrVars, cycle_stop, reset>>

\* A pass with EXEC_CYCLE_STOP: the interrupt ran out of segments.  In a hold
\* plan_cycle_reinitialize() re-plans the rest of the block; else motion is over.
CycleStop ==
  /\ AtMain /\ ~reset /\ cycle_stop
  /\ cycle_stop' = FALSE
  /\ IF state = "HOLD"
     THEN /\ st_update_plan_block_parameters
          /\ hold_complete' = (hold_complete \/ "HOLD" \in step_control)
          /\ step_control' = step_control \ {"HOLD"}
          /\ UNCHANGED state
     ELSE /\ state' = "IDLE" /\ hold_complete' = FALSE
          /\ UNCHANGED <<prep, pl_block, step_control>>
  /\ UNCHANGED <<plannerVars, segmentVars, st_block_buffer, isrVars, reset, waking>>
  /\ ReloadSegments

\* mc_reset(), called in the serial interrupt wherever the main program is:
\* flag the reset once and stop the stepper interrupt if in a motion state.
McReset ==
  /\ ~reset
  /\ reset' = TRUE
  /\ timer' = (timer /\ state # "CYCLE" /\ "HOLD" \notin step_control)
  /\ UNCHANGED <<plannerVars, segmentVars, prepVars, mainVars, segment_buffer_tail, st,
                 callbacks, step_control, state, hold_complete, cycle_stop>>

\* EXEC_RESET seen: sys.abort unwinds to main(), which clears the flags and sys
\* and resets planner and stepper.  The ring memories keep their stale contents.
Abort ==
  /\ AtMain /\ reset
  /\ block_buffer_tail' = 0 /\ block_buffer_head' = 0
  /\ segment_buffer_tail' = 0 /\ segment_buffer_head' = 0
  /\ prep' = PrepReset /\ pl_block' = NULL
  /\ st' = StReset /\ timer' = FALSE
  /\ step_control' = {} /\ state' = "IDLE" /\ hold_complete' = FALSE
  /\ cycle_stop' = FALSE /\ reset' = FALSE
  /\ UNCHANGED <<block_buffer, segment_buffer, st_block_buffer, next_id, callbacks, mainVars>>

\* st_wake_up() after the cycle start's st_prep_buffer() has returned, and the
\* reload that ends the pass.
WakeUp ==
  /\ pc = "main" /\ waking
  /\ timer' = TRUE
  /\ waking' = FALSE
  /\ UNCHANGED <<plannerVars, segmentVars, prepVars, protocolVars,
                 segment_buffer_tail, st, callbacks>>
  /\ ReloadSegments

-----------------------------------------------------------------------------
(* st_prep_buffer().                                                       *)

\* The head of the loop returns: segment ring full, or nothing to prepare.
PrepReturn ==
  /\ pc = "prep"
  /\ \/ segment_buffer_full
     \/ pl_block = NULL /\ plan_get_current_block = NULL
  /\ pc' = "main"
  /\ UNCHANGED <<plannerVars, segmentVars, prepVars, isrVars, protocolVars, waking>>

\* The loop has a block: it is in prep already, it is picked up again for a
\* new profile, or it is new and its stepping data is copied for the interrupt.
PrepBlock ==
  /\ pc = "prep"
  /\ ~segment_buffer_full
  /\ \/ pl_block # NULL /\ UNCHANGED prepVars
     \/ /\ pl_block = NULL /\ plan_get_current_block # NULL
        /\ pl_block' = plan_get_current_block
        /\ IF prep.recalculate
           THEN /\ prep' = [prep EXCEPT !.recalculate = FALSE]
                /\ UNCHANGED st_block_buffer
           ELSE LET i == st_next_block_index(prep.st_block_index)
                    b == block_buffer[block_buffer_tail]
                IN /\ prep' = [prep EXCEPT !.st_block_index = i,
                                           !.steps_remaining = b.steps, !.part = 0]
                   /\ st_block_buffer' = [st_block_buffer EXCEPT ![i] = b.id]
  /\ pc' = "segment"
  /\ UNCHANGED <<plannerVars, segmentVars, isrVars, protocolVars, waking>>

WriteSegmentEarlyCallback(n, last) ==
  segment_buffer' = [segment_buffer EXCEPT ![segment_buffer_head] =
    [st_block_index |-> prep.st_block_index,
     n_step |-> n,
     callback |-> IF block_buffer[pl_block].callback THEN block_buffer[pl_block].id ELSE 0]]

\* Fill the head slot with n step events of the block in prep.  The callback
\* field is written only by the last segment of a block.
WriteSegment(n, last) ==
  segment_buffer' = [segment_buffer EXCEPT ![segment_buffer_head] =
    [st_block_index |-> prep.st_block_index,
     n_step |-> n,
     callback |-> IF ~last THEN @.callback
                  ELSE IF block_buffer[pl_block].callback THEN block_buffer[pl_block].id
                  ELSE 0]]

Parts == 0 .. StepParts - 1

FarEnoughForPart(steps, part) ==
  4 * StepParts * (prep.steps_remaining - steps) + 4 * (part - prep.part) >= StepParts
\* The segment may end with these steps, less the part, to go: minimum_mm, which is
\* REQ_MM_INCREMENT_SCALAR = 1.25 steps on, is reached, as far as the block goes.
FarEnough(steps, part) ==
  4 * StepParts * (prep.steps_remaining - steps) + 4 * (part - prep.part) >= 5 * StepParts

\* A segment that ends inside the block: one that is long enough, or the one that
\* ends a hold.  Outside of a hold it is released whatever its number of steps.
SegmentInBlock ==
  /\ pc = "segment"
  /\ \E steps \in 1 .. prep.steps_remaining, part \in Parts :
       /\ WriteSegment(prep.steps_remaining - steps, FALSE)
       /\ prep' = [prep EXCEPT !.steps_remaining = steps, !.part = part]
       /\ \/ FarEnough(steps, part) /\ UNCHANGED step_control
          \/ /\ "HOLD" \in step_control /\ steps < prep.steps_remaining
             /\ step_control' = step_control \cup {"END"}
  /\ pc' = "release"
  /\ UNCHANGED <<plannerVars, segment_buffer_head, pl_block, st_block_buffer, isrVars, waking>>
  /\ UNCHANGED <<state, hold_complete, cycle_stop, reset>>

\* The segment that ends the block: the block leaves the planner ring.
SegmentEndsBlock ==
  /\ pc = "segment"
  /\ WriteSegment(prep.steps_remaining, TRUE)
  /\ prep' = [prep EXCEPT !.steps_remaining = 0, !.part = 0]
  /\ pl_block' = NULL
  /\ block_buffer_tail' = plan_next_block_index(block_buffer_tail)
  /\ pc' = "release"
  /\ UNCHANGED <<block_buffer, block_buffer_head, next_id, segment_buffer_head>>
  /\ UNCHANGED <<st_block_buffer, isrVars, protocolVars, waking>>

\* End of a hold with less than a step to go: bail without a segment.
HoldWithoutStep ==
  /\ pc = "segment"
  /\ "HOLD" \in step_control
  /\ WriteSegment(0, FALSE)
  /\ step_control' = step_control \cup {"END"}
  /\ pc' = "main"
  /\ UNCHANGED <<plannerVars, segment_buffer_head, prepVars, isrVars, waking>>
  /\ UNCHANGED <<state, hold_complete, cycle_stop, reset>>

\* st_release_segment_to_ISR(), then on with the loop unless END_MOTION was set.
Release ==
  /\ pc = "release"
  /\ segment_buffer_head' = segment_next_head
  /\ pc' = IF "END" \in step_control THEN "main" ELSE "prep"
  /\ UNCHANGED <<plannerVars, segment_buffer, prepVars, isrVars, protocolVars, waking>>

-----------------------------------------------------------------------------
(* The stepper driver interrupt.                                           *)

LoadSegmentKeepsIndex ==
  LET seg == segment_buffer[segment_buffer_tail]
  IN IF st.exec_segment # NULL THEN st
     ELSE [exec_segment     |-> segment_buffer_tail,
           step_count       |-> seg.n_step,
           exec_block_index |-> st.exec_block_index,
           counters         |-> IF st.exec_block_index = seg.st_block_index
                                THEN st.counters
                                ELSE st_block_buffer[seg.st_block_index]]

\* Load the next segment into st.  A changed block index means a new block,
\* for which the Bresenham counters are initialised.
LoadSegment ==
  LET seg == segment_buffer[segment_buffer_tail]
  IN IF st.exec_segment # NULL THEN st
     ELSE [exec_segment     |-> segment_buffer_tail,
           step_count       |-> seg.n_step,
           exec_block_index |-> seg.st_block_index,
           counters         |-> IF st.exec_block_index = seg.st_block_index
                                THEN st.counters
                                ELSE st_block_buffer[seg.st_block_index]]

\* One step event; when it is the segment's last, call the segment's callback,
\* drop the segment and advance the tail.
StepperTick ==
  /\ timer
  /\ st.exec_segment # NULL \/ segment_buffer_head # segment_buffer_tail
  /\ LET s == LoadSegment
         c == segment_buffer[s.exec_segment].callback
     IN IF s.step_count = 1
        THEN /\ st' = [s EXCEPT !.step_count = 0, !.exec_segment = NULL]
             /\ segment_buffer_tail' = next_slot(segment_buffer_tail)
             /\ callbacks' = IF c = 0 THEN callbacks ELSE [callbacks EXCEPT ![c] = @ + 1]
        ELSE /\ st' = [s EXCEPT !.step_count = @ - 1]
             /\ UNCHANGED <<segment_buffer_tail, callbacks>>
  /\ UNCHANGED <<plannerVars, segmentVars, prepVars, protocolVars, mainVars, timer>>

StepperShutdownStaysOn ==
  /\ timer
  /\ st.exec_segment = NULL /\ segment_buffer_head = segment_buffer_tail
  /\ UNCHANGED timer
  /\ cycle_stop' = TRUE
  /\ UNCHANGED <<plannerVars, segmentVars, prepVars, mainVars, segment_buffer_tail, st,
                 callbacks, step_control, state, hold_complete, reset>>

StepperShutdownUnflagged ==
  /\ timer
  /\ st.exec_segment = NULL /\ segment_buffer_head = segment_buffer_tail
  /\ timer' = FALSE
  /\ UNCHANGED cycle_stop
  /\ UNCHANGED <<plannerVars, segmentVars, prepVars, mainVars, segment_buffer_tail, st,
                 callbacks, step_control, state, hold_complete, reset>>

\* Nothing queued: st_go_idle() and flag EXEC_CYCLE_STOP.
StepperShutdown ==
  /\ timer
  /\ st.exec_segment = NULL /\ segment_buffer_head = segment_buffer_tail
  /\ timer' = FALSE
  /\ cycle_stop' = TRUE
  /\ UNCHANGED <<plannerVars, segmentVars, prepVars, mainVars, segment_buffer_tail, st,
                 callbacks, step_control, state, hold_complete, reset>>

-----------------------------------------------------------------------------
Protocol == PlanBufferLine \/ Poll \/ FeedHold \/ CycleStart \/ CycleStop \/ Abort \/ WakeUp
Prep     == PrepReturn \/ PrepBlock \/ SegmentInBlock \/ SegmentEndsBlock
              \/ HoldWithoutStep \/ Release
Stepper  == StepperTick \/ StepperShutdown

Next == Protocol \/ McReset \/ Prep \/ Stepper

Spec == Init /\ [][Next]_vars

\* Fairness: the main loop keeps running and serves the flags; the timer
\* interrupt is hardware, so it steps if it is enabled again and again; a queued
\* move is started, by the auto start or, after a hold, by the operator.
Fairness ==
  /\ WF_vars(Prep) /\ WF_vars(WakeUp) /\ WF_vars(Abort)
  /\ SF_vars(CycleStop) /\ SF_vars(CycleStart) /\ WF_vars(Poll)
  /\ SF_vars(StepperTick) /\ WF_vars(StepperShutdown)

FairSpec == Spec /\ Fairness

-----------------------------------------------------------------------------
(* Properties.                                                             *)

InRing(i, tail, head) == IF tail <= head THEN tail <= i /\ i < head
                                         ELSE tail <= i \/ i < head

\* The segments the interrupt still has to execute, the one in execution included.
Queued == {i \in Slots : InRing(i, segment_buffer_tail, segment_buffer_head)}

PlannerTypeOK ==
  /\ block_buffer \in [Blocks -> [id : Nat, steps : Nat, callback : BOOLEAN]]
  /\ block_buffer_tail \in Blocks /\ block_buffer_head \in Blocks
  /\ next_id \in Nat

SegmentTypeOK ==
  /\ segment_buffer \in [Slots -> [st_block_index : StBlocks, n_step : Nat, callback : Nat]]
  /\ segment_buffer_head \in Slots

PrepTypeOK ==
  /\ prep \in [st_block_index : StBlocks, steps_remaining : Nat, part : Parts,
               recalculate : BOOLEAN]
  /\ pl_block \in Blocks \cup {NULL}
  /\ st_block_buffer \in [StBlocks -> Nat]

IsrTypeOK ==
  /\ segment_buffer_tail \in Slots
  /\ st \in [exec_segment : Slots \cup {NULL}, step_count : Nat,
             exec_block_index : StBlocks, counters : Nat]
  /\ timer \in BOOLEAN
  /\ callbacks \in [1 .. MaxBlocks -> Nat]

ProtocolTypeOK ==
  /\ step_control \in SUBSET {"HOLD", "END"}
  /\ state \in {"IDLE", "CYCLE", "HOLD"}
  /\ hold_complete \in BOOLEAN /\ cycle_stop \in BOOLEAN /\ reset \in BOOLEAN

MainTypeOK == pc \in {"main", "prep", "segment", "release"} /\ waking \in BOOLEAN

\* Every variable has its type: ring indices inside their rings, a program
\* counter and flags of the values the code gives them.
TypeOK == /\ PlannerTypeOK /\ SegmentTypeOK /\ PrepTypeOK
          /\ IsrTypeOK /\ ProtocolTypeOK /\ MainTypeOK

\* While a segment executes, the Bresenham counters are those of the segment's
\* own move: comparing block indices finds every change of move, although the
\* indices of the SEGMENT_BUFFER_SIZE - 1 block slots are used again and again.
CountersMatch ==
  st.exec_segment # NULL =>
    st.counters = st_block_buffer[segment_buffer[st.exec_segment].st_block_index]

\* The main program never overwrites what the interrupt still has to read: while
\* a segment is queued, its slot and the stepping data of its move stay as they
\* are, unless a reset empties the ring.
QueuedDataStable ==
  [][\A i \in Queued \cap Queued' :
       LET seg == segment_buffer[i]
       IN /\ segment_buffer'[i] = seg
          /\ st_block_buffer'[seg.st_block_index] = st_block_buffer[seg.st_block_index]]_vars

\* "This ISR expects at least one step to be executed per segment" (stepper.c:398),
\* or step_count would wrap around.  No segment is queued without a step, although a
\* segment may end within the step its predecessor ended in, and is released with
\* none outside of a hold: what keeps it from that is the 1.25 steps every segment goes
\* on, wherever in a step holds, resumes and re-planning have left the block.
SegmentsHaveSteps ==
  /\ \A i \in Queued : segment_buffer[i].n_step > 0
  /\ st.exec_segment # NULL => st.step_count > 0

\* When the machine reports IDLE, or reports a hold as complete (which lets the
\* suspend loop stop the spindle and the operator open the door), the stepper
\* interrupt is off and no stop is left to be served.
StoppedMeansStopped ==
  state = "IDLE" \/ hold_complete => ~timer /\ ~cycle_stop

\* "Force kill steppers. Position has likely been lost.": once mc_reset() has
\* stopped the stepper interrupt, nothing enables it while the reset is pending.
ResetKeepsSteppersOff ==
  [][reset /\ reset' /\ ~timer => ~timer']_vars

\* Where protocol_buffer_synchronize() can return (to a dwell, a tool change, the
\* end of the program): from a poll that is not suspended, with no block in the
\* planner and no cycle running.
Synchronized == AtMain /\ ~reset /\ ~hold_complete /\ plan_get_current_block = NULL
                  /\ state # "CYCLE"

Executed == st.exec_segment = NULL /\ Queued = {}

\* "Block until all buffered steps are executed [...] Works with feed hold during a
\* synchronize call, if it should happen": no step is left when it returns.
SynchronizedMeansExecuted == Synchronized => Executed

\* Liveness: a feed hold comes to a stop.  Whenever motion is held, the machine
\* eventually reports the hold complete (or a reset has ended it), although the
\* segments that decelerate are prepared while the interrupt drains the ring.
HoldCompletes == state = "HOLD" ~> hold_complete \/ state = "IDLE"

\* Liveness: the planner ring drains.  However holds, stops and re-planning
\* interleave with the interrupt, every queued block is eventually taken.
PlannerDrains == plan_get_current_block # NULL ~> plan_get_current_block = NULL
=============================================================================
