------------------------------ MODULE Planner ------------------------------
(* The look-ahead of the planner (planner.c) and the speed profile that the  *)
(* segment preparation follows in its first block (stepper.c).               *)
(*                                                                           *)
(* Speeds are squared, as in the code, and the length of a block is the      *)
(* change of the squared speed its acceleration can reach on it, 2*a*mm: a   *)
(* block is that many cells, on each of which the squared speed may change   *)
(* by one.  The first element of pn_queue is the block at block_buffer_tail. *)
EXTENDS Integers, Sequences, FiniteSets

CONSTANTS Lines,       \* the motions: [length, junction, rate]
          Nominal,     \* [rate -> [override -> nominal speed, squared]]
          Overrides,   \* the feed overrides
          BufferSize,  \* BLOCK_BUFFER_SIZE
          MaxLines,    \* bound: lines planned
          MaxEvents    \* bound: holds and changes of the override

ASSUME PnAssumption ==
    /\ BufferSize \in Nat \ {0, 1} /\ {MaxLines, MaxEvents} \subseteq Nat
    /\ \A l \in Lines : l.length \in Nat \ {0} /\ l.junction \in Nat /\ l.rate \in DOMAIN Nominal
    /\ \A r \in DOMAIN Nominal : Nominal[r] \in [Overrides -> Nat \ {0}]

VARIABLES
    pn_queue,    \* block_buffer from the tail on
    pn_planned,  \* block_buffer_planned, as an index into pn_queue
    pn_previous, \* pl.previous_nominal_speed
    pn_override, \* sys.f_override
    pn_loaded,   \* pl_block # NULL, or it is to be recomputed
    pn_speed,    \* prep.current_speed
    pn_exit,     \* the exit speed of the computed profile
    pn_decel,    \* PREP_FLAG_DECEL_OVERRIDE
    pn_hold,     \* STEP_CONTROL_EXECUTE_HOLD
    pn_jump,     \* the last change of the speed
    pn_lowered,  \* history: a block was slowed down since the machine last stood
    pn_lines, pn_events

pn_plan == <<pn_queue, pn_planned, pn_previous>>
pn_prep == <<pn_loaded, pn_speed, pn_exit, pn_decel, pn_hold, pn_jump>>
pn_bound == <<pn_lines, pn_events>>
pn_vars == <<pn_plan, pn_override, pn_prep, pn_lowered, pn_bound>>

SOME_LARGE_VALUE == 1000000

PnMin(a, b) == IF a < b THEN a ELSE b
NominalSpeed(block, f) == Nominal[block.rate][f]

-----------------------------------------------------------------------------
(* planner_recalculate.                                                      *)

\* st_update_plan_block_parameters: the block that is executed is planned from
\* the speed it has now.
UpdatedNever(q) == q
Updated(q) == IF pn_loaded THEN [q EXCEPT ![1].entry = pn_speed] ELSE q

ReversePassFromMaximum(q, planned) ==
    [i \in 1 .. Len(q) |-> IF i <= planned THEN q[i].entry ELSE q[i].max]

\* The reverse pass down to the block after the planned one.
ReversePass(q, planned) ==
    LET n == Len(q)
        e[i \in planned + 1 .. n] ==
            IF i = n THEN PnMin(q[n].max, q[n].length)
            ELSE IF q[i].entry = q[i].max THEN q[i].max
            ELSE PnMin(q[i].max, e[i + 1] + q[i].length)
    IN  [i \in 1 .. n |-> IF i <= planned THEN q[i].entry ELSE e[i]]

\* The forward pass over the entry speeds r, from the planned block.
Forward(q, r, planned) ==
    LET e[i \in planned .. Len(q)] ==
            IF i = planned THEN r[i]
            ELSE LET reached == e[i - 1] + q[i - 1].length
                 IN  IF reached < r[i] THEN reached ELSE r[i]
    IN  [i \in 1 .. Len(q) |-> IF i < planned THEN r[i] ELSE e[i]]

\* The planned pointer goes to the last block that was limited by the forward
\* pass or is at its maximum.
NextPlannedAccelerating(q, r, e, planned) ==
    LET stops == {i \in planned + 1 .. Len(q) : e[i - 1] < e[i] \/ e[i] = q[i].max}
    IN  IF stops = {} THEN planned ELSE CHOOSE i \in stops : \A j \in stops : j <= i
NextPlanned(q, r, e, planned) ==
    LET stops == {i \in planned + 1 .. Len(q) : e[i] < r[i] \/ e[i] = q[i].max}
    IN  IF stops = {} THEN planned ELSE CHOOSE i \in stops : \A j \in stops : j <= i

Recalculated(q0, planned) ==
    IF Len(q0) = planned THEN [queue |-> q0, planned |-> planned, updated |-> FALSE]
    ELSE LET q == IF planned = 1 THEN Updated(q0) ELSE q0
             r == ReversePass(q, planned)
             e == Forward(q, r, planned)
         IN  [queue |-> [i \in DOMAIN q |-> [q[i] EXCEPT !.entry = e[i]]],
              planned |-> NextPlanned(q, r, e, planned),
              updated |-> planned = 1 /\ pn_loaded]

\* The profile of the first block is computed anew when the plan has reached it.
Planned(p) ==
    /\ pn_queue' = p.queue /\ pn_planned' = p.planned

-----------------------------------------------------------------------------
(* plan_buffer_line, and a change of the override.                           *)

\* plan_compute_profile_parameters
MaxEntry(junction, nominal, previous) == PnMin(junction, PnMin(nominal, previous))

\* The first block of an empty queue has the entry zero, its maximum, and
\* brings the planned pointer back to itself from wherever it was.
BufferLine(l) ==
    /\ Len(pn_queue) < BufferSize - 1 /\ pn_lines < MaxLines
    /\ LET junction == IF pn_queue = <<>> THEN 0 ELSE l.junction
           nominal == Nominal[l.rate][pn_override]
           block == [length |-> l.length, junction |-> junction, rate |-> l.rate,
                     max |-> MaxEntry(junction, nominal, pn_previous), entry |-> 0]
           planned == IF pn_queue = <<>> THEN 1 ELSE pn_planned
           p == Recalculated(Append(pn_queue, block), planned)
       IN  /\ Planned(p)
           /\ pn_previous' = nominal
           /\ pn_exit' = IF p.updated THEN p.queue[2].entry ELSE pn_exit
    /\ pn_lines' = pn_lines + 1
    /\ UNCHANGED <<pn_override, pn_loaded, pn_speed, pn_decel, pn_hold, pn_jump, pn_lowered,
                   pn_events>>

\* plan_update_velocity_profile_parameters: the maxima under the override f.
WithMaxima(q, f) ==
    [i \in DOMAIN q |->
        [q[i] EXCEPT !.max =
            IF i = 1 THEN PnMin(q[i].junction, NominalSpeed(q[i], f))
            ELSE MaxEntry(q[i].junction, NominalSpeed(q[i], f), NominalSpeed(q[i - 1], f))]]

\* plan_cycle_reinitialize, of the queue q: planned from its first block.  Over
\* an empty queue the passes run round the whole ring, and leave the planned
\* pointer on any slot of it.
Reinitialized(q) ==
    IF q = <<>> THEN {[queue |-> q, planned |-> i, updated |-> FALSE] : i \in 1 .. BufferSize}
    ELSE {Recalculated(Updated(q), 1)}

ExitOf(q) == IF Len(q) < 2 THEN 0 ELSE q[2].entry

\* A block of the queue is slower under the override f.
Slows(f) ==
    \E i \in DOMAIN pn_queue :
        NominalSpeed(pn_queue[i], f) < NominalSpeed(pn_queue[i], pn_override)

ChangeOverride(f) ==
    /\ f # pn_override /\ pn_events < MaxEvents
    /\ \E p \in Reinitialized(WithMaxima(pn_queue, f)) :
          Planned(p) /\ pn_exit' = IF pn_loaded THEN ExitOf(p.queue) ELSE pn_exit
    /\ pn_previous' = IF pn_queue = <<>> THEN SOME_LARGE_VALUE
                      ELSE NominalSpeed(pn_queue[Len(pn_queue)], f)
    /\ pn_decel' = (pn_decel /\ ~pn_loaded)
    /\ pn_override' = f
    /\ pn_lowered' = (pn_lowered \/ Slows(f))
    /\ pn_events' = pn_events + 1
    /\ UNCHANGED <<pn_loaded, pn_speed, pn_hold, pn_jump, pn_lines>>

-----------------------------------------------------------------------------
(* st_prep_buffer.                                                           *)

\* The next block is loaded with the speed its entry was planned for, or, in a
\* hold or after a deceleration that did not end in its block, with the speed
\* there is.
LoadBlock ==
    /\ ~pn_loaded /\ pn_queue # <<>>
    /\ pn_loaded' = TRUE
    /\ LET v == IF pn_hold \/ pn_decel THEN pn_exit ELSE pn_queue[1].entry
       IN  /\ pn_speed' = v
           /\ pn_jump' = v - pn_speed
           /\ pn_queue' = [pn_queue EXCEPT ![1].entry = v]
    /\ pn_exit' = ExitOf(pn_queue)
    /\ pn_decel' = FALSE
    /\ UNCHANGED <<pn_planned, pn_previous, pn_override, pn_hold, pn_lowered, pn_bound>>

\* A block that is slower than the speed it is entered with and too short to
\* lose it is only decelerated on.
DecelOnly ==
    LET b == pn_queue[1] IN
    pn_speed > NominalSpeed(b, pn_override)
        /\ pn_speed - NominalSpeed(b, pn_override) >= b.length

\* The speed after the next cell: in a hold and above the nominal speed it
\* goes down, at the end of the block it is the exit speed, and before that
\* the highest from which the exit speed can be reached.
NextSpeed ==
    LET b == pn_queue[1]
        nominal == NominalSpeed(b, pn_override)
    IN  IF pn_hold THEN pn_speed - 1
        ELSE IF pn_speed > nominal /\ (b.length > 1 \/ DecelOnly) THEN pn_speed - 1
        ELSE IF b.length = 1 THEN pn_exit
        ELSE IF pn_speed - pn_exit >= b.length THEN pn_speed - 1
        ELSE PnMin(PnMin(pn_speed + 1, nominal), pn_exit + b.length - 1)

Moved == pn_speed' = NextSpeed /\ pn_jump' = NextSpeed - pn_speed

\* A cell inside of the block.
PrepCell ==
    /\ pn_loaded /\ (pn_hold => pn_speed > 0)
    /\ pn_queue[1].length > 1
    /\ Moved
    /\ pn_queue' = [pn_queue EXCEPT ![1].length = @ - 1]
    /\ UNCHANGED <<pn_planned, pn_previous, pn_override, pn_loaded, pn_exit,
                   pn_decel, pn_hold, pn_lowered, pn_bound>>

\* The last cell: plan_discard_current_block.  A deceleration that goes on is
\* remembered with the speed it has reached.
PrepLastCell ==
    /\ pn_loaded /\ (pn_hold => pn_speed > 0)
    /\ pn_queue[1].length = 1
    /\ Moved
    /\ pn_queue' = Tail(pn_queue)
    /\ pn_planned' = IF pn_planned = 1 THEN 1 ELSE pn_planned - 1
    /\ pn_loaded' = FALSE
    /\ pn_exit' = NextSpeed
    /\ pn_decel' = (~pn_hold /\ DecelOnly)
    /\ UNCHANGED <<pn_previous, pn_override, pn_hold, pn_lowered, pn_bound>>

\* With nothing left the steppers stop from the speed they have.  The exit speed
\* is read again only if a deceleration is still to go on.
Stops ==
    /\ pn_queue = <<>>
    /\ pn_speed' = 0
    /\ pn_jump' = 0 - pn_speed
    /\ pn_exit' = IF pn_decel THEN pn_exit ELSE 0
    /\ pn_lowered' = pn_decel
    /\ UNCHANGED <<pn_plan, pn_override, pn_loaded, pn_decel, pn_hold, pn_bound>>

\* A feed hold updates the block that is executed, and ends with the plan made
\* anew from the stop.
StartHold ==
    /\ ~pn_hold /\ pn_events < MaxEvents
    /\ pn_hold' = TRUE
    /\ pn_queue' = Updated(pn_queue)
    /\ pn_events' = pn_events + 1
    /\ UNCHANGED <<pn_planned, pn_previous, pn_override, pn_loaded, pn_speed,
                   pn_exit, pn_decel, pn_jump, pn_lowered, pn_lines>>

HoldEnds ==
    /\ pn_hold /\ pn_speed = 0 /\ (pn_loaded \/ pn_queue = <<>>)
    /\ pn_hold' = FALSE
    /\ \E p \in Reinitialized(pn_queue) :
          Planned(p) /\ pn_exit' = IF pn_loaded THEN ExitOf(p.queue) ELSE pn_exit
    /\ pn_decel' = (pn_decel /\ ~pn_loaded)
    /\ UNCHANGED <<pn_previous, pn_override, pn_loaded, pn_speed, pn_jump, pn_lowered, pn_bound>>

-----------------------------------------------------------------------------
PnInit ==
    /\ pn_queue = <<>> /\ pn_planned = 1 /\ pn_previous = 0
    /\ pn_override \in Overrides
    /\ pn_loaded = FALSE /\ pn_speed = 0 /\ pn_exit = 0 /\ pn_decel = FALSE
    /\ pn_hold = FALSE /\ pn_jump = 0 /\ pn_lowered = FALSE
    /\ pn_lines = 0 /\ pn_events = 0

PnNext ==
    \/ \E l \in Lines : BufferLine(l)
    \/ \E f \in Overrides : ChangeOverride(f)
    \/ LoadBlock \/ PrepCell \/ PrepLastCell \/ Stops
    \/ StartHold \/ HoldEnds

PnSpec == PnInit /\ [][PnNext]_pn_vars

-----------------------------------------------------------------------------
\* The cells between the entries of the blocks i and j (Len + 1 is the end).
CellsBetween(i, j) ==
    LET d[k \in i .. j] == IF k = i THEN 0 ELSE d[k - 1] + pn_queue[k - 1].length
    IN  d[j]

\* "the plan is optimal and no further speed improvements are possible"
\* (planner.c:84): although only the blocks after the planned pointer are
\* computed again, every entry speed is the highest from which all maxima that
\* follow and the stop at the end can be kept, and that can be reached from
\* the speed of now and from the maxima before.
PlanIsOptimal ==
    LET n == Len(pn_queue)
        now == IF pn_loaded THEN pn_speed ELSE pn_queue[1].entry
    IN  (n > 1 /\ ~pn_hold /\ ~pn_decel) =>
        \A i \in 2 .. n :
            LET limits == {now + CellsBetween(1, i), CellsBetween(i, n + 1)}
                          \cup {pn_queue[j].max + CellsBetween(i, j) : j \in i .. n}
                          \cup {pn_queue[j].max + CellsBetween(j, i) : j \in 2 .. i}
            IN  pn_queue[i].entry = CHOOSE m \in limits : \A k \in limits : m <= k

\* No step of the program asks for more than the acceleration of the machine:
\* the speed changes by no more than one cell allows, across the borders of
\* blocks, holds, and lines that are planned while others are executed
\* (planner.c:75: "A block entry speed cannot exceed one reverse-computed from
\* its exit speed (next->entry_speed) with a maximum allowable deceleration
\* over the block travel distance").
AccelerationKept == pn_jump \in -1 .. 1

\* With nothing left to execute the machine stands: every plan ends with a stop.
PlanEndsInStop == pn_queue = <<>> => pn_speed = 0

\* What every step keeps.  The entry of the block i, the first one's being the
\* speed of now, and the one after the last a stop.
Now == IF pn_loaded THEN pn_speed ELSE pn_queue[1].entry
EntryAt(q, now, i) == IF i = 1 THEN now ELSE IF i <= Len(q) THEN q[i].entry ELSE 0

\* From every entry the next one can be reached by deceleration, in a hold too.
CanStop(q, now) ==
    \A i \in 1 .. Len(q) :
        /\ EntryAt(q, now, i) <= EntryAt(q, now, i + 1) + q[i].length
        /\ i > 1 => q[i].entry <= q[i].max

\* No entry can be raised alone, and the planned one not by what follows either.
CannotBeRaised(q, now, planned, i) ==
    LET reached == EntryAt(q, now, i - 1) + q[i - 1].length
        stopping == EntryAt(q, now, i + 1) + q[i].length
    IN  /\ q[i].entry <= reached
        /\ \/ q[i].entry \in {q[i].max, reached}
           \/ i # planned /\ q[i].entry = stopping
FullyUsed(q, now, planned) == \A i \in 2 .. Len(q) : CannotBeRaised(q, now, planned, i)

\* The maxima belong to the override f.
MaximaAreCurrent(q, f) ==
    \A i \in 2 .. Len(q) :
        q[i].max = MaxEntry(q[i].junction, NominalSpeed(q[i], f), NominalSpeed(q[i - 1], f))

\* So do the speed of now, and the one that the next line is joined to.
SpeedsAreCurrent ==
    pn_queue # <<>> =>
        /\ pn_previous = NominalSpeed(pn_queue[Len(pn_queue)], pn_override)
        /\ Now <= NominalSpeed(pn_queue[1], pn_override)

\* The profile of the first block joins the plan at both of its ends.
ProfileJoins ==
    /\ ~pn_decel
    /\ pn_loaded => pn_queue # <<>> /\ pn_exit = ExitOf(pn_queue)
    /\ ~pn_loaded => /\ pn_exit = pn_speed
                     /\ pn_queue # <<>> => /\ pn_speed <= Now
                                           /\ ~pn_hold => pn_speed = Now

Block == [length : Nat \ {0}, junction : Nat, rate : DOMAIN Nominal, max : Nat, entry : Nat]
PnTypeOK ==
    /\ pn_queue \in Seq(Block)
    /\ pn_planned \in Nat \ {0} /\ (pn_queue = <<>> \/ pn_planned <= Len(pn_queue))
    /\ pn_speed \in Nat /\ pn_exit \in Nat /\ pn_previous \in Nat /\ pn_override \in Overrides
    /\ pn_loaded \in BOOLEAN /\ pn_hold \in BOOLEAN /\ pn_decel \in BOOLEAN
    /\ pn_lowered \in BOOLEAN

PlanKept ==
    /\ PnTypeOK /\ MaximaAreCurrent(pn_queue, pn_override) /\ SpeedsAreCurrent /\ ProfileJoins
    /\ CanStop(pn_queue, Now)
    /\ ~pn_hold => FullyUsed(pn_queue, Now, pn_planned)

\* No entry is faster than its maximum.
BelowMaxima(q) == \A i \in 2 .. Len(q) : q[i].entry <= q[i].max

\* Whatever the override does, no entry exceeds the maxima that belong to it, the
\* speed never rises by more than a cell allows, and the plan ends in a stop.
\* And the plan is the fastest the accelerations and the limits allow, and is
\* executed without a jump in speed, until an override slows a block of the queue
\* down, and again from when the machine has come to stand with an empty queue.
PnInv ==
    /\ PnTypeOK /\ MaximaAreCurrent(pn_queue, pn_override) /\ BelowMaxima(pn_queue)
    /\ pn_jump <= 1 /\ PlanEndsInStop
    /\ ~pn_lowered => PlanIsOptimal /\ AccelerationKept /\ PlanKept
=============================================================================
