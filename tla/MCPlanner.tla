---- MODULE MCPlanner ----
\* Two rates, a low and a high override; junctions that do not limit, that do,
\* and that stop.
EXTENDS Planner
McLines ==
    {[length |-> 1, junction |-> 3, rate |-> "fast"],
     [length |-> 3, junction |-> 9, rate |-> "slow"],
     [length |-> 2, junction |-> 9, rate |-> "fast"],
     [length |-> 4, junction |-> 0, rate |-> "fast"]}
McNominal ==
    [slow |-> [low |-> 1, high |-> 4], fast |-> [low |-> 4, high |-> 16]]
====
