----------------------------- MODULE MCScheduler -----------------------------
(* Instances of Scheduler for TLC.  One unit of VRAM stands for 4096 MB.    *)
EXTENDS Scheduler

MCCapacity == [g \in GPUs |-> IF g = 0 THEN 2 ELSE 3]
SmallCapacity == [g \in GPUs |-> 2]

Report(u, h) == [used |-> u, healthy |-> h]

RaceReports == {Report(0, TRUE), Report(2, FALSE)}

OtherConfigs ==
    {[enabled |-> TRUE, minPriority |-> 7, maxPriority |-> 5, policy |-> "wait"],
     [enabled |-> TRUE, minPriority |-> 9, maxPriority |-> 5, policy |-> "checkpoint"],
     [enabled |-> FALSE, minPriority |-> 7, maxPriority |-> 5, policy |-> "kill"]}
==============================================================================
