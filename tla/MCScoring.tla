------------------------------- MODULE MCScoring -------------------------------
(* Instances of Scoring for TLC.  A unit of VRAM is 4096 MB; a third GPU is  *)
(* registered, as the scheduler's tests do.                                 *)
EXTENDS Scoring

ThreeGPUs == 0..2
Sizes == <<4, 6>> \* VRAM units of the two kinds of GPU
TypeOfGPU == [g \in ThreeGPUs |-> IF g = 1 THEN "amd" ELSE "nvidia"]
VRAMOfGPU == [g \in ThreeGPUs |-> IF g = 1 THEN Sizes[2] ELSE Sizes[1]]

\* Idle, half full, busy with the most tasks, full, and an impossible utilization.
SomeLoads == {[used |-> 0, util |-> 0, running |-> 0],
              [used |-> 2, util |-> 40, running |-> 1],
              [used |-> 3, util |-> 20, running |-> 3],
              [used |-> 4, util |-> 100, running |-> 1],
              [used |-> 1, util |-> 101, running |-> 0]}

SomeCriteria == [need : {1}, type : {"training", "inference", "compute", "other"},
                 priority : {5, 10}, policy : {"binpack", "spread", "gpu_type", ""}]

NoGPU == -1
==============================================================================
