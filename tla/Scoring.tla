-------------------------------- MODULE Scoring --------------------------------
(***************************************************************************)
(* Which GPU a task gets: scheduleLocked and calculateScore of              *)
(* internal/scheduler/scheduler.go, the score breakdown shown to users, and *)
(* internal/scheduler/hybrid_scheduler.go, which does the same again.       *)
(*                                                                          *)
(* One behaviour is one decision.  The GPUs are visited in the order in     *)
(* which Go ranges over a map, which is any order; those that can take the  *)
(* task are scored, and the slice of scores is sorted by exchanges.         *)
(*                                                                          *)
(* Scores are multiplied by Scale, which makes every one of them a whole    *)
(* number.  In float64 two equal scores may differ by a rounding error:     *)
(* where the model has a tie the code may choose either.                    *)
(***************************************************************************)
EXTENDS Integers, Sequences, FiniteSets

CONSTANTS
    GPUs,           \* the registered GPUs
    VRAM, Type,     \* Info.VRAMMB and Info.Type of each
    gpuCount,       \* the divisor of the load scores: 2, however many GPUs there are
    Scale,
    Loads,          \* [used, util, running] a GPU's usage may be
    Criteria,       \* [need, type, priority, policy] of a request; "" stands for an
                    \* unknown policy
    None            \* no GPU

ASSUME ScoringAssumption ==
    /\ VRAM \in [GPUs -> Nat \ {0}] /\ Type \in [GPUs -> {"nvidia", "amd"}]
    /\ gpuCount \in Nat \ {0} /\ Scale \in Nat \ {0} /\ None \notin GPUs
    /\ \A g \in GPUs : (30 * Scale) % VRAM[g] = 0
    /\ Scale % 4 = 0 /\ (10 * Scale) % gpuCount = 0
    /\ Loads \subseteq [used : Nat, util : Int, running : Int]
    /\ Criteria \subseteq [need : Nat, type : {"training", "inference", "compute", "other"},
                           priority : Int, policy : {"binpack", "spread", "gpu_type", ""}]

VARIABLES
    usage,          \* Usage of each GPU
    criteria,       \* the request
    unvisited,      \* GPUs the range has not reached
    scored,         \* scoredGPUs: a slice of [gpu, score]
    i, j,           \* the indexes of the two sorting loops, from 1
    best            \* the GPU chosen, None before that and when there is none

vars == <<usage, criteria, unvisited, scored, i, j, best>>

FreeVRAM(g) == VRAM[g] - usage[g].used
IsHealthy(g) == usage[g].util \in 0..100
Eligible(g) == FreeVRAM(g) >= criteria.need /\ IsHealthy(g)

------------------------------------------------------------------------------
(* The five parts of a score.                                              *)

VRAMScore(g) == ((30 * Scale) \div VRAM[g]) * FreeVRAM(g)

\* Mutant of UtilScore: a busy GPU scores high.
UtilScoreOfBusy(g) == (Scale \div 4) * usage[g].util
UtilScore(g) == (Scale \div 4) * (100 - usage[g].util)

TypeScore(g, type) ==
    Scale * (CASE type = "training"  -> IF Type[g] = "nvidia" THEN 18 ELSE 15
               [] type = "inference" -> IF Type[g] = "amd" THEN 18 ELSE 15
               [] type = "compute"   -> IF Type[g] = "nvidia" THEN 20 ELSE 12
               [] OTHER              -> 15)

PriorityScore(p) == (Scale \div 2) * 3 * p

LoadScore(g, policy) ==
    CASE policy = "binpack"  -> ((10 * Scale) \div gpuCount) * usage[g].running
      [] policy = "spread"   -> ((10 * Scale) \div gpuCount) * (gpuCount - usage[g].running)
      [] policy = "gpu_type" -> 10 * Scale
      [] OTHER               -> 5 * Scale

calculateScore(g) ==
    VRAMScore(g) + UtilScore(g) + TypeScore(g, criteria.type)
        + PriorityScore(criteria.priority) + LoadScore(g, criteria.policy)

\* Mutant of GetScoreBreakdown: the scheduler's default load score is shown.
BreakdownWithoutLoad(g) ==
    VRAMScore(g) + UtilScore(g) + TypeScore(g, criteria.type) + PriorityScore(5) + 5 * Scale

\* The total that is shown: of priority 5, and of binpack whatever the policy is.
GetScoreBreakdown(g) ==
    VRAMScore(g) + UtilScore(g) + TypeScore(g, criteria.type) + PriorityScore(5)
        + ((10 * Scale) \div gpuCount) * usage[g].running

------------------------------------------------------------------------------
(* HybridScheduler, which also knows a preferred type of GPU; "" is none,   *)
(* or the unknown one.  Its count of GPUs is the same fixed 2.              *)

\* Mutant of HybridTypeScore: the lower score goes to the type that was preferred.
HybridTypeScoreLowersMatch(g, preferred) ==
    IF preferred # ""
    THEN Scale * (IF Type[g] = preferred THEN 10 ELSE 20)
    ELSE TypeScore(g, criteria.type)

\* The preference does not add to the score of the task's type, it replaces it.
HybridTypeScore(g, preferred) ==
    IF preferred # ""
    THEN Scale * (IF Type[g] = preferred THEN 20 ELSE 10)
    ELSE TypeScore(g, criteria.type)

CalculateScore(g, preferred) ==
    VRAMScore(g) + UtilScore(g) + HybridTypeScore(g, preferred)
        + PriorityScore(criteria.priority) + LoadScore(g, criteria.policy)

\* The total it prints ignores the preferred type.
PrintScoreBreakdown(g) ==
    VRAMScore(g) + UtilScore(g) + TypeScore(g, criteria.type)
        + PriorityScore(criteria.priority) + LoadScore(g, criteria.policy)

\* What Schedule may return: any GPU that sort.Slice may put first.
Schedule(preferred) ==
    {g \in GPUs : /\ Eligible(g)
                  /\ \A h \in GPUs : Eligible(h)
                        => CalculateScore(h, preferred) <= CalculateScore(g, preferred)}

------------------------------------------------------------------------------
(* scheduleLocked.                                                         *)

Init ==
    /\ usage \in [GPUs -> Loads]
    /\ criteria \in Criteria
    /\ unvisited = GPUs
    /\ scored = <<>>
    /\ i = 1 /\ j = 2
    /\ best = None

Visit(g) ==
    /\ g \in unvisited
    /\ unvisited' = unvisited \ {g}
    /\ scored' = IF Eligible(g)
                 THEN Append(scored, [gpu |-> g, score |-> calculateScore(g)]) ELSE scored
    /\ UNCHANGED <<usage, criteria, i, j, best>>

Sorting == unvisited = {} /\ i < Len(scored)

\* Mutant of Compare: the slice is sorted in ascending order.
CompareAscending ==
    /\ Sorting /\ j <= Len(scored)
    /\ scored' = IF scored[j].score < scored[i].score
                 THEN [scored EXCEPT ![i] = scored[j], ![j] = scored[i]] ELSE scored
    /\ j' = j + 1
    /\ UNCHANGED <<usage, criteria, unvisited, i, best>>

\* The body of the inner loop: exchange the two entries if the later one scores more.
Compare ==
    /\ Sorting /\ j <= Len(scored)
    /\ scored' = IF scored[j].score > scored[i].score
                 THEN [scored EXCEPT ![i] = scored[j], ![j] = scored[i]] ELSE scored
    /\ j' = j + 1
    /\ UNCHANGED <<usage, criteria, unvisited, i, best>>

NextPass ==
    /\ Sorting /\ j > Len(scored)
    /\ i' = i + 1 /\ j' = i + 2
    /\ UNCHANGED <<usage, criteria, unvisited, scored, best>>

Select ==
    /\ unvisited = {} /\ ~Sorting
    /\ best = None /\ scored # <<>>
    /\ best' = scored[1].gpu
    /\ UNCHANGED <<usage, criteria, unvisited, scored, i, j>>

Next == (\E g \in GPUs : Visit(g)) \/ Compare \/ NextPass \/ Select

Spec == Init /\ [][Next]_vars

------------------------------------------------------------------------------
(* What a choice must be.                                                  *)

Decided == unvisited = {} /\ (best # None \/ scored = <<>>)

\* In whatever order the map is visited, the exchanges bring a GPU to the front that
\* can take the task and that none which can take it outscores; the request fails
\* only if there is none.
BestIsChosen ==
    Decided => IF best = None THEN \A g \in GPUs : ~Eligible(g)
               ELSE /\ Eligible(best)
                    /\ \A g \in GPUs : Eligible(g) => calculateScore(g) <= calculateScore(best)

\* The load a policy prefers: binpack the GPU with more tasks, spread with fewer.
LoadAtLeast(g, h) ==
    CASE criteria.policy = "binpack" -> usage[g].running >= usage[h].running
      [] criteria.policy = "spread"  -> usage[g].running <= usage[h].running
      [] OTHER                       -> TRUE

\* The type a task prefers (README.md:131, scheduler.go:265-285).
Suits(g) == \/ criteria.type \in {"training", "compute"} /\ Type[g] = "nvidia"
            \/ criteria.type = "inference" /\ Type[g] = "amd"

\* Of g and h, g has the greater share of its VRAM free, is less busy, suits the
\* task as well and fits the policy as well: nothing speaks for h.
Dominates(g, h) ==
    /\ FreeVRAM(g) * VRAM[h] > FreeVRAM(h) * VRAM[g]
    /\ usage[g].util < usage[h].util
    /\ Suits(h) => Suits(g)
    /\ LoadAtLeast(g, h)

\* No GPU that another one beats in every respect is chosen: the five weighted
\* parts pull in the directions that the documents give them (README.md:129-140).
NoneDominated ==
    best # None => \A g \in GPUs : Eligible(g) => ~Dominates(g, best)

\* A preference never drives a task away from the type it names: where the choice
\* without one is of that type, HybridScheduler chooses that type for a request which
\* prefers it.  The preference replaces the score of the task's type: its 10 points
\* between the types must outweigh whatever that score gave, which is up to 8.
PreferenceHelps ==
    best # None => \A p \in {"nvidia", "amd"} :
                      Type[best] = p => \A g \in Schedule(p) : Type[g] = p

\* What users are shown explains the choice: under binpack, no GPU that could take
\* the task shows a higher total than the chosen one.
BreakdownExplains ==
    best # None /\ criteria.policy = "binpack" =>
        \A g \in GPUs : Eligible(g) => /\ GetScoreBreakdown(g) <= GetScoreBreakdown(best)
                                       /\ PrintScoreBreakdown(g) <= PrintScoreBreakdown(best)
==============================================================================
