---------------------------- MODULE ScoringProofs ----------------------------
(***************************************************************************)
(* Proofs about module Scoring, for any GPUs, loads, requests and weights.  *)
(***************************************************************************)
EXTENDS Scoring, SequenceTheorems, TLAPS

------------------------------------------------------------------------------
(* The parts of a score.                                                    *)

Entry == [gpu : GPUs, score : Int]

TypeInv ==
    /\ usage \in [GPUs -> Loads] /\ criteria \in Criteria
    /\ unvisited \subseteq GPUs
    /\ scored \in Seq(Entry)
    /\ i \in Nat \ {0} /\ j \in Nat /\ i < j

LEMMA LoadType ==
    ASSUME TypeInv, NEW g \in GPUs
    PROVE  /\ usage[g].used \in Int /\ usage[g].util \in Int /\ usage[g].running \in Int
           /\ VRAM[g] \in Nat \ {0} /\ Type[g] \in {"nvidia", "amd"} /\ FreeVRAM(g) \in Int
<1>1. usage[g] \in [used : Nat, util : Int, running : Int]
  BY ScoringAssumption DEF TypeInv
<1>2. VRAM[g] \in Nat \ {0} /\ Type[g] \in {"nvidia", "amd"}
  BY ScoringAssumption
<1>3. usage[g].used \in Nat
  BY <1>1
<1>4. FreeVRAM(g) \in Int
  BY <1>2, <1>3 DEF FreeVRAM
<1> QED BY <1>1, <1>2, <1>3, <1>4

\* What a positive number is divided into is a natural number.
LEMMA QuotientType ==
    ASSUME NEW a \in Nat, NEW b \in Nat \ {0}
    PROVE  a \div b \in Nat
OBVIOUS

LEMMA PartTypes ==
    ASSUME TypeInv, NEW g \in GPUs
    PROVE  /\ VRAMScore(g) \in Int /\ UtilScore(g) \in Int
           /\ PriorityScore(criteria.priority) \in Int
           /\ PriorityScore(5) \in Int
           /\ TypeScore(g, criteria.type) \in Int /\ LoadScore(g, criteria.policy) \in Int
           /\ ((10 * Scale) \div gpuCount) * usage[g].running \in Int
<1>1. /\ Scale \in Nat \ {0} /\ gpuCount \in Nat \ {0} /\ 30 * Scale \in Nat /\ 10 * Scale \in Nat
      /\ 4 \in Nat \ {0} /\ 2 \in Nat \ {0} /\ Scale \in Nat
  <2>1. Scale \in Nat \ {0} /\ gpuCount \in Nat \ {0}
    BY ScoringAssumption
  <2> QED BY <2>1
<1>2. /\ VRAM[g] \in Nat \ {0} /\ FreeVRAM(g) \in Int
      /\ usage[g].running \in Int /\ usage[g].util \in Int
  BY LoadType
<1> DEFINE v == (30 * Scale) \div VRAM[g]
           u == Scale \div 4
           p == Scale \div 2
           l == (10 * Scale) \div gpuCount
<1>3. v \in Int /\ u \in Int /\ p \in Int /\ l \in Int
  BY <1>1, <1>2, QuotientType
<1>4. criteria.priority \in Int
  BY ScoringAssumption DEF TypeInv
<1> HIDE DEF v, u, p, l
<1>5. v * FreeVRAM(g) \in Int /\ u * (100 - usage[g].util) \in Int
  BY <1>2, <1>3
<1>6. p * 3 * criteria.priority \in Int /\ p * 3 * 5 \in Int
  BY <1>3, <1>4
<1>7. l * usage[g].running \in Int /\ l * (gpuCount - usage[g].running) \in Int
  BY <1>1, <1>2, <1>3
<1>8. TypeScore(g, criteria.type) \in Int
  BY <1>1 DEF TypeScore
<1>9. LoadScore(g, criteria.policy) \in Int
  BY <1>1, <1>7 DEF LoadScore, l
<1> QED BY <1>5, <1>6, <1>7, <1>8, <1>9 DEF VRAMScore, UtilScore, PriorityScore, v, u, p, l

LEMMA ScoreType == ASSUME TypeInv, NEW g \in GPUs PROVE calculateScore(g) \in Int
BY PartTypes DEF calculateScore

------------------------------------------------------------------------------
(* The sort brings a best GPU to the front.                                 *)

\* The slice holds the GPUs visited that can take the task, with their scores.
ScoredAreEligible ==
    /\ \A k \in 1..Len(scored) : \A g \in GPUs :
          scored[k].gpu = g => Eligible(g) /\ scored[k].score = calculateScore(g)
    /\ \A g \in GPUs \ unvisited :
          Eligible(g) => \E k \in 1..Len(scored) : scored[k].gpu = g

\* The first entry is the best of those the first pass has compared it with; that is all
\* of them in the later passes, which leave the first entry alone.
FirstIsBest ==
    /\ unvisited # {} => i = 1 /\ j = 2 /\ best = None
    /\ \A k \in 1..Len(scored) : i > 1 \/ k < j => scored[k].score <= scored[1].score

\* Nobody that can take the task outscores g.
IsBest(g) == /\ Eligible(g)
             /\ \A h \in GPUs : Eligible(h) => calculateScore(h) <= calculateScore(g)

ChoiceInv ==
    /\ TypeInv /\ ScoredAreEligible /\ FirstIsBest
    /\ best # None => unvisited = {} /\ best \in GPUs
    /\ \A g \in GPUs : best = g => IsBest(g)

\* What the slice holds is entries.
LEMMA EntryType ==
    ASSUME NEW s \in Seq(Entry), NEW k \in 1..Len(s)
    PROVE  s[k] \in Entry /\ s[k].gpu \in GPUs /\ s[k].score \in Int
<1>1. s[k] \in Entry
  BY ElementOfSeq
<1> QED BY <1>1 DEF Entry

\* Eligibility and scores do not change during a decision.
LEMMA ScoresStay ==
    ASSUME UNCHANGED <<usage, criteria>>
    PROVE  /\ \A g \in GPUs : Eligible(g)' = Eligible(g) /\ calculateScore(g)' = calculateScore(g)
           /\ \A g \in GPUs : IsBest(g)' = IsBest(g)
<1>1. \A g \in GPUs : Eligible(g)' = Eligible(g) /\ calculateScore(g)' = calculateScore(g)
  BY DEF Eligible, FreeVRAM, IsHealthy, calculateScore, VRAMScore, UtilScore, TypeScore,
         PriorityScore, LoadScore
<1> QED BY <1>1 DEF IsBest

LEMMA NoneNoGPU == \A g \in GPUs : None # g
BY ScoringAssumption

LEMMA InitChoice == Init => ChoiceInv
<1> SUFFICES ASSUME Init PROVE ChoiceInv
  OBVIOUS
<1>1. TypeInv
  BY DEF Init, TypeInv
<1>2. Len(scored) = 0 /\ 1..0 = {}
  BY DEF Init
<1> QED BY <1>1, <1>2, NoneNoGPU DEF Init, ChoiceInv, ScoredAreEligible, FirstIsBest

LEMMA VisitStep == ASSUME ChoiceInv, NEW g \in GPUs, Visit(g) PROVE ChoiceInv'
<1> USE DEF ChoiceInv
<1>1. /\ g \in unvisited /\ unvisited' = unvisited \ {g}
      /\ UNCHANGED <<usage, criteria, i, j, best>>
  BY DEF Visit
<1>2. i = 1 /\ j = 2 /\ best = None
  BY <1>1 DEF FirstIsBest
<1>3. \A h \in GPUs : Eligible(h)' = Eligible(h) /\ calculateScore(h)' = calculateScore(h)
  BY <1>1, ScoresStay
<1>4. /\ scored \in Seq(Entry) /\ Len(scored) \in Nat
      /\ \A k \in 1..Len(scored) : scored[k].gpu \in GPUs
  BY EntryType DEF TypeInv
<1>5. CASE Eligible(g)
  <2> DEFINE e == [gpu |-> g, score |-> calculateScore(g)]
  <2>1. scored' = Append(scored, e)
    BY <1>5 DEF Visit
  <2>2. e \in Entry /\ e.gpu = g /\ e.score = calculateScore(g) /\ e.score \in Int
    BY ScoreType DEF Entry
  <2> HIDE DEF e
  <2>3. /\ scored' \in Seq(Entry) /\ Len(scored') = Len(scored) + 1
        /\ scored'[Len(scored) + 1] = e /\ \A k \in 1..Len(scored) : scored'[k] = scored[k]
    BY <1>4, <2>1, <2>2, AppendProperties
  <2>4. TypeInv'
    BY <1>1, <2>3 DEF TypeInv
  <2>5. \A k \in 1..Len(scored') : scored'[k] = e \/ k \in 1..Len(scored)
    BY <1>4, <2>3
  <2>6. \A k \in 1..Len(scored) : k \in 1..Len(scored')
    BY <1>4, <2>3
  <2>7. Len(scored) + 1 \in 1..Len(scored')
    BY <1>4, <2>3
  <2>8. ScoredAreEligible'
    <3>1. \A k \in 1..Len(scored') : \A h \in GPUs :
             scored'[k].gpu = h => Eligible(h)' /\ scored'[k].score = calculateScore(h)'
      BY <1>3, <1>4, <1>5, <2>2, <2>3, <2>5 DEF ScoredAreEligible
    <3>2. \A h \in GPUs \ unvisited' : Eligible(h)' => \E k \in 1..Len(scored') : scored'[k].gpu = h
      <4> TAKE h \in GPUs \ unvisited'
      <4>1. CASE h = g
        BY <2>2, <2>3, <2>7, <4>1
      <4>2. CASE h # g
        BY <1>1, <1>3, <2>3, <2>6, <4>2 DEF ScoredAreEligible
      <4> QED BY <4>1, <4>2
    <3> QED BY <3>1, <3>2 DEF ScoredAreEligible
  <2>9. FirstIsBest'
    <3>1. \A k \in 1..Len(scored') : i > 1 \/ k < j => k = 1
      BY <1>2, <1>4, <2>3
    <3>2. \A k \in 1..Len(scored') : scored'[k].score \in Int
      BY <2>3, EntryType
    <3> QED BY <1>1, <1>2, <3>1, <3>2 DEF FirstIsBest
  <2> QED BY <1>1, <1>2, NoneNoGPU, <2>4, <2>8, <2>9
<1>6. CASE ~Eligible(g)
  <2>1. scored' = scored
    BY <1>6 DEF Visit
  <2>2. TypeInv'
    BY <1>1, <2>1 DEF TypeInv
  <2>3. ScoredAreEligible'
    BY <1>1, <1>3, <1>4, <1>6, <2>1 DEF ScoredAreEligible
  <2> QED BY <1>1, <1>2, NoneNoGPU, <2>1, <2>2, <2>3 DEF FirstIsBest
<1> QED BY <1>5, <1>6

LEMMA CompareStep == ASSUME ChoiceInv, Compare PROVE ChoiceInv'
<1> USE DEF ChoiceInv
<1>1. /\ unvisited = {} /\ i < Len(scored) /\ j <= Len(scored) /\ j' = j + 1
      /\ UNCHANGED <<usage, criteria, unvisited, i, best>>
      /\ scored' = IF scored[j].score > scored[i].score
                   THEN [scored EXCEPT ![i] = scored[j], ![j] = scored[i]] ELSE scored
  BY DEF Compare, Sorting
<1>2. /\ i \in 1..Len(scored) /\ j \in 1..Len(scored) /\ i # j /\ Len(scored) \in Nat
      /\ i \in Nat \ {0} /\ j \in Nat /\ i < j /\ j # 1
  BY <1>1 DEF TypeInv
<1>3. /\ scored \in Seq(Entry)
      /\ \A k \in 1..Len(scored) : /\ scored[k] \in Entry /\ scored[k].score \in Int
                                   /\ scored[k].gpu \in GPUs
  BY EntryType DEF TypeInv
<1>4. \A h \in GPUs : Eligible(h)' = Eligible(h) /\ calculateScore(h)' = calculateScore(h)
  BY <1>1, ScoresStay
<1>5. /\ best' # None => unvisited' = {} /\ best' \in GPUs
      /\ \A g \in GPUs : best' = g => IsBest(g)'
  BY <1>1, ScoresStay
<1> DEFINE swap == scored[j].score > scored[i].score
           at(k) == IF swap /\ k = i THEN j ELSE IF swap /\ k = j THEN i ELSE k
<1>6. /\ scored' \in Seq(Entry) /\ Len(scored') = Len(scored)
      /\ \A k \in 1..Len(scored) : scored'[k] = scored[at(k)] /\ at(k) \in 1..Len(scored)
                                   /\ at(at(k)) = k
  <2>1. CASE swap
    <3> DEFINE s == [scored EXCEPT ![i] = scored[j]]
    <3>1. /\ s \in Seq(Entry) /\ Len(s) = Len(scored)
          /\ \A k \in 1..Len(scored) : s[k] = IF k = i THEN scored[j] ELSE scored[k]
      BY <1>2, <1>3, ExceptSeq
    <3> HIDE DEF s
    <3>2. /\ [s EXCEPT ![j] = scored[i]] \in Seq(Entry) /\ Len([s EXCEPT ![j] = scored[i]]) = Len(s)
          /\ \A k \in 1..Len(s) : [s EXCEPT ![j] = scored[i]][k] = IF k = j THEN scored[i] ELSE s[k]
      BY <1>2, <1>3, <3>1, ExceptSeq
    <3>3. scored' = [s EXCEPT ![j] = scored[i]]
      BY <1>1, <2>1 DEF s
    <3> QED BY <1>2, <2>1, <3>1, <3>2, <3>3
  <2>2. CASE ~swap
    BY <1>1, <1>3, <2>2
  <2> QED BY <2>1, <2>2
<1>7. TypeInv'
  BY <1>1, <1>2, <1>6 DEF TypeInv
<1>8. ScoredAreEligible'
  <2>1. \A k \in 1..Len(scored') : \A h \in GPUs :
           scored'[k].gpu = h => Eligible(h)' /\ scored'[k].score = calculateScore(h)'
    BY <1>3, <1>4, <1>6 DEF ScoredAreEligible
  <2>2. \A h \in GPUs \ unvisited' : Eligible(h)' => \E k \in 1..Len(scored') : scored'[k].gpu = h
    <3> SUFFICES ASSUME NEW h \in GPUs \ unvisited, Eligible(h)
                 PROVE  \E k \in 1..Len(scored') : scored'[k].gpu = h
      BY <1>1, <1>4
    <3>1. PICK k \in 1..Len(scored) : scored[k].gpu = h
      BY DEF ScoredAreEligible
    <3>2. at(k) \in 1..Len(scored) /\ scored'[at(k)] = scored[k]
      BY <1>6
    <3> QED BY <1>6, <3>1, <3>2
  <2> QED BY <2>1, <2>2 DEF ScoredAreEligible
<1>9. FirstIsBest'
  <2> SUFFICES ASSUME NEW k \in 1..Len(scored), i > 1 \/ k < j + 1
               PROVE  scored'[k].score <= scored'[1].score
    BY <1>1, <1>6 DEF FirstIsBest
  <2>1. 1 \in 1..Len(scored)
    BY <1>2
  <2>2. CASE i > 1
    <3>1. at(1) = 1
      BY <1>2, <2>2
    <3>2. \A l \in 1..Len(scored) : scored[l].score <= scored[1].score
      BY <2>2 DEF FirstIsBest
    <3> QED BY <1>6, <2>1, <3>1, <3>2
  <2>3. CASE i = 1
    <3>1. k < j \/ k = j
      BY <1>2, <2>3
    <3>2. \A l \in 1..Len(scored) : l < j => scored[l].score <= scored[1].score
      BY DEF FirstIsBest
    <3>3. scored[k].score \in Int /\ scored[1].score \in Int /\ scored[j].score \in Int
      BY <1>2, <1>3, <2>1
    <3>4. CASE swap
      <4>1. scored'[1] = scored[j] /\ scored[j].score > scored[1].score
        BY <1>6, <2>1, <2>3, <3>4
      <4>2. scored'[k] = scored[j] \/ scored'[k] = scored[1] \/ (scored'[k] = scored[k] /\ k < j)
        <5>1. k = 1 => scored'[k] = scored[j]
          BY <1>6, <2>3, <3>4
        <5>2. k = j => scored'[k] = scored[1]
          BY <1>2, <1>6, <2>3, <3>4
        <5>3. k # 1 /\ k # j => scored'[k] = scored[k]
          BY <1>6, <2>3
        <5> QED BY <3>1, <5>1, <5>2, <5>3
      <4> QED BY <3>2, <3>3, <4>1, <4>2
    <3>5. CASE ~swap
      <4>1. scored'[k] = scored[k] /\ scored'[1] = scored[1]
        BY <1>6, <2>1, <3>5
      <4> QED BY <2>3, <3>1, <3>2, <3>3, <3>5, <4>1
    <3> QED BY <3>4, <3>5
  <2> QED BY <1>2, <2>2, <2>3
<1> QED BY <1>5, <1>7, <1>8, <1>9

LEMMA NextPassStep == ASSUME ChoiceInv, NextPass PROVE ChoiceInv'
<1> USE DEF ChoiceInv
<1>1. /\ unvisited = {} /\ i < Len(scored) /\ j > Len(scored) /\ i' = i + 1 /\ j' = i + 2
      /\ UNCHANGED <<usage, criteria, unvisited, scored, best>>
  BY DEF NextPass, Sorting
<1>2. i \in Nat \ {0} /\ j \in Nat /\ scored \in Seq(Entry) /\ Len(scored) \in Nat
  BY DEF TypeInv
<1>3. \A h \in GPUs : Eligible(h)' = Eligible(h) /\ calculateScore(h)' = calculateScore(h)
  BY <1>1, ScoresStay
<1>4. TypeInv'
  BY <1>1, <1>2 DEF TypeInv
<1>5. \A k \in 1..Len(scored) : scored[k].gpu \in GPUs
  BY <1>2, EntryType
<1>6. ScoredAreEligible'
  BY <1>1, <1>3, <1>5 DEF ScoredAreEligible
<1>7. FirstIsBest'
  <2>1. \A k \in 1..Len(scored) : k < j
    BY <1>1, <1>2
  <2> QED BY <1>1, <2>1 DEF FirstIsBest
<1>8. /\ best' # None => unvisited' = {} /\ best' \in GPUs
      /\ \A g \in GPUs : best' = g => IsBest(g)'
  BY <1>1, ScoresStay
<1> QED BY <1>4, <1>6, <1>7, <1>8

LEMMA SelectStep == ASSUME ChoiceInv, Select PROVE ChoiceInv'
<1> USE DEF ChoiceInv
<1>1. /\ unvisited = {} /\ ~(i < Len(scored)) /\ scored # <<>> /\ best' = scored[1].gpu
      /\ UNCHANGED <<usage, criteria, unvisited, scored, i, j>>
  BY DEF Select, Sorting
<1>2. i \in Nat \ {0} /\ j \in Nat /\ i < j /\ scored \in Seq(Entry) /\ Len(scored) \in Nat \ {0}
  BY <1>1, EmptySeq DEF TypeInv
<1>3. \A h \in GPUs : Eligible(h)' = Eligible(h) /\ calculateScore(h)' = calculateScore(h)
  BY <1>1, ScoresStay
<1>4. \A k \in 1..Len(scored) : scored[k].gpu \in GPUs /\ scored[k].score \in Int
  BY <1>2, EntryType
<1>5. 1 \in 1..Len(scored) /\ \A k \in 1..Len(scored) : i > 1 \/ k < j
  BY <1>1, <1>2
<1>6. \A k \in 1..Len(scored) : scored[k].score <= scored[1].score
  BY <1>5 DEF FirstIsBest
<1>7. best' \in GPUs /\ \A g \in GPUs : best' = g => IsBest(g)
  <2>1. \A g \in GPUs : best' = g => Eligible(g) /\ scored[1].score = calculateScore(g)
    BY <1>1, <1>5 DEF ScoredAreEligible
  <2>2. ASSUME NEW h \in GPUs, Eligible(h) PROVE calculateScore(h) <= scored[1].score
    <3>1. PICK k \in 1..Len(scored) : scored[k].gpu = h
      BY <1>1, <2>2 DEF ScoredAreEligible
    <3> QED BY <1>6, <2>2, <3>1 DEF ScoredAreEligible
  <2> QED BY <1>1, <1>4, <1>5, <2>1, <2>2 DEF IsBest
<1>8. \A g \in GPUs : best' = g => IsBest(g)'
  BY <1>1, <1>7, ScoresStay
<1>9. TypeInv' /\ ScoredAreEligible' /\ FirstIsBest'
  BY <1>1, <1>3, <1>4 DEF TypeInv, ScoredAreEligible, FirstIsBest
<1> QED BY <1>1, <1>7, <1>8, <1>9

LEMMA StepChoice == ChoiceInv /\ [Next]_vars => ChoiceInv'
<1> SUFFICES ASSUME ChoiceInv, [Next]_vars PROVE ChoiceInv'
  OBVIOUS
<1>1. CASE UNCHANGED vars
  <2>1. UNCHANGED <<usage, criteria, unvisited, scored, i, j, best>>
    BY <1>1 DEF vars
  <2> QED BY <2>1, ScoresStay DEF ChoiceInv, TypeInv, ScoredAreEligible, FirstIsBest, IsBest,
        Eligible, FreeVRAM, IsHealthy, calculateScore, VRAMScore, UtilScore, TypeScore,
        PriorityScore, LoadScore
<1> QED BY <1>1, VisitStep, CompareStep, NextPassStep, SelectStep DEF Next

LEMMA ChoiceHolds == Spec => []ChoiceInv
BY InitChoice, StepChoice, PTL DEF Spec

\* In whatever order the GPUs are visited, the exchanges bring one to the front that can
\* take the task and that none which can take it outscores.
THEOREM BestGPUChosen == Spec => []BestIsChosen
<1>1. ChoiceInv => BestIsChosen
  <2> SUFFICES ASSUME ChoiceInv, Decided PROVE BestIsChosen
    BY DEF BestIsChosen
  <2>1. CASE best = None
    <3>1. unvisited = {} /\ Len(scored) = 0
      BY <2>1 DEF Decided
    <3> QED BY <2>1, <3>1 DEF ChoiceInv, ScoredAreEligible, BestIsChosen
  <2>2. CASE best # None
    BY <2>2 DEF ChoiceInv, IsBest, BestIsChosen
  <2> QED BY <2>1, <2>2
<1> QED BY <1>1, ChoiceHolds, PTL

\* The score of a task's type tells two GPUs apart by at most 8 points.
LEMMA TypeSpread ==
    ASSUME NEW g \in GPUs, NEW h \in GPUs, NEW type
    PROVE  /\ TypeScore(g, type) \in Int /\ TypeScore(h, type) \in Int
           /\ TypeScore(g, type) <= TypeScore(h, type) + 8 * Scale
<1>1. Scale \in Nat \ {0}
  BY ScoringAssumption
<1>2. \A a \in {12, 15, 18, 20}, b \in {12, 15, 18, 20} :
         Scale * a \in Int /\ Scale * b \in Int /\ Scale * a <= Scale * b + 8 * Scale
  BY <1>1
<1>3. \A k \in GPUs : \E a \in {12, 15, 18, 20} : TypeScore(k, type) = Scale * a
  BY DEF TypeScore
<1> QED BY <1>2, <1>3

\* A preference never drives a task away from the type that it names.
THEOREM PreferenceFollowed == Spec => []PreferenceHelps
<1>1. ChoiceInv => PreferenceHelps
  <2> SUFFICES ASSUME ChoiceInv, best # None, NEW g \in GPUs,
                      NEW p \in {"nvidia", "amd"}, Type[best] = p, g \in Schedule(p), Type[g] # p
               PROVE  FALSE
    BY DEF PreferenceHelps, Schedule
  <2>1. /\ best \in GPUs /\ TypeInv /\ Eligible(best) /\ Eligible(g)
        /\ CalculateScore(best, p) <= CalculateScore(g, p)
        /\ calculateScore(g) <= calculateScore(best)
    BY DEF ChoiceInv, IsBest, Schedule
  <2> DEFINE P == PriorityScore(criteria.priority)
             Rest(h) == VRAMScore(h) + UtilScore(h) + P + LoadScore(h, criteria.policy)
  <2>5. Scale \in Nat \ {0}
    BY ScoringAssumption
  <2>2. /\ CalculateScore(best, p) = Rest(best) + 20 * Scale
        /\ CalculateScore(g, p) = Rest(g) + 10 * Scale
        /\ calculateScore(best) = Rest(best) + TypeScore(best, criteria.type)
        /\ calculateScore(g) = Rest(g) + TypeScore(g, criteria.type)
        /\ Rest(best) \in Int /\ Rest(g) \in Int
    <3>0. Scale * 20 = 20 * Scale /\ Scale * 10 = 10 * Scale
      BY <2>5
    <3>1. HybridTypeScore(best, p) = 20 * Scale /\ HybridTypeScore(g, p) = 10 * Scale
      BY <3>0 DEF HybridTypeScore
    <3>2. 20 * Scale \in Int /\ 10 * Scale \in Int
      BY <2>5
    <3> QED BY <2>1, <3>1, <3>2, PartTypes DEF CalculateScore, calculateScore
  <2>3. /\ TypeScore(best, criteria.type) <= TypeScore(g, criteria.type) + 8 * Scale
        /\ TypeScore(best, criteria.type) \in Int /\ TypeScore(g, criteria.type) \in Int
    BY <2>1, TypeSpread
  <2> HIDE DEF Rest
  <2>4. Scale \in Int /\ Scale > 0
    BY <2>5
  <2> QED BY <2>1, <2>2, <2>3, <2>4
<1> QED BY <1>1, ChoiceHolds, PTL

\* Under binpack no GPU that can take the task shows a higher total than the chosen one.
THEOREM BreakdownsExplain == Spec => []BreakdownExplains
<1>1. ChoiceInv => BreakdownExplains
  <2> SUFFICES ASSUME ChoiceInv, best # None, criteria.policy = "binpack",
                      NEW g \in GPUs, Eligible(g)
               PROVE  /\ GetScoreBreakdown(g) <= GetScoreBreakdown(best)
                      /\ PrintScoreBreakdown(g) <= PrintScoreBreakdown(best)
    BY DEF BreakdownExplains
  <2>1. best \in GPUs /\ TypeInv /\ calculateScore(g) <= calculateScore(best)
    BY DEF ChoiceInv, IsBest
  <2>2. \A h \in GPUs : LoadScore(h, criteria.policy)
                          = ((10 * Scale) \div gpuCount) * usage[h].running
    BY DEF LoadScore
  <2>3. PrintScoreBreakdown(g) <= PrintScoreBreakdown(best)
    BY <2>1 DEF PrintScoreBreakdown, calculateScore
  <2>4. GetScoreBreakdown(g) <= GetScoreBreakdown(best)
    BY <2>1, <2>2, PartTypes DEF GetScoreBreakdown, calculateScore
  <2> QED BY <2>3, <2>4
<1> QED BY <1>1, ChoiceHolds, PTL
------------------------------------------------------------------------------
(* The five parts pull in the directions that the documents give them.      *)

\* The product of natural numbers above zero is above zero, and a product is ordered as its
\* other factor is.
LEMMA ProductPositive ==
    ASSUME NEW a \in Int, NEW b \in Int, a > 0, b > 0 PROVE a * b \in Int /\ a * b > 0
OBVIOUS

LEMMA ProductOrder ==
    ASSUME NEW c \in Int, NEW a \in Int, NEW b \in Int, c >= 0, a <= b PROVE c * a <= c * b
<1>1. b - a \in Int /\ b - a >= 0
  OBVIOUS
<1>2. c * (b - a) >= 0
  BY <1>1
<1>3. c * (b - a) = c * b - c * a
  OBVIOUS
<1> QED BY <1>2, <1>3

LEMMA ProductCancel ==
    ASSUME NEW c \in Int, NEW a \in Int, NEW b \in Int, c > 0, c * a > c * b PROVE a > b
<1>1. a <= b => c * a <= c * b
  BY ProductOrder
<1>2. c * a \in Int /\ c * b \in Int
  OBVIOUS
<1> QED BY <1>1, <1>2

LEMMA ProductStrict ==
    ASSUME NEW c \in Int, NEW a \in Int, NEW b \in Int, c > 0, a > b PROVE c * a > c * b
<1>1. a - b \in Int /\ a - b > 0
  OBVIOUS
<1>2. c * (a - b) > 0
  BY <1>1, ProductPositive
<1>3. c * (a - b) = c * a - c * b
  OBVIOUS
<1> QED BY <1>2, <1>3

\* A number divided by one of its divisors.
LEMMA ExactQuotient ==
    ASSUME NEW a \in Nat, NEW b \in Nat \ {0}, a % b = 0
    PROVE  a \div b \in Nat /\ (a \div b) * b = a
OBVIOUS

\* The greater share of VRAM free scores higher, whatever the sizes.
LEMMA ShareOrder ==
    ASSUME NEW c \in Int, c > 0, NEW v \in Int, NEW w \in Int, v > 0, w > 0,
           NEW q \in Int, NEW r \in Int, q * v = c, r * w = c,
           NEW f \in Int, NEW e \in Int, f * w > e * v
    PROVE  q * f > r * e
<1>1. v * w \in Int /\ v * w > 0 /\ f * w \in Int /\ e * v \in Int /\ q * f \in Int /\ r * e \in Int
  BY ProductPositive
<1>2. c * (f * w) > c * (e * v)
  BY <1>1, ProductStrict
<1>3. (v * w) * (q * f) = (q * v) * (f * w)
  OBVIOUS
<1>4. (v * w) * (r * e) = (r * w) * (e * v)
  OBVIOUS
<1>5. (v * w) * (q * f) > (v * w) * (r * e)
  BY <1>2, <1>3, <1>4
<1> QED BY <1>1, <1>5, ProductCancel

\* A GPU that dominates another scores higher.
LEMMA DominatesScoresMore ==
    ASSUME TypeInv, NEW g \in GPUs, NEW h \in GPUs, Dominates(g, h)
    PROVE  calculateScore(g) > calculateScore(h)
<1>1. Scale \in Nat \ {0} /\ gpuCount \in Nat \ {0}
  BY ScoringAssumption
<1>2. 30 * Scale \in Nat /\ 30 * Scale > 0 /\ 10 * Scale \in Nat
  BY <1>1
<1>3. \A x \in GPUs : /\ VRAM[x] \in Nat \ {0} /\ Type[x] \in {"nvidia", "amd"}
                      /\ FreeVRAM(x) \in Int /\ usage[x].util \in Int /\ usage[x].running \in Int
  BY LoadType
<1>4. VRAMScore(g) > VRAMScore(h)
  <2> DEFINE C == 30 * Scale
             q == C \div VRAM[g]
             r == C \div VRAM[h]
  <2>1. \A x \in GPUs : C % VRAM[x] = 0
    BY ScoringAssumption
  <2>2. C \in Nat /\ C > 0 /\ C \in Int
    BY <1>2
  <2>3. FreeVRAM(g) * VRAM[h] > FreeVRAM(h) * VRAM[g]
    BY DEF Dominates
  <2>4. VRAM[g] \in Int /\ VRAM[g] > 0 /\ VRAM[h] \in Int /\ VRAM[h] > 0
    BY <1>3
  <2>5. VRAMScore(g) = q * FreeVRAM(g) /\ VRAMScore(h) = r * FreeVRAM(h)
    BY DEF VRAMScore
  <2> HIDE DEF C
  <2>6. q \in Int /\ r \in Int /\ q * VRAM[g] = C /\ r * VRAM[h] = C
    <3>1. VRAM[g] \in Nat \ {0} /\ C % VRAM[g] = 0 /\ VRAM[h] \in Nat \ {0} /\ C % VRAM[h] = 0
      BY <1>3, <2>1
    <3>2. q \in Nat /\ q * VRAM[g] = C
      BY <2>2, <3>1, ExactQuotient
    <3>3. r \in Nat /\ r * VRAM[h] = C
      BY <2>2, <3>1, ExactQuotient
    <3> QED BY <3>2, <3>3
  <2> HIDE DEF q, r
  <2>7. FreeVRAM(g) \in Int /\ FreeVRAM(h) \in Int
    BY <1>3
  <2>8. q * FreeVRAM(g) > r * FreeVRAM(h)
    BY <2>2, <2>3, <2>4, <2>6, <2>7, ShareOrder
  <2> QED BY <2>5, <2>8
<1>5. UtilScore(g) >= UtilScore(h)
  <2>1. Scale \div 4 \in Int /\ Scale \div 4 >= 0
    BY <1>1
  <2>2. usage[g].util < usage[h].util
    BY DEF Dominates
  <2>3. /\ 100 - usage[h].util \in Int /\ 100 - usage[g].util \in Int
        /\ 100 - usage[h].util <= 100 - usage[g].util
    BY <1>3, <2>2
  <2> QED BY <2>1, <2>3, ProductOrder DEF UtilScore
<1>6. TypeScore(g, criteria.type) >= TypeScore(h, criteria.type)
  <2>1. Suits(h) => Suits(g)
    BY DEF Dominates
  <2> QED BY <1>1, <1>3, <2>1 DEF TypeScore, Suits
<1>7. LoadScore(g, criteria.policy) >= LoadScore(h, criteria.policy)
  <2> DEFINE c == (10 * Scale) \div gpuCount
  <2>1. c \in Int /\ c >= 0
    BY <1>1, <1>2, QuotientType
  <2>2. LoadAtLeast(g, h)
    BY DEF Dominates
  <2> HIDE DEF c
  <2>3. CASE criteria.policy = "binpack"
    <3>1. usage[h].running <= usage[g].running
      BY <1>3, <2>2, <2>3 DEF LoadAtLeast
    <3>2. c * usage[h].running <= c * usage[g].running
      BY <1>3, <2>1, <3>1, ProductOrder
    <3>3. \A x \in GPUs : LoadScore(x, criteria.policy) = c * usage[x].running
      BY <2>3 DEF LoadScore, c
    <3>4. \A x \in GPUs : c * usage[x].running \in Int
      BY <1>3, <2>1
    <3> QED BY <3>2, <3>3, <3>4
  <2>4. CASE criteria.policy = "spread"
    <3>1. usage[g].running <= usage[h].running
      BY <1>3, <2>2, <2>4 DEF LoadAtLeast
    <3>2. \A x \in GPUs : gpuCount - usage[x].running \in Int
      BY <1>1, <1>3
    <3>3. gpuCount - usage[h].running <= gpuCount - usage[g].running
      BY <1>1, <1>3, <3>1
    <3>4. c * (gpuCount - usage[h].running) <= c * (gpuCount - usage[g].running)
      BY <2>1, <3>2, <3>3, ProductOrder
    <3>5. \A x \in GPUs : LoadScore(x, criteria.policy) = c * (gpuCount - usage[x].running)
      BY <2>4 DEF LoadScore, c
    <3>6. \A x \in GPUs : c * (gpuCount - usage[x].running) \in Int
      BY <2>1, <3>2
    <3> QED BY <3>4, <3>5, <3>6
  <2>5. CASE criteria.policy \notin {"binpack", "spread"}
    BY <1>1, <2>5 DEF LoadScore
  <2> QED BY <2>3, <2>4, <2>5
<1>8. PriorityScore(criteria.priority) \in Int
  BY PartTypes
<1>9. \A x \in GPUs : /\ VRAMScore(x) \in Int /\ UtilScore(x) \in Int
                      /\ TypeScore(x, criteria.type) \in Int
                      /\ LoadScore(x, criteria.policy) \in Int
  BY PartTypes
<1> QED BY <1>4, <1>5, <1>6, <1>7, <1>8, <1>9 DEF calculateScore

\* No GPU is chosen that another one which can take the task beats in every respect.
THEOREM NoDominatedChoice == Spec => []NoneDominated
<1>1. ChoiceInv => NoneDominated
  <2> SUFFICES ASSUME ChoiceInv, best # None, NEW g \in GPUs, Eligible(g), Dominates(g, best)
               PROVE  FALSE
    BY DEF NoneDominated
  <2>1. best \in GPUs /\ TypeInv /\ calculateScore(g) <= calculateScore(best)
    BY DEF ChoiceInv, IsBest
  <2>2. calculateScore(g) > calculateScore(best)
    BY <2>1, DominatesScoresMore
  <2>3. calculateScore(g) \in Int /\ calculateScore(best) \in Int
    BY <2>1, ScoreType
  <2> QED BY <2>1, <2>2, <2>3
<1> QED BY <1>1, ChoiceHolds, PTL
==============================================================================
