------------------------------ MODULE GPUMonitor ------------------------------
(***************************************************************************)
(* internal/gpumonitor/monitor.go: what a poll of the GPU tools delivers.   *)
(*                                                                          *)
(* A poll runs nvidia-smi and rocm-smi; a tool that is missing is skipped.  *)
(* Every GPU a tool prints is one update, and main.go's callback hands each *)
(* update to Scheduler.UpdateGPUUsage.  Updates of one poll arrive one by   *)
(* one, with anything in between.                                           *)
(*                                                                          *)
(* A field of the output is the set of the numbers that can be read from it:*)
(* one, or none where the tool prints no number or does not print the field.*)
(***************************************************************************)
EXTENDS Integers

CONSTANTS
    NvidiaLines,  \* the lines of nvidia-smi: index, util and used
    AMDCards,     \* the cards of rocm-smi --json: card, util and used
    AMDLines      \* the lines of plain rocm-smi that speak of a GPU: util

ASSUME GPUMonitorAssumption ==
    /\ NvidiaLines \subseteq [index : SUBSET Nat, util : SUBSET Nat, used : SUBSET Nat]
    /\ AMDCards \subseteq [card : Nat, util : SUBSET Nat, used : SUBSET Nat]
    /\ AMDLines \subseteq [util : SUBSET Nat]

\* strconv.Atoi with its error dropped, and the zero value of a struct's field.
NumberOrZero(f) == IF f = {} THEN 0 ELSE CHOOSE n \in f : TRUE

Update(g, util, used) == [gpu |-> g, util |-> util, used |-> used]

\* nvidia-smi was asked for memory.used.
pollNVIDIA ==
    {Update(NumberOrZero(l.index), NumberOrZero(l.util), NumberOrZero(l.used)) : l \in NvidiaLines}

\* rocm-smi --showuse was not: used is as a rule absent.  A card's number, with
\* "card" trimmed off, is taken for the id of a GPU of the scheduler.
parseAMDJSON ==
    {Update(c.card, NumberOrZero(c.util), NumberOrZero(c.used)) : c \in AMDCards}

\* The fallback skips lines without a number and assigns all others to GPU 1.
parseAMDText ==
    {Update(1, NumberOrZero(l.util), 0) : l \in {m \in AMDLines : m.util # {}}}

\* A poll reads the one or, where that fails, the other: over time both may be met.
pollAMD == parseAMDJSON \cup parseAMDText

pollAll == pollNVIDIA \cup pollAMD

\* GPUSnapshot.IsHealthy looks at the utilization only.
IsHealthy(util) == util \in 0..100

\* What the callback leaves of an update for the scheduler.
UsageOf(u) == [used |-> u.used, healthy |-> IsHealthy(u.util)]

\* The samples that the scheduler may receive.
Samples == {UsageOf(u) : u \in pollAll}
==============================================================================
