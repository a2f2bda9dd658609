------------------------------ MODULE Scheduler ------------------------------
(***************************************************************************)
(* The single-node scheduler: internal/scheduler/scheduler.go, preempt.go   *)
(* and gpu_update.go.                                                       *)
(*                                                                          *)
(* Every method but UpdateGPUUsage runs under Scheduler.mu.  The variable   *)
(* op is the method that holds the mutex and how far it has got; a method   *)
(* is cut into steps exactly where another goroutine can interfere with it: *)
(* where it calls the executor (which has a mutex of its own) and between   *)
(* its reads and writes of a GPU's usage, which the GPU monitor overwrites  *)
(* without taking the mutex.                                                *)
(*                                                                          *)
(* Which of the eligible GPUs scores best is left open (module Scoring says *)
(* it): scheduleLocked returns any of them.  Its pass over the GPUs is one  *)
(* step; a report that arrives between its looks at two GPUs is taken to    *)
(* have come before or after the pass.                                      *)
(***************************************************************************)
EXTENDS Integers, Sequences, FiniteSets, Functions

CONSTANTS
    MaxTasks,       \* bound: the taskCounter stops here
    GPUs,           \* numeric GPU ids
    InitialGPUs,    \* the GPUs that NewScheduler registers
    Registrations,  \* the GPUs that RegisterGPU adds or replaces
    Capacity,       \* Info.VRAMMB of each GPU
    Priorities,     \* Task.Priority of the requests
    VRAMs,          \* Task.VRAMMB of the requests; the API does not validate it
    GPUReqs,        \* Task.GPUReq of the requests ("number of GPUs required")
    DefaultVRAM,    \* the 4096 MB of a request that names no size
    MaxCompleted,   \* the 100 finished tasks that are kept
    PreemptConfigs, \* the configurations UpdatePreemptConfig may install
    Reports,        \* [used, healthy] samples the GPU monitor may deliver
    FinalStatuses   \* statuses the executor writes on its own

ASSUME SchedulerAssumption ==
    /\ MaxTasks \in Nat /\ DefaultVRAM \in Nat \ {0} /\ MaxCompleted \in Nat \ {0}
    /\ GPUs \subseteq Nat /\ InitialGPUs \subseteq GPUs /\ Registrations \subseteq GPUs
    /\ Capacity \in [GPUs -> Nat]
    /\ Priorities \subseteq Int /\ VRAMs \subseteq Int /\ GPUReqs \subseteq Int
    /\ PreemptConfigs \subseteq [enabled : BOOLEAN, minPriority : Int, maxPriority : Int,
                                 policy : {"kill", "wait", "checkpoint"}]
    /\ Reports \subseteq [used : Nat, healthy : BOOLEAN]
    /\ FinalStatuses \subseteq {"completed", "failed", "timeout", "killed"}

VARIABLES
    taskCounter,    \* last task id handed out
    tasks,          \* the Task structs: priority, vram and gpuReq
    status,         \* Task.Status, written here and by the executor
    pendingTasks,   \* slice of waiting tasks
    runningTasks,   \* keys of the runningTasks map
    completedTasks, \* slice of the last MaxCompleted finished tasks
    registered,     \* keys of the gpus map
    gpus,           \* Usage of each GPU: used, running, healthy
    preemptConfig,
    preemptHistory,
    op              \* the method holding Scheduler.mu

vars == <<taskCounter, tasks, status, pendingTasks, runningTasks, completedTasks,
          registered, gpus, preemptConfig, preemptHistory, op>>

TaskIds == 1..MaxTasks
NoGPU == -1
Statuses == {"new", "pending", "running", "completed", "failed", "timeout", "killed"}
Request == [priority : Int, vram : Int, gpuReq : Int]
Usage == [used : Int, running : Int, healthy : BOOLEAN]
PreemptRecord == [preemptor : TaskIds, preempted : TaskIds, gpu : Int]

\* What the holder of the mutex is doing: the task it works on, the GPU chosen for
\* it, the tasks it may still preempt, and the pending slice it is rebuilding.
Ops == [pc : {"idle", "schedule", "preempt", "check", "retry", "account", "execute",
              "release", "promote"},
        task : 0..MaxTasks, gpu : GPUs \cup {NoGPU}, victims : SUBSET TaskIds,
        scan : Seq(TaskIds), kept : Seq(TaskIds)]

DefaultPreemptConfig ==
    [enabled |-> TRUE, minPriority |-> 7, maxPriority |-> 5, policy |-> "kill"]

\* The mutex is free.
Idle == [pc |-> "idle", task |-> 0, gpu |-> NoGPU, victims |-> {},
         scan |-> <<>>, kept |-> <<>>]

------------------------------------------------------------------------------
(* What a task is charged at submission, and what its release gives back.  *)

Charge(t) == IF tasks[t].vram > 0 THEN tasks[t].vram ELSE DefaultVRAM
Refund(t) == IF tasks[t].vram = 0 THEN DefaultVRAM ELSE tasks[t].vram

FreeVRAM(g) == Capacity[g] - gpus[g].used

\* Mutant of Eligible: the free VRAM is not compared with the need.
EligibleUnchecked(need) == {g \in registered : gpus[g].healthy}

\* The GPUs scheduleLocked may choose from.
Eligible(need) == {g \in registered : FreeVRAM(g) >= need /\ gpus[g].healthy}

\* preempt.go's own test, which does not look at health.
hasEnoughResources(need) == \E g \in registered : FreeVRAM(g) >= need

AtLeastZero(n) == IF n < 0 THEN 0 ELSE n

\* The usage map with the two counters of g replaced.
Recount(g, used, running) ==
    [gpus EXCEPT ![g] = [used |-> used, running |-> running, healthy |-> gpus[g].healthy]]

\* The running tasks that t may preempt.
Preemptable(t) ==
    {v \in runningTasks : /\ tasks[v].priority <= preemptConfig.maxPriority
                          /\ tasks[t].priority - tasks[v].priority >= 2}

\* Mutant of MayPreempt: preemption cannot be switched off.
MayAlwaysPreempt(t) == /\ tasks[t].priority >= preemptConfig.minPriority
                       /\ Preemptable(t) # {}

\* t may preempt at all, and finds someone to preempt.
MayPreempt(t) == /\ preemptConfig.enabled
                 /\ tasks[t].priority >= preemptConfig.minPriority
                 /\ Preemptable(t) # {}

\* Mutant of LeastImportant: sorted the other way round.
MostImportant(V) == {v \in V : \A w \in V : tasks[v].priority >= tasks[w].priority}

\* The tasks sort.Slice may put first: the least important of those left.
LeastImportant(V) == {v \in V : \A w \in V : tasks[v].priority <= tasks[w].priority}

\* Mutant of Trim: the oldest entries are kept.
TrimLatest(s) == IF Len(s) > MaxCompleted THEN SubSeq(s, 1, MaxCompleted) ELSE s

\* The last MaxCompleted entries of a slice.
Trim(s) == IF Len(s) > MaxCompleted
           THEN SubSeq(s, Len(s) - MaxCompleted + 1, Len(s)) ELSE s

------------------------------------------------------------------------------
Init ==
    /\ taskCounter = 0
    /\ tasks = [t \in TaskIds |-> [priority |-> 0, vram |-> 0, gpuReq |-> 0]]
    /\ status = [t \in TaskIds |-> "new"]
    /\ pendingTasks = <<>>
    /\ runningTasks = {}
    /\ completedTasks = <<>>
    /\ registered = InitialGPUs
    /\ gpus = [g \in GPUs |-> [used |-> 0, running |-> 0, healthy |-> TRUE]]
    /\ preemptConfig = DefaultPreemptConfig
    /\ preemptHistory = <<>>
    /\ op = Idle

(* SubmitTask takes the mutex and gives the task its id.                   *)
SubmitTask(p, v, q) ==
    /\ op.pc = "idle"
    /\ taskCounter < MaxTasks
    /\ taskCounter' = taskCounter + 1
    /\ tasks' = [tasks EXCEPT ![taskCounter + 1] = [priority |-> p, vram |-> v, gpuReq |-> q]]
    /\ status' = [status EXCEPT ![taskCounter + 1] = "pending"]
    /\ op' = [Idle EXCEPT !.pc = "schedule", !.task = taskCounter + 1]
    /\ UNCHANGED <<pendingTasks, runningTasks, completedTasks, registered, gpus,
                   preemptConfig, preemptHistory>>

\* No GPU will take the task: it joins the pending slice and the mutex is released.
Enqueue ==
    /\ pendingTasks' = Append(pendingTasks, op.task)
    /\ op' = Idle
    /\ UNCHANGED <<taskCounter, tasks, status, runningTasks, completedTasks, registered,
                   gpus, preemptConfig, preemptHistory>>

OnlyOp == UNCHANGED <<taskCounter, tasks, status, pendingTasks, runningTasks, completedTasks,
                      registered, gpus, preemptConfig, preemptHistory>>

(* scheduleLocked finds a GPU, at the first attempt or after preemption.   *)
ScheduleSucceeds(g) ==
    /\ op.pc \in {"schedule", "retry"}
    /\ g \in Eligible(Charge(op.task))
    /\ op' = [op EXCEPT !.pc = "account", !.gpu = g, !.victims = {}]
    /\ OnlyOp

(* scheduleLocked finds none: preempt after the first attempt, if allowed. *)
ScheduleFails ==
    /\ op.pc \in {"schedule", "retry"}
    /\ Eligible(Charge(op.task)) = {}
    /\ IF op.pc = "schedule" /\ MayPreempt(op.task)
       THEN /\ op' = [op EXCEPT !.pc = "preempt", !.victims = Preemptable(op.task)]
            /\ OnlyOp
       ELSE Enqueue

\* Mutants of PreemptKill: the victim gets a status that is none; it is queued again
\* although its process is still there; the last task of a GPU is not given back.
PreemptMarks(v) ==
    /\ op.pc = "preempt"
    /\ preemptConfig.policy = "kill"
    /\ v \in LeastImportant(op.victims)
    /\ status' = [status EXCEPT ![v] = "preempted"]
    /\ runningTasks' = runningTasks \ {v}
    /\ op' = [op EXCEPT !.pc = "check", !.victims = @ \ {v}]
    /\ UNCHANGED <<taskCounter, tasks, pendingTasks, completedTasks, registered, gpus,
                   preemptConfig, preemptHistory>>

PreemptRequeues(v) ==
    /\ op.pc = "preempt"
    /\ preemptConfig.policy = "kill"
    /\ v \in LeastImportant(op.victims)
    /\ status' = [status EXCEPT ![v] = "killed"]
    /\ runningTasks' = runningTasks \ {v}
    /\ pendingTasks' = Append(pendingTasks, v)
    /\ op' = [op EXCEPT !.pc = "check", !.victims = @ \ {v}]
    /\ UNCHANGED <<taskCounter, tasks, completedTasks, registered, gpus, preemptConfig,
                   preemptHistory>>

PreemptKeepsBooking(v) ==
    /\ op.pc = "preempt"
    /\ preemptConfig.policy = "kill"
    /\ v \in LeastImportant(op.victims)
    /\ status' = [status EXCEPT ![v] = "killed"]
    /\ LET g == tasks[v].gpuReq IN
       gpus' = IF g \in registered /\ gpus[g].used > tasks[v].vram
               THEN Recount(g, gpus[g].used - tasks[v].vram, gpus[g].running - 1)
               ELSE gpus
    /\ runningTasks' = runningTasks \ {v}
    /\ preemptHistory' = Append(preemptHistory,
                            [preemptor |-> op.task, preempted |-> v, gpu |-> tasks[v].gpuReq])
    /\ op' = [op EXCEPT !.pc = "check", !.victims = @ \ {v}]
    /\ UNCHANGED <<taskCounter, tasks, pendingTasks, completedTasks, registered, preemptConfig>>

(* tryPreempt's loop.  Policy kill: stop the victim, give its VRAM back    *)
(* (neither defaulted nor clamped), forget it and record the preemption.   *)
PreemptKill(v) ==
    /\ op.pc = "preempt"
    /\ preemptConfig.policy = "kill"
    /\ v \in LeastImportant(op.victims)
    /\ status' = [status EXCEPT ![v] = "killed"]
    /\ LET g == tasks[v].gpuReq IN
       gpus' = IF g \in registered
               THEN Recount(g, gpus[g].used - tasks[v].vram, gpus[g].running - 1)
               ELSE gpus
    /\ runningTasks' = runningTasks \ {v}
    /\ preemptHistory' = Append(preemptHistory,
                            [preemptor |-> op.task, preempted |-> v, gpu |-> tasks[v].gpuReq])
    /\ op' = [op EXCEPT !.pc = "check", !.victims = @ \ {v}]
    /\ UNCHANGED <<taskCounter, tasks, pendingTasks, completedTasks, registered, preemptConfig>>

\* Policy wait only logs; any other policy falls through to the resource check.
PreemptOther(v) ==
    /\ op.pc = "preempt"
    /\ preemptConfig.policy # "kill"
    /\ v \in LeastImportant(op.victims)
    /\ op' = [op EXCEPT !.pc = IF preemptConfig.policy = "wait" THEN "preempt" ELSE "check",
                        !.victims = @ \ {v}]
    /\ OnlyOp

\* Mutants of PreemptCheck: the loop goes on while there are victims; it ends with the
\* first of them.
PreemptCheckLate ==
    /\ op.pc = "check"
    /\ op' = [op EXCEPT !.pc = IF op.victims = {} /\ hasEnoughResources(Charge(op.task))
                               THEN "retry" ELSE "preempt"]
    /\ OnlyOp

PreemptCheckOnce ==
    /\ op.pc = "check"
    /\ op' = [op EXCEPT !.pc = IF hasEnoughResources(Charge(op.task)) THEN "retry" ELSE "preempt",
                        !.victims = {}]
    /\ OnlyOp

PreemptCheck ==
    /\ op.pc = "check"
    /\ op' = [op EXCEPT !.pc = IF hasEnoughResources(Charge(op.task))
                               THEN "retry" ELSE "preempt"]
    /\ OnlyOp

PreemptFails ==
    /\ op.pc = "preempt"
    /\ op.victims = {}
    /\ Enqueue

(* SubmitTask books the task on the chosen GPU.  GPUReq becomes its id.    *)
AccountTask ==
    /\ op.pc = "account"
    /\ status' = [status EXCEPT ![op.task] = "running"]
    /\ tasks' = [tasks EXCEPT ![op.task] = [@ EXCEPT !.gpuReq = op.gpu]]
    /\ runningTasks' = runningTasks \cup {op.task}
    /\ gpus' = Recount(op.gpu, gpus[op.gpu].used + Charge(op.task), gpus[op.gpu].running + 1)
    /\ op' = [op EXCEPT !.pc = "execute"]
    /\ UNCHANGED <<taskCounter, pendingTasks, completedTasks, registered, preemptConfig,
                   preemptHistory>>

(* exec.SubmitTask, still under the mutex: the executor sets the status to *)
(* running, or refuses and the task stays among the running ones, failed.  *)
Execute(outcome) ==
    /\ op.pc = "execute"
    /\ status' = [status EXCEPT ![op.task] = outcome]
    /\ op' = Idle
    /\ UNCHANGED <<taskCounter, tasks, pendingTasks, runningTasks, completedTasks, registered,
                   gpus, preemptConfig, preemptHistory>>

------------------------------------------------------------------------------
(* ReleaseTask (the executor's callback) and CompleteTask (the API) differ *)
(* in their caller only.  Of a task that does not run they do nothing.     *)
ReleaseTask(t) ==
    /\ op.pc = "idle"
    /\ t \in runningTasks
    /\ op' = [Idle EXCEPT !.pc = "release", !.task = t]
    /\ OnlyOp

CompleteTask(t) == ReleaseTask(t)

\* Mutant of AccountRelease: the task is not deleted from runningTasks.
AccountReleaseKeeps ==
    LET g == tasks[op.task].gpuReq IN
    /\ op.pc = "release"
    /\ gpus' = IF g \in registered
               THEN Recount(g, AtLeastZero(gpus[g].used - Refund(op.task)),
                            AtLeastZero(gpus[g].running - 1))
               ELSE gpus
    /\ completedTasks' = Trim(Append(completedTasks, op.task))
    /\ op' = [op EXCEPT !.pc = "promote", !.scan = pendingTasks, !.kept = <<>>]
    /\ UNCHANGED <<taskCounter, tasks, status, pendingTasks, runningTasks, registered,
                   preemptConfig, preemptHistory>>

\* Give the GPU back, move the task to the finished ones, start on the pending ones.
AccountRelease ==
    LET g == tasks[op.task].gpuReq IN
    /\ op.pc = "release"
    /\ gpus' = IF g \in registered
               THEN Recount(g, AtLeastZero(gpus[g].used - Refund(op.task)),
                            AtLeastZero(gpus[g].running - 1))
               ELSE gpus
    /\ runningTasks' = runningTasks \ {op.task}
    /\ completedTasks' = Trim(Append(completedTasks, op.task))
    /\ op' = [op EXCEPT !.pc = "promote", !.scan = pendingTasks, !.kept = <<>>]
    /\ UNCHANGED <<taskCounter, tasks, status, pendingTasks, registered, preemptConfig,
                   preemptHistory>>

\* Mutant of PromoteOne: the scan ends with the first task that is promoted.
PromoteFirst ==
    /\ op.pc = "promote"
    /\ op.scan # <<>>
    /\ LET t == Head(op.scan) IN
       IF Eligible(DefaultVRAM) # {}
       THEN /\ status' = [status EXCEPT ![t] = "running"]
            /\ runningTasks' = runningTasks \cup {t}
            /\ op' = [op EXCEPT !.scan = <<>>, !.kept = op.kept \o Tail(op.scan)]
       ELSE /\ op' = [op EXCEPT !.scan = Tail(@), !.kept = Append(@, t)]
            /\ UNCHANGED <<status, runningTasks>>
    /\ UNCHANGED <<taskCounter, tasks, pendingTasks, completedTasks, registered, gpus,
                   preemptConfig, preemptHistory>>

(* trySchedulePendingLocked: one task of the slice at a time, each asking  *)
(* for DefaultVRAM whatever it requested, none of them booked on a GPU.    *)
PromoteOne ==
    /\ op.pc = "promote"
    /\ op.scan # <<>>
    /\ LET t == Head(op.scan) IN
       IF Eligible(DefaultVRAM) # {}
       THEN /\ status' = [status EXCEPT ![t] = "running"]
            /\ runningTasks' = runningTasks \cup {t}
            /\ op' = [op EXCEPT !.scan = Tail(@)]
       ELSE /\ op' = [op EXCEPT !.scan = Tail(@), !.kept = Append(@, t)]
            /\ UNCHANGED <<status, runningTasks>>
    /\ UNCHANGED <<taskCounter, tasks, pendingTasks, completedTasks, registered, gpus,
                   preemptConfig, preemptHistory>>

PromoteEnd ==
    /\ op.pc = "promote"
    /\ op.scan = <<>>
    /\ pendingTasks' = op.kept
    /\ op' = Idle
    /\ UNCHANGED <<taskCounter, tasks, status, runningTasks, completedTasks, registered,
                   gpus, preemptConfig, preemptHistory>>

\* Mutant of CancelTask: the last task of the slice takes the place of t.
CancelTaskSwaps(t) ==
    /\ op.pc = "idle"
    /\ \E i \in DOMAIN pendingTasks :
          /\ pendingTasks[i] = t
          /\ pendingTasks' = SubSeq([pendingTasks EXCEPT ![i] = pendingTasks[Len(pendingTasks)]],
                                    1, Len(pendingTasks) - 1)
    /\ UNCHANGED <<taskCounter, tasks, status, runningTasks, completedTasks, registered,
                   gpus, preemptConfig, preemptHistory, op>>

(* CancelTask removes a pending task from the slice; its status stays.     *)
CancelTask(t) ==
    /\ op.pc = "idle"
    /\ \E i \in DOMAIN pendingTasks :
          /\ pendingTasks[i] = t
          /\ pendingTasks' = SubSeq(pendingTasks, 1, i - 1)
                             \o SubSeq(pendingTasks, i + 1, Len(pendingTasks))
    /\ UNCHANGED <<taskCounter, tasks, status, runningTasks, completedTasks, registered,
                   gpus, preemptConfig, preemptHistory, op>>

UpdatePreemptConfig(c) ==
    /\ op.pc = "idle"
    /\ preemptConfig' = c
    /\ UNCHANGED <<taskCounter, tasks, status, pendingTasks, runningTasks, completedTasks,
                   registered, gpus, preemptHistory, op>>

(* RegisterGPU adds a GPU, or replaces one by an unused snapshot.          *)
RegisterGPU(g) ==
    /\ op.pc = "idle"
    /\ registered' = registered \cup {g}
    /\ gpus' = [gpus EXCEPT ![g] = [used |-> 0, running |-> 0, healthy |-> TRUE]]
    /\ UNCHANGED <<taskCounter, tasks, status, pendingTasks, runningTasks, completedTasks,
                   preemptConfig, preemptHistory, op>>

------------------------------------------------------------------------------
\* The method holding the mutex is about to update g's counters.
WritesUsage(g) ==
    \/ op.pc = "account" /\ op.gpu = g
    \/ op.pc = "release" /\ tasks[op.task].gpuReq = g
    \/ op.pc = "preempt" /\ \E v \in LeastImportant(op.victims) : tasks[v].gpuReq = g

\* Mutant of UpdateGPUUsage: the report is added to what is booked.
UpdateGPUUsageAdds(g, r) ==
    /\ g \in registered
    /\ gpus' = [gpus EXCEPT ![g] = [used |-> gpus[g].used + r.used, running |-> 0,
                                    healthy |-> r.healthy]]
    /\ UNCHANGED <<taskCounter, tasks, status, pendingTasks, runningTasks, completedTasks,
                   registered, preemptConfig, preemptHistory, op>>

(* UpdateGPUUsage takes no mutex and replaces the whole usage: the monitor *)
(* knows nothing of RunningTasks, so that becomes 0.  When it races a read-*)
(* modify-write of the scheduler, either counter may keep the value that   *)
(* the scheduler read.                                                     *)
UpdateGPUUsage(g, r) ==
    /\ g \in registered
    /\ \E u \in {r.used} \cup (IF WritesUsage(g) THEN {gpus[g].used} ELSE {}),
          n \in {0} \cup (IF WritesUsage(g) THEN {gpus[g].running} ELSE {}) :
          gpus' = [gpus EXCEPT ![g] = [used |-> u, running |-> n, healthy |-> r.healthy]]
    /\ UNCHANGED <<taskCounter, tasks, status, pendingTasks, runningTasks, completedTasks,
                   registered, preemptConfig, preemptHistory, op>>

(* The executor's monitor and StopTask write Task.Status without holding   *)
(* the scheduler's mutex.                                                  *)
ExecutorWritesStatus(t, s) ==
    /\ t <= taskCounter
    /\ status[t] \notin {"new", "pending"}
    /\ status' = [status EXCEPT ![t] = s]
    /\ UNCHANGED <<taskCounter, tasks, pendingTasks, runningTasks, completedTasks, registered,
                   gpus, preemptConfig, preemptHistory, op>>

------------------------------------------------------------------------------
\* What the goroutine that holds the mutex does next.
Step ==
    \/ \E g \in GPUs : ScheduleSucceeds(g)
    \/ ScheduleFails
    \/ \E v \in TaskIds : PreemptKill(v) \/ PreemptOther(v)
    \/ PreemptCheck
    \/ PreemptFails
    \/ AccountTask
    \/ \E s \in {"running", "failed"} : Execute(s)
    \/ AccountRelease
    \/ PromoteOne
    \/ PromoteEnd

Next ==
    \/ \E p \in Priorities, v \in VRAMs, q \in GPUReqs : SubmitTask(p, v, q)
    \/ Step
    \/ \E t \in TaskIds : ReleaseTask(t) \/ CompleteTask(t) \/ CancelTask(t)
    \/ \E c \in PreemptConfigs : UpdatePreemptConfig(c)
    \/ \E g \in Registrations : RegisterGPU(g)
    \/ \E g \in GPUs, r \in Reports : UpdateGPUUsage(g, r)
    \/ \E t \in TaskIds, s \in FinalStatuses : ExecutorWritesStatus(t, s)

Spec == Init /\ [][Next]_vars

------------------------------------------------------------------------------
(* What the scheduler promises.                                            *)

\* The waiting tasks in order; while the slice is being scanned, those that
\* were passed over and those still to come.
Waiting == IF op.pc = "promote" THEN op.kept \o op.scan ELSE pendingTasks

Preempted == {preemptHistory[i].preempted : i \in DOMAIN preemptHistory}

\* The task that SubmitTask is working on and has put nowhere yet.
InFlight == op.pc \in {"schedule", "preempt", "check", "retry", "account"}

Increasing(s) == \A i, j \in DOMAIN s : i < j => s[i] < s[j]

\* Every variable has its type, also in the middle of a method.
TypeOK ==
    /\ taskCounter \in 0..MaxTasks
    /\ tasks \in [TaskIds -> Request]
    /\ status \in [TaskIds -> Statuses]
    /\ pendingTasks \in Seq(TaskIds)
    /\ runningTasks \in SUBSET TaskIds
    /\ completedTasks \in Seq(TaskIds)
    /\ registered \in SUBSET GPUs
    /\ gpus \in [GPUs -> Usage]
    /\ preemptConfig \in PreemptConfigs \cup {DefaultPreemptConfig}
    /\ preemptHistory \in Seq(PreemptRecord)
    /\ op \in Ops

\* Tasks wait in the order in which they were submitted: neither a cancellation
\* nor a promotion that passes some of them over reorders the pending slice.
PendingFIFO == Increasing(Waiting)

\* A task the scheduler has accepted is in at most one of its books: waiting,
\* running, finished or preempted; one still being submitted is in none of them.
OneBook ==
    LET waiting == Range(Waiting)
        finished == Range(completedTasks)
    IN  /\ waiting \cap (runningTasks \cup finished \cup Preempted) = {}
        /\ runningTasks \cap (finished \cup Preempted) = {}
        /\ finished \cap Preempted = {}
        /\ \A i, j \in DOMAIN completedTasks : completedTasks[i] = completedTasks[j] => i = j
        /\ InFlight => op.task \notin waiting \cup runningTasks \cup finished \cup Preempted

\* Without a GPU monitor the VRAM booked on a GPU never exceeds what it has:
\* the check of scheduleLocked still holds when SubmitTask books the task.
BookedWithinCapacity == \A g \in GPUs : gpus[g].used <= Capacity[g]

\* Without a monitor the usage of a GPU is what its running tasks were charged, whatever
\* was released, completed, preempted or refused in between: each charge is given back
\* once and none before.  It is so for a GPU whose id no request gives as its number of
\* GPUs, since a promoted task is released on the GPU of that id, and until a task of the
\* default size is preempted there, for which nothing is given back.
LedgerBalances ==
    \A g \in GPUs \ GPUReqs :
        LET Booked == {t \in runningTasks : tasks[t].gpuReq = g}
        IN  (\A v \in Preempted : tasks[v].gpuReq = g => tasks[v].vram > 0)
              => /\ gpus[g].used = SumFunction([t \in Booked |-> Charge(t)])
                 /\ gpus[g].running = Cardinality(Booked)

\* With the monitor racing SubmitTask, the VRAM booked on a GPU may exceed what
\* it has, but never by more than one request: the one that was being submitted.
OvershootBounded ==
    \A g \in GPUs : \E v \in VRAMs \cup {DefaultVRAM} : gpus[g].used <= Capacity[g] + v

\* Preemption kills the least important task first, and only one that the
\* configuration in force lets the new task preempt.
PreemptionRules ==
    [][preemptHistory' # preemptHistory =>
         LET r == preemptHistory'[Len(preemptHistory')] IN
         /\ preemptConfig.enabled
         /\ tasks[r.preemptor].priority >= preemptConfig.minPriority
         /\ tasks[r.preempted].priority <= preemptConfig.maxPriority
         /\ tasks[r.preemptor].priority >= tasks[r.preempted].priority + 2
         /\ \A w \in runningTasks' : tasks[r.preempted].priority <= tasks[w].priority]_vars

\* Without a monitor a task is killed only while no GPU can take the new one
\* (README.md:145): the loop stops as soon as enough was freed.
PreemptOnlyWhenFull ==
    [][preemptHistory' # preemptHistory =>
         Eligible(Charge(preemptHistory'[Len(preemptHistory')].preemptor)) = {}]_vars

\* A task that preempted others and waits all the same has lost its case only when no
\* running task is left that it may kill: some may have been killed in vain, but none
\* was spared whose end could have made room for it.
GivesUpLast ==
    [][op.pc = "preempt" /\ op'.pc = "idle" /\ preemptConfig.policy = "kill"
         => Preemptable(op.task) = {}]_vars

\* Without a monitor a release leaves a task waiting only if no GPU has room for even
\* the default size: no later release is needed for what this one could promote.
QueueDrains ==
    [][op.pc = "promote" /\ op'.pc = "idle" /\ pendingTasks' # <<>>
         => Eligible(DefaultVRAM) = {}]_vars

\* The books follow the life of a task that module TaskLifecycle promises.
Lifecycle == INSTANCE TaskLifecycle WITH
                 last <- IF InFlight THEN taskCounter - 1 ELSE taskCounter,
                 queue <- Waiting,
                 running <- runningTasks,
                 finished <- completedTasks,
                 preempted <- Preempted
ImplementsLifecycle == Lifecycle!Spec
==============================================================================
