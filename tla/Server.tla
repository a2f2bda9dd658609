-------------------------------- MODULE Server --------------------------------
(***************************************************************************)
(* cmd/server/main.go: scheduler, executor and GPU monitor in one process.  *)
(*                                                                          *)
(* They share the Task structs (here status) and call each other: SubmitTask*)
(* and tryPreempt call the executor with Scheduler.mu held, and a monitor's *)
(* onTaskDone callback calls ReleaseTask with Executor.mu held.  A step of  *)
(* one component is joined with the step of the other that it calls, and is *)
(* possible only when the callee's mutex is free.                           *)
(***************************************************************************)
EXTENDS Integers, Sequences, FiniteSets, Functions, GPUMonitor

CONSTANTS
    MaxTasks, GPUs, Capacity, Priorities, VRAMs, GPUReqs, DefaultVRAM, MaxCompleted,
    PIDs, Timed, Forking, Exits, KillsTree,
    Completable,  \* tasks that a client completes: POST /api/tasks/:id/complete
    MayRefuse     \* the executor may fail to start a process

VARIABLES
    status,
    taskCounter, tasks, pendingTasks, runningTasks, completedTasks, registered, gpus,
    preemptConfig, preemptHistory, op,
    started, proc, pid, exit, expired, mon, emu, down

\* The server registers its GPUs at the start and leaves the preemption
\* configuration alone (cmd/server/preempt_api.go is a placeholder).
S == INSTANCE Scheduler WITH
        InitialGPUs <- GPUs, Registrations <- {}, PreemptConfigs <- {}, Reports <- Samples,
        FinalStatuses <- {"completed", "failed", "timeout", "killed"}
E == INSTANCE Executor WITH Tasks <- 1..MaxTasks

\* The constants that the components share satisfy what each assumes of them.
ASSUME ServerAssumption ==
    /\ S!SchedulerAssumption /\ E!ExecutorAssumption
    /\ Completable \subseteq Nat /\ MayRefuse \in BOOLEAN

\* The scheduler's own variables, and the executor's.
svars == <<taskCounter, tasks, pendingTasks, runningTasks, completedTasks, registered, gpus,
           preemptConfig, preemptHistory, op>>
evars == <<started, proc, pid, exit, expired, mon, emu, down>>
vars == <<status, svars, evars>>

TaskIds == 1..MaxTasks

Init == S!Init /\ E!Init

------------------------------------------------------------------------------
(* The request handlers and the monitor's updates: one component alone.    *)

Submit == /\ \E p \in Priorities, v \in VRAMs, q \in GPUReqs : S!SubmitTask(p, v, q)
          /\ UNCHANGED evars

Cancel(t) == S!CancelTask(t) /\ UNCHANGED evars

Complete(t) == t \in Completable /\ S!CompleteTask(t) /\ UNCHANGED evars

\* The handler of /stop looks the task up first; a task that was started has
\* been listed at some time before, so the lookup stops nobody from stopping it.
Stop(t) == E!StopTask(t) /\ UNCHANGED svars

\* One update of a poll; of a GPU that the scheduler does not know it is dropped.
Report == /\ \E u \in pollAll : u.gpu \in GPUs /\ S!UpdateGPUUsage(u.gpu, UsageOf(u))
          /\ UNCHANGED evars

OperatingSystem(t) == E!OperatingSystem(t) /\ UNCHANGED svars

\* The goroutine with Scheduler.mu, where it does not call the executor.
SchedulerRuns ==
    /\ \/ \E g \in GPUs : S!ScheduleSucceeds(g)
       \/ S!ScheduleFails
       \/ S!PreemptCheck
       \/ S!PreemptFails
       \/ S!AccountTask
       \/ S!AccountRelease
       \/ S!PromoteOne
       \/ S!PromoteEnd
    /\ UNCHANGED evars

------------------------------------------------------------------------------
(* Calls of the executor with Scheduler.mu held: they wait for Executor.mu. *)

StartTask(p) == S!Execute("running") /\ E!SubmitTask(op.task, p)

\* Mutant of RefuseTask: it gives up when Executor.mu is not free.
RefuseTaskAtOnce == S!Execute("failed") /\ UNCHANGED evars

RefuseTask == MayRefuse /\ S!Execute("failed") /\ E!RefuseTask(op.task)

\* Mutant of KillVictim: the executor is not called.
KillVictimInBooks(v) == S!PreemptKill(v) /\ UNCHANGED evars

KillVictim(v) ==
    /\ S!PreemptKill(v)
    /\ IF v \in started THEN E!StopTask(v) ELSE emu = 0 /\ UNCHANGED evars

CallsExecutor == \/ \E p \in PIDs : StartTask(p)
                 \/ RefuseTask
                 \/ \E v \in TaskIds : KillVictim(v)

(* The callback with Executor.mu held: it waits for Scheduler.mu.          *)

MonitorRuns(t) ==
    /\ \/ E!MonitorSeesExit(t) \/ E!MonitorSeesDeadline(t) \/ E!MonitorReaps(t)
       \/ E!MonitorLocks(t)
    /\ UNCHANGED svars

\* Mutant of CallRelease: only a task that was not killed is released.
CallReleaseUnlessKilled(t) ==
    /\ E!MonitorNotifies(t)
    /\ IF t \in runningTasks /\ exit[t] # "killed" THEN S!ReleaseTask(t)
       ELSE op.pc = "idle" /\ UNCHANGED svars

CallRelease(t) ==
    /\ E!MonitorNotifies(t)
    /\ IF t \in runningTasks THEN S!ReleaseTask(t) ELSE op.pc = "idle" /\ UNCHANGED svars

ReturnRelease(t) ==
    /\ E!MonitorReturns(t)
    /\ ~(op.pc \in {"release", "promote"} /\ op.task = t)
    /\ UNCHANGED svars

Monitor(t) == MonitorRuns(t) \/ CallRelease(t) \/ ReturnRelease(t)

Next == \/ Submit \/ Report \/ SchedulerRuns \/ CallsExecutor
        \/ \E t \in TaskIds : \/ Cancel(t) \/ Complete(t) \/ Stop(t)
                              \/ OperatingSystem(t) \/ Monitor(t)

Spec == Init /\ [][Next]_vars

\* Runnable goroutines run, and a goroutine that waits for a mutex gets it when it is
\* free again and again (Go's mutexes are starvation free).  Processes need not end,
\* deadlines need not pass and clients need not call.
Fairness ==
    /\ SF_vars(SchedulerRuns \/ CallsExecutor)
    /\ \A t \in TaskIds : SF_vars(Monitor(t))
FairSpec == Spec /\ Fairness

------------------------------------------------------------------------------
(* What the composition promises.                                          *)

\* The composition is a scheduler: nothing the executor or the handlers do falls
\* outside the environment that module Scheduler assumes.
ImplementsScheduler == S!Spec

\* It is an executor: the scheduler writes the status of a task that has a
\* process only by calling the executor.
ImplementsExecutor == E!Spec

\* A task whose process was started is not waiting for a GPU.
StartedNotWaiting == started \cap Range(S!Waiting) = {}

\* A started task's booking is given up for one of three reasons only.  Its monitor
\* releases it: cmd.Wait has returned, no process of the task is left that it waits for,
\* though a descendant that does not hold the output may still use the GPU.  It is
\* preempted: its main process is no longer alive after that step, though descendants
\* may be.  Or a client completed it, whatever its process does.
ReleasedAfterEnd ==
    [][\A t \in started \cap runningTasks : t \notin runningTasks' =>
          \/ emu = t /\ E!WaitReturns(t)
          \/ op.pc = "preempt" /\ proc'[t] # "alive"
          \/ t \in Completable]_vars

\* Each goroutine holds one mutex and waits for the other's: a handler with
\* Scheduler.mu calls the executor, a monitor with Executor.mu the scheduler.
LockCycle == /\ op.pc = "execute" \/ (op.pc = "preempt" /\ op.victims # {})
             /\ emu # 0 /\ mon[emu] = "notifying"

\* The only thing that keeps a method from giving Scheduler.mu back is that cycle.
ReturnsUnlessCycle == (op.pc # "idle") ~> (op.pc = "idle" \/ LockCycle)

\* A task on which cmd.Wait returns gives its GPU back, whether it ended by itself, was
\* stopped, preempted, timed out or completed by a client meanwhile.
ExitFreesGPU ==
    \A t \in TaskIds : E!WaitReturns(t) ~> (t \notin runningTasks \/ LockCycle)

\* The cycle is never left: from then on nothing is submitted, finished or listed.
CycleIsFinal == [][LockCycle => LockCycle']_vars

------------------------------------------------------------------------------
(* What the documents say of it and the code does not do.                  *)

\* PRD.md:162: scheduling takes less than 100 ms, so SubmitTask returns.
SubmitReturns == (op.pc # "idle") ~> (op.pc = "idle")

\* USAGE.md:802: a running task runs, that is, its process was started.
RunningIsStarted ==
    op.pc = "idle" => \A t \in runningTasks : status[t] = "running" => t \in started

\* PRD.md:78: tasks do not fail for want of VRAM, that is, the tasks whose
\* processes live on a GPU fit on it.
FitOnGPU ==
    \A g \in GPUs :
        LET Live == {t \in TaskIds : proc[t] \notin {"none", "exited"} /\ tasks[t].gpuReq = g}
        IN  SumFunction([t \in Live |-> S!Charge(t)]) <= Capacity[g]
==============================================================================
