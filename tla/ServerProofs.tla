---------------------------- MODULE ServerProofs ----------------------------
(***************************************************************************)
(* What the composition promises, proved for any tasks, GPUs, requests,     *)
(* processes and outputs of the GPU tools: it is a scheduler and it is an   *)
(* executor, and what is proved of these two holds of it.                   *)
(***************************************************************************)
EXTENDS Server, DataLemmas

\* The proofs about the two components, read for the server's.
SP == INSTANCE SchedulerProofs WITH
        InitialGPUs <- GPUs, Registrations <- {}, PreemptConfigs <- {}, Reports <- Samples,
        FinalStatuses <- {"completed", "failed", "timeout", "killed"}
EP == INSTANCE ExecutorProofs WITH Tasks <- 1..MaxTasks

\* Their assumptions are the server's.
LEMMA Assumptions == SP!SchedulerAssumption /\ EP!ExecutorAssumption
BY ServerAssumption DEF S!SchedulerAssumption, SP!SchedulerAssumption, E!ExecutorAssumption,
                        EP!ExecutorAssumption

\* A step of the scheduler is one in the words of its proofs.
LEMMA SchedulerSteps ==
    ASSUME [S!Next]_S!vars PROVE [SP!Next]_SP!vars
<1>1. CASE S!Next
  BY <1>1 DEF S!Next, S!Step, S!SubmitTask, S!ScheduleSucceeds, S!ScheduleFails, S!Enqueue,
       S!OnlyOp, S!PreemptKill, S!PreemptOther, S!PreemptCheck, S!PreemptFails, S!AccountTask,
       S!Execute, S!ReleaseTask, S!CompleteTask, S!AccountRelease, S!PromoteOne, S!PromoteEnd,
       S!CancelTask, S!UpdatePreemptConfig, S!RegisterGPU, S!UpdateGPUUsage,
       S!ExecutorWritesStatus, S!Idle, S!NoGPU, S!Eligible, S!FreeVRAM, S!Charge, S!Refund,
       S!MayPreempt, S!Preemptable, S!LeastImportant, S!Recount, S!hasEnoughResources,
       S!AtLeastZero, S!Trim, S!WritesUsage, S!TaskIds,
       SP!Next, SP!Step, SP!SubmitTask, SP!ScheduleSucceeds, SP!ScheduleFails, SP!Enqueue,
       SP!OnlyOp, SP!PreemptKill, SP!PreemptOther, SP!PreemptCheck, SP!PreemptFails,
       SP!AccountTask, SP!Execute, SP!ReleaseTask, SP!CompleteTask, SP!AccountRelease,
       SP!PromoteOne, SP!PromoteEnd, SP!CancelTask, SP!UpdatePreemptConfig, SP!RegisterGPU,
       SP!UpdateGPUUsage, SP!ExecutorWritesStatus, SP!Idle, SP!NoGPU, SP!Eligible,
       SP!FreeVRAM, SP!Charge, SP!Refund, SP!MayPreempt, SP!Preemptable, SP!LeastImportant,
       SP!Recount, SP!hasEnoughResources, SP!AtLeastZero, SP!Trim, SP!WritesUsage, SP!TaskIds
<1>2. CASE UNCHANGED S!vars
  BY <1>2 DEF S!vars, SP!vars
<1> QED BY <1>1, <1>2

\* A step of the executor is one in the words of its proofs.
LEMMA ExecutorSteps ==
    ASSUME [E!Next]_E!vars PROVE [EP!Next]_EP!vars
<1>1. CASE E!Next
  BY <1>1 DEF E!Next, E!SubmitTask, E!RefuseTask, E!StopTask, E!Monitor, E!OperatingSystem,
       E!SchedulerWritesStatus, E!Shutdown, E!Kill, E!Hit, E!FreePIDs, E!ProcessExits,
       E!Leftovers, E!WaitReturns, E!OutputEnds, E!DescendantsExit, E!DeadlinePasses, E!MonitorSeesExit, E!MonitorSeesDeadline,
       E!MonitorReaps, E!MonitorLocks, E!MonitorNotifies, E!MonitorReturns, E!evars,
       EP!Next, EP!SubmitTask, EP!RefuseTask, EP!StopTask, EP!Monitor, EP!OperatingSystem,
       EP!SchedulerWritesStatus, EP!Shutdown, EP!Kill, EP!Hit, EP!FreePIDs, EP!ProcessExits,
       EP!Leftovers, EP!WaitReturns, EP!OutputEnds, EP!DescendantsExit, EP!DeadlinePasses, EP!MonitorSeesExit, EP!MonitorSeesDeadline,
       EP!MonitorReaps, EP!MonitorLocks, EP!MonitorNotifies, EP!MonitorReturns, EP!evars
<1>2. CASE UNCHANGED E!vars
  BY <1>2 DEF E!vars, EP!vars, E!evars, EP!evars
<1> QED BY <1>1, <1>2

\* What is inductive in the components is inductive in the server.
LEMMA SchedulerInv ==
    ASSUME SP!LinkInv, [S!Next]_S!vars PROVE SP!LinkInv'
BY SchedulerSteps, Assumptions, SP!LinkStep

LEMMA ExecutorInv ==
    ASSUME EP!IInv, [E!Next]_E!vars PROVE EP!IInv'
BY ExecutorSteps, Assumptions, EP!StepInv

------------------------------------------------------------------------------
(* Where a task is when its process starts.                                *)

\* The method that holds the mutex is submitting a task.
Submitting == op.pc \in {"schedule", "preempt", "check", "retry", "account", "execute"}

\* A started task was submitted, does not wait, and has a status from which only the
\* executor takes it; a task that waits was submitted; the task that is being submitted is
\* the last one, and neither waits nor was started.
StartInv ==
    /\ \A t \in started : t <= taskCounter /\ status[t] \notin {"new", "pending"}
    /\ \A t \in Range(S!Waiting) : t <= taskCounter /\ t \notin started
    /\ Submitting => op.task = taskCounter /\ op.task \notin started \cup Range(S!Waiting)

ServerInv == SP!LinkInv /\ EP!IInv /\ StartInv

\* What a method remembers.
OpType == [pc : {"idle", "schedule", "preempt", "check", "retry", "account", "execute",
                 "release", "promote"},
           task : 0..MaxTasks, gpu : GPUs \cup {S!NoGPU}, victims : SUBSET TaskIds,
           scan : Seq(TaskIds), kept : Seq(TaskIds)]

\* What the invariants of the two components say of the types that matter here.
LEMMA Types ==
    ASSUME ServerInv
    PROVE  /\ op \in OpType /\ (op.pc # "idle" => op.task \in TaskIds)
           /\ taskCounter \in 0..MaxTasks /\ pendingTasks \in Seq(TaskIds)
           /\ runningTasks \subseteq TaskIds
           /\ started \subseteq TaskIds /\ mon \in [TaskIds -> E!MonitorPCs]
           /\ preemptConfig = S!DefaultPreemptConfig
           /\ DOMAIN status = TaskIds
           /\ \A t \in TaskIds : (t \in started) = (mon[t] # "none")
           /\ \A t \in TaskIds : (emu = t) = (mon[t] \in {"notifying", "releasing"})
           /\ emu \in TaskIds \cup {0}
<1>1. SP!TypeOK /\ SP!OpOK
  BY DEF ServerInv, SP!LinkInv, SP!TypeInv
<1>2. EP!TypeOK /\ EP!StatusType
  BY DEF ServerInv, EP!IInv
<1>3. /\ op \in OpType /\ (op.pc # "idle" => op.task \in TaskIds)
      /\ taskCounter \in 0..MaxTasks /\ pendingTasks \in Seq(TaskIds)
      /\ runningTasks \subseteq TaskIds
  BY <1>1 DEF SP!TypeOK, SP!OpOK, SP!Ops, SP!TaskIds, SP!NoGPU, S!NoGPU, OpType, TaskIds
<1>4. preemptConfig = S!DefaultPreemptConfig
  BY <1>1 DEF SP!TypeOK, SP!DefaultPreemptConfig, S!DefaultPreemptConfig
<1> QED BY <1>2, <1>3, <1>4 DEF EP!TypeOK, EP!StatusType, EP!MonitorPCs, E!MonitorPCs, TaskIds

\* A step keeps the invariant if it starts no task, puts none in the queue, and takes no
\* started task's status away.
LEMMA StartKept ==
    ASSUME ServerInv, UNCHANGED <<taskCounter, started>>,
           Range(S!Waiting') \subseteq Range(S!Waiting),
           Submitting' => Submitting /\ op'.task = op.task,
           \A t \in started : status'[t] \notin {"new", "pending"}
    PROVE  StartInv'
BY DEF ServerInv, StartInv

\* Outside a scan the queue is the pending slice.
LEMMA WaitingSlice ==
    ASSUME UNCHANGED pendingTasks, op' = op \/ (op.pc # "promote" /\ op'.pc # "promote")
    PROVE  S!Waiting' = S!Waiting
BY DEF S!Waiting

\* A write of one status.
LEMMA OneStatus ==
    ASSUME ServerInv, NEW t, NEW s \in {"running", "completed", "failed", "timeout", "killed"},
           status' = status \/ status' = [status EXCEPT ![t] = s]
    PROVE  \A u \in started : status'[u] \notin {"new", "pending"}
BY Types DEF ServerInv, StartInv

(* Submit.                                                                 *)
LEMMA SubmitStep ==
    ASSUME ServerInv, Submit
    PROVE  S!Next /\ [E!Next]_E!vars /\ StartInv'
<1>1. PICK p \in Priorities, v \in VRAMs, q \in GPUReqs : S!SubmitTask(p, v, q)
  BY DEF Submit
<1> DEFINE n == taskCounter + 1
<1>2. UNCHANGED evars
  BY DEF Submit
<1>3. /\ op.pc = "idle" /\ taskCounter' = n /\ n \in TaskIds /\ UNCHANGED pendingTasks
      /\ status' = [status EXCEPT ![n] = "pending"]
      /\ op' = [S!Idle EXCEPT !.pc = "schedule", !.task = n]
  BY <1>1, Types, Assumptions DEF S!SubmitTask, TaskIds, SP!SchedulerAssumption
<1>4. op'.pc = "schedule" /\ op'.task = n
  BY <1>3 DEF S!Idle
<1>5. n > taskCounter /\ taskCounter \in Int /\ n \notin started
  BY <1>3, Types DEF ServerInv, StartInv, TaskIds
<1>6. S!Waiting' = S!Waiting
  BY <1>3, <1>4, WaitingSlice
<1>7. n \notin Range(S!Waiting)
  BY <1>5 DEF ServerInv, StartInv
<1>8. \A t \in Range(S!Waiting) : t <= n
  <2>1. \A t \in Range(S!Waiting) : t \in Int
    BY <1>3, Types DEF S!Waiting, TaskIds, Range
  <2> QED BY <1>5, <2>1 DEF ServerInv, StartInv
<1>9. \A t \in started : t <= n /\ status'[t] \notin {"new", "pending"}
  <2>1. \A t \in started : t \in Int /\ t # n
    BY <1>5, Types DEF TaskIds
  <2> QED BY <1>3, <1>5, <2>1, Types DEF ServerInv, StartInv
<1>10. started' = started
  BY <1>2 DEF evars
<1>11. StartInv'
  BY <1>3, <1>4, <1>5, <1>6, <1>7, <1>8, <1>9, <1>10 DEF ServerInv, StartInv
<1>12. E!SchedulerWritesStatus(n, "pending")
  BY <1>2, <1>3, <1>5 DEF E!SchedulerWritesStatus, E!evars, evars
<1> QED BY <1>1, <1>3, <1>11, <1>12 DEF S!Next, E!Next, TaskIds

(* The goroutine with Scheduler.mu.                                        *)

\* A task that finds no GPU joins the queue, which none that was started does.
LEMMA EnqueueStep ==
    ASSUME ServerInv, UNCHANGED evars, S!Enqueue, op.pc \in {"schedule", "retry", "preempt"}
    PROVE  StartInv' /\ UNCHANGED E!vars
<1>1. /\ pendingTasks' = Append(pendingTasks, op.task) /\ op'.pc = "idle"
      /\ UNCHANGED <<taskCounter, status>>
  BY DEF S!Enqueue, S!Idle
<1>2. S!Waiting = pendingTasks /\ S!Waiting' = pendingTasks'
  BY <1>1 DEF S!Waiting
<1>3. op.task \in TaskIds /\ pendingTasks \in Seq(TaskIds) /\ taskCounter \in Int
  BY Types
<1>4. Range(S!Waiting') = Range(S!Waiting) \cup {op.task}
  BY <1>1, <1>2, <1>3, AppendRange
<1>5. op.task = taskCounter /\ op.task \notin started
  BY DEF ServerInv, StartInv, Submitting
<1>6. UNCHANGED started
  BY DEF evars
<1>7. StartInv'
  BY <1>1, <1>3, <1>4, <1>5, <1>6 DEF ServerInv, StartInv, Submitting
<1> QED BY <1>1, <1>7 DEF E!vars, evars, E!evars

\* Booking the task on a GPU writes its status, which no executor has yet.
LEMMA AccountStep ==
    ASSUME ServerInv, UNCHANGED evars, S!AccountTask
    PROVE  StartInv' /\ E!Next
<1>1. /\ op.pc = "account" /\ op'.pc = "execute" /\ op'.task = op.task
      /\ status' = [status EXCEPT ![op.task] = "running"] /\ UNCHANGED <<taskCounter, pendingTasks>>
  BY Types DEF S!AccountTask, OpType
<1>2. S!Waiting' = S!Waiting
  BY <1>1, WaitingSlice
<1>3. StartInv'
  BY <1>1, <1>2, StartKept, OneStatus DEF evars, Submitting
<1>4. op.task \in TaskIds /\ op.task \notin started
  BY <1>1, Types DEF ServerInv, StartInv, Submitting
<1>5. E!SchedulerWritesStatus(op.task, "running")
  BY <1>1, <1>4 DEF E!SchedulerWritesStatus, evars, E!evars
<1> QED BY <1>3, <1>4, <1>5 DEF E!Next, TaskIds

\* The scan promotes waiting tasks, none of which was started.
LEMMA PromoteStep ==
    ASSUME ServerInv, UNCHANGED evars, S!PromoteOne
    PROVE  StartInv' /\ [E!Next]_E!vars
<1>1. /\ op.pc = "promote" /\ op.scan # <<>> /\ op.scan \in Seq(TaskIds) /\ op.kept \in Seq(TaskIds)
      /\ UNCHANGED taskCounter /\ op'.pc = "promote"
  BY Types DEF S!PromoteOne, OpType
<1>2. PICK t \in TaskIds : t = Head(op.scan)
  BY <1>1
<1>3. Range(op.kept \o op.scan) = Range(op.kept) \cup {t} \cup Range(Tail(op.scan))
  BY <1>1, <1>2, HeadTailRange, ConcatRange
<1>4. \/ /\ status' = [status EXCEPT ![t] = "running"]
         /\ op'.scan = Tail(op.scan) /\ op'.kept = op.kept
      \/ /\ status' = status
         /\ op'.scan = Tail(op.scan) /\ op'.kept = Append(op.kept, t)
  BY <1>2, Types DEF S!PromoteOne, OpType
<1>5. /\ Range(Append(op.kept, t)) = Range(op.kept) \cup {t}
      /\ Append(op.kept, t) \in Seq(TaskIds) /\ Tail(op.scan) \in Seq(TaskIds)
  BY <1>1, AppendRange
<1>6. /\ Range(op.kept \o Tail(op.scan)) = Range(op.kept) \cup Range(Tail(op.scan))
      /\ Range(Append(op.kept, t) \o Tail(op.scan))
            = Range(op.kept) \cup {t} \cup Range(Tail(op.scan))
  <2> DEFINE k == Append(op.kept, t)
             r == Tail(op.scan)
  <2>1. k \in Seq(TaskIds) /\ r \in Seq(TaskIds) /\ Range(k) = Range(op.kept) \cup {t}
    BY <1>5
  <2> HIDE DEF k, r
  <2>2. Range(k \o r) = Range(k) \cup Range(r)
    BY <2>1, ConcatRange
  <2>3. Range(op.kept \o r) = Range(op.kept) \cup Range(r)
    BY <1>1, <2>1, ConcatRange
  <2> QED BY <2>1, <2>2, <2>3 DEF k, r
<1>7. Range(S!Waiting') \subseteq Range(S!Waiting)
  BY <1>1, <1>3, <1>4, <1>6 DEF S!Waiting
<1>8. t \in Range(S!Waiting)
  BY <1>1, <1>3 DEF S!Waiting
<1>9. StartInv'
  BY <1>1, <1>4, <1>7, StartKept, OneStatus DEF evars, Submitting
<1>10. t \notin started
  BY <1>8 DEF ServerInv, StartInv
<1>11. E!SchedulerWritesStatus(t, "running") \/ UNCHANGED E!vars
  BY <1>4, <1>10 DEF E!SchedulerWritesStatus, E!vars, evars, E!evars
<1> QED BY <1>9, <1>11 DEF E!Next, TaskIds

\* The other steps with Scheduler.mu write no status.
LEMMA SchedulerRunsStep ==
    ASSUME ServerInv, SchedulerRuns
    PROVE  S!Next /\ [E!Next]_E!vars /\ StartInv'
<1>1. UNCHANGED evars
  BY DEF SchedulerRuns
<1>2. S!Next
  BY DEF SchedulerRuns, S!Next, S!Step
<1>3. CASE S!AccountTask
  BY <1>1, <1>2, <1>3, AccountStep
<1>4. CASE S!PromoteOne
  BY <1>1, <1>2, <1>4, PromoteStep
<1>5. CASE S!Enqueue /\ op.pc \in {"schedule", "retry", "preempt"}
  BY <1>1, <1>2, <1>5, EnqueueStep
<1>6. ASSUME UNCHANGED <<taskCounter, status>>, Range(S!Waiting') \subseteq Range(S!Waiting),
             Submitting' => Submitting /\ op'.task = op.task
      PROVE  [E!Next]_E!vars /\ StartInv'
  <2>1. StartInv'
    BY <1>1, <1>6, StartKept DEF evars, ServerInv, StartInv
  <2> QED BY <1>1, <1>6, <2>1 DEF E!vars, evars, E!evars
<1>7. CASE \/ \E g \in GPUs : S!ScheduleSucceeds(g)
           \/ S!ScheduleFails /\ ~S!Enqueue
           \/ S!PreemptCheck
  <2>1. /\ op.pc \in {"schedule", "retry", "check"}
        /\ op'.pc \in {"account", "preempt", "retry"} /\ op'.task = op.task
        /\ UNCHANGED <<taskCounter, status, pendingTasks>>
    BY <1>7, Types DEF S!ScheduleSucceeds, S!ScheduleFails, S!PreemptCheck, S!OnlyOp, OpType
  <2>2. S!Waiting' = S!Waiting
    BY <2>1, WaitingSlice
  <2> QED BY <1>2, <1>6, <2>1, <2>2 DEF Submitting
<1>8. CASE S!AccountRelease
  <2>1. /\ op.pc = "release" /\ op'.pc = "promote" /\ op'.scan = pendingTasks /\ op'.kept = <<>>
        /\ UNCHANGED <<taskCounter, status>>
    BY <1>8, Types DEF S!AccountRelease, OpType
  <2>2. <<>> \o pendingTasks = pendingTasks
    BY Types, ConcatEmptySeq
  <2>3. S!Waiting' = S!Waiting
    BY <2>1, <2>2 DEF S!Waiting
  <2> QED BY <1>2, <1>6, <2>1, <2>3 DEF Submitting
<1>9. CASE S!PromoteEnd
  <2>1. /\ op.pc = "promote" /\ op'.pc = "idle" /\ op.scan = <<>> /\ pendingTasks' = op.kept
        /\ UNCHANGED <<taskCounter, status>>
    BY <1>9 DEF S!PromoteEnd, S!Idle
  <2>2. op.kept \o <<>> = op.kept
    BY Types, ConcatEmptySeq DEF OpType
  <2>3. S!Waiting' = S!Waiting
    BY <2>1, <2>2 DEF S!Waiting
  <2> QED BY <1>2, <1>6, <2>1, <2>3 DEF Submitting
<1> QED BY <1>3, <1>4, <1>5, <1>7, <1>8, <1>9 DEF SchedulerRuns, S!ScheduleFails, S!PreemptFails

(* The clients, the monitors and the operating system.                     *)

\* A step that leaves op and the queue alone and writes at most a final status.
LEMMA QuietStep ==
    ASSUME ServerInv, UNCHANGED <<taskCounter, pendingTasks, op, started>>, NEW t,
           NEW s \in {"running", "completed", "failed", "timeout", "killed"},
           status' = status \/ status' = [status EXCEPT ![t] = s]
    PROVE  StartInv'
BY WaitingSlice, OneStatus, StartKept DEF Submitting

\* An update of a poll is one that the scheduler's monitor may deliver.
LEMMA ReportStep == ASSUME ServerInv, Report PROVE S!Next /\ [E!Next]_E!vars /\ StartInv'
<1>1. PICK u \in pollAll : u.gpu \in GPUs /\ S!UpdateGPUUsage(u.gpu, UsageOf(u))
  BY DEF Report
<1>2. UNCHANGED <<taskCounter, pendingTasks, op, status, evars>>
  BY <1>1 DEF Report, S!UpdateGPUUsage
<1>3. StartInv'
  BY <1>2, QuietStep DEF evars
<1>4. UsageOf(u) \in Samples
  BY DEF Samples
<1> QED BY <1>1, <1>2, <1>3, <1>4 DEF S!Next, E!vars, evars, E!evars

LEMMA CancelStep ==
    ASSUME ServerInv, NEW t \in TaskIds, Cancel(t)
    PROVE  S!Next /\ [E!Next]_E!vars /\ StartInv'
<1>1. S!CancelTask(t) /\ UNCHANGED evars /\ op.pc = "idle" /\ UNCHANGED <<taskCounter, status, op>>
  BY DEF Cancel, S!CancelTask
<1>2. PICK i \in DOMAIN pendingTasks : pendingTasks' = Drop(pendingTasks, i)
  BY <1>1 DEF S!CancelTask, Drop
<1>3. Range(pendingTasks') \subseteq Range(pendingTasks)
  BY <1>2, Types, DropRange
<1>4. Range(S!Waiting') \subseteq Range(S!Waiting)
  BY <1>1, <1>3 DEF S!Waiting
<1>5. StartInv'
  BY <1>1, <1>4, StartKept, OneStatus DEF Submitting, evars
<1> QED BY <1>1, <1>5 DEF S!Next, S!TaskIds, TaskIds, E!vars, evars, E!evars

\* A release, by a client or a monitor, takes the mutex.
LEMMA ReleaseStep ==
    ASSUME ServerInv, NEW t \in TaskIds, S!ReleaseTask(t), UNCHANGED started
    PROVE  S!Next /\ StartInv'
<1>1. /\ op.pc = "idle" /\ op'.pc = "release" /\ UNCHANGED <<taskCounter, status, pendingTasks>>
  BY DEF S!ReleaseTask, S!OnlyOp, S!Idle
<1>2. S!Waiting' = S!Waiting
  BY <1>1, WaitingSlice
<1>3. StartInv'
  BY <1>1, <1>2, StartKept, OneStatus DEF Submitting
<1> QED BY <1>3 DEF S!Next, S!TaskIds, TaskIds

LEMMA CompleteStep ==
    ASSUME ServerInv, NEW t \in TaskIds, Complete(t)
    PROVE  S!Next /\ [E!Next]_E!vars /\ StartInv'
<1>1. S!ReleaseTask(t) /\ UNCHANGED evars /\ UNCHANGED status
  BY DEF Complete, S!CompleteTask, S!ReleaseTask, S!OnlyOp
<1> QED BY <1>1, ReleaseStep DEF E!vars, evars, E!evars

\* The executor writes the status of a started task: the scheduler has let go of it.
LEMMA ExecutorWrites ==
    ASSUME ServerInv, NEW t \in started, UNCHANGED svars, UNCHANGED started,
           NEW s \in {"completed", "failed", "timeout", "killed"},
           status' = [status EXCEPT ![t] = s]
    PROVE  S!Next /\ StartInv'
<1>1. t \in TaskIds /\ t <= taskCounter /\ status[t] \notin {"new", "pending"}
  BY Types DEF ServerInv, StartInv
<1>2. S!ExecutorWritesStatus(t, s)
  BY <1>1 DEF S!ExecutorWritesStatus, svars
<1>3. StartInv'
  BY QuietStep DEF svars
<1> QED BY <1>1, <1>2, <1>3 DEF S!Next, S!TaskIds, TaskIds

LEMMA StopStep ==
    ASSUME ServerInv, NEW t \in TaskIds, Stop(t)
    PROVE  S!Next /\ E!Next /\ StartInv'
<1>1. /\ E!StopTask(t) /\ UNCHANGED svars /\ UNCHANGED started /\ t \in started
      /\ status' = [status EXCEPT ![t] = "killed"]
  BY DEF Stop, E!StopTask
<1> QED BY <1>1, ExecutorWrites DEF E!Next, TaskIds

\* What leaves the scheduler and all statuses alone is no step of the scheduler.
LEMMA OnlyExecutor ==
    ASSUME ServerInv, UNCHANGED <<status, svars, started>>
    PROVE  UNCHANGED S!vars /\ StartInv'
BY QuietStep DEF svars, S!vars

LEMMA OperatingSystemStep ==
    ASSUME ServerInv, NEW t \in TaskIds, OperatingSystem(t)
    PROVE  UNCHANGED S!vars /\ E!Next /\ StartInv'
<1>1. E!OperatingSystem(t) /\ UNCHANGED <<status, svars, started>>
  BY DEF OperatingSystem, E!OperatingSystem, E!ProcessExits, E!OutputEnds, E!DescendantsExit,
         E!DeadlinePasses
<1> QED BY <1>1, OnlyExecutor DEF E!Next, TaskIds

\* A monitor: only of a started task is there one.
LEMMA MonitorStep ==
    ASSUME ServerInv, NEW t \in TaskIds, Monitor(t)
    PROVE  [S!Next]_S!vars /\ E!Next /\ StartInv'
<1>1. E!Monitor(t)
  BY DEF Monitor, MonitorRuns, CallRelease, ReturnRelease, E!Monitor
<1>2. CASE UNCHANGED svars /\ E!MonitorLocks(t)
  <2>1. t \in started
    BY <1>2, Types DEF E!MonitorLocks
  <2>2. PICK s \in {"completed", "failed", "timeout", "killed"} :
           status' = [status EXCEPT ![t] = s]
    BY <1>2 DEF E!MonitorLocks
  <2> QED BY <1>1, <1>2, <2>1, <2>2, ExecutorWrites DEF E!MonitorLocks, E!Next, TaskIds
<1>3. CASE UNCHANGED <<status, svars, started>>
  BY <1>1, <1>3, OnlyExecutor DEF E!Next, TaskIds
<1>4. CASE S!ReleaseTask(t) /\ E!MonitorNotifies(t)
  BY <1>1, <1>4, ReleaseStep DEF E!MonitorNotifies, E!Next, TaskIds
<1> QED BY <1>2, <1>3, <1>4 DEF Monitor, MonitorRuns, CallRelease, ReturnRelease,
        E!MonitorSeesExit, E!MonitorSeesDeadline, E!MonitorReaps, E!MonitorNotifies,
        E!MonitorReturns

(* The calls of the executor.                                              *)

\* The submitted task gets its process, or is refused one.
LEMMA ExecuteStep ==
    ASSUME ServerInv, NEW s \in {"running", "failed"}, S!Execute(s),
           started' \subseteq started \cup {op.task}
    PROVE  S!Next /\ StartInv'
<1>1. /\ op.pc = "execute" /\ op'.pc = "idle" /\ status' = [status EXCEPT ![op.task] = s]
      /\ UNCHANGED <<taskCounter, pendingTasks>>
  BY DEF S!Execute, S!Idle
<1>2. S!Waiting' = S!Waiting
  BY <1>1, WaitingSlice
<1>3. op.task = taskCounter /\ op.task \notin started \cup Range(S!Waiting) /\ op.task \in TaskIds
  BY <1>1, Types DEF ServerInv, StartInv, Submitting
<1>4. \A t \in started' : t <= taskCounter
  BY <1>3, Types DEF ServerInv, StartInv, TaskIds
<1>5. \A t \in started : status'[t] \notin {"new", "pending"}
  BY <1>1, OneStatus
<1>6. status'[op.task] = s
  BY <1>1, <1>3, Types
<1>7. StartInv'
  BY <1>1, <1>2, <1>3, <1>4, <1>5, <1>6 DEF ServerInv, StartInv, Submitting
<1> QED BY <1>7 DEF S!Next, S!Step

LEMMA StartStep ==
    ASSUME ServerInv, NEW p \in PIDs, StartTask(p)
    PROVE  S!Next /\ E!Next /\ StartInv'
<1>1. S!Execute("running") /\ E!SubmitTask(op.task, p) /\ op.task \in TaskIds
  BY Types DEF StartTask, S!Execute
<1>2. started' = started \cup {op.task}
  BY <1>1 DEF E!SubmitTask
<1> QED BY <1>1, <1>2, ExecuteStep DEF E!Next, TaskIds

LEMMA RefuseStep ==
    ASSUME ServerInv, RefuseTask
    PROVE  S!Next /\ E!Next /\ StartInv'
<1>1. /\ S!Execute("failed") /\ UNCHANGED evars /\ op.pc = "execute" /\ op.task \in TaskIds
      /\ status' = [status EXCEPT ![op.task] = "failed"]
  BY Types DEF RefuseTask, S!Execute, E!RefuseTask, evars, E!evars
<1>2. op.task \notin started
  BY <1>1 DEF ServerInv, StartInv, Submitting
<1>3. E!SchedulerWritesStatus(op.task, "failed")
  BY <1>1, <1>2 DEF E!SchedulerWritesStatus, evars, E!evars
<1> QED BY <1>1, <1>3, ExecuteStep DEF E!Next, TaskIds, evars

\* A victim that was started is stopped by the executor; another one only in the books.
LEMMA KillStep ==
    ASSUME ServerInv, NEW v \in TaskIds, KillVictim(v)
    PROVE  S!Next /\ E!Next /\ StartInv'
<1>1. /\ S!PreemptKill(v) /\ op.pc = "preempt" /\ op'.pc = "check" /\ op'.task = op.task
      /\ status' = [status EXCEPT ![v] = "killed"] /\ UNCHANGED <<taskCounter, pendingTasks>>
  BY Types DEF KillVictim, S!PreemptKill, OpType
<1>2. UNCHANGED started
  BY DEF KillVictim, E!StopTask, evars
<1>3. S!Waiting' = S!Waiting
  BY <1>1, WaitingSlice
<1>4. StartInv'
  BY <1>1, <1>2, <1>3, StartKept, OneStatus DEF Submitting
<1>5. E!StopTask(v) \/ E!SchedulerWritesStatus(v, "killed")
  BY <1>1 DEF KillVictim, E!SchedulerWritesStatus, evars, E!evars
<1> QED BY <1>1, <1>4, <1>5 DEF E!Next, S!Next, S!Step, S!TaskIds, TaskIds

------------------------------------------------------------------------------
(* What holds of the composition.                                          *)

\* Every step of the server is one of the scheduler and one of the executor, or none.
LEMMA ServerStep ==
    ASSUME ServerInv, [Next]_vars
    PROVE  [S!Next]_S!vars /\ [E!Next]_E!vars /\ StartInv'
<1>1. CASE UNCHANGED vars
  <2>1. UNCHANGED <<status, svars, evars>> /\ UNCHANGED started
    BY <1>1 DEF vars, evars
  <2> QED BY <2>1, OnlyExecutor DEF E!vars, E!evars, evars
<1>2. CASE CallsExecutor
  BY <1>2, StartStep, RefuseStep, KillStep DEF CallsExecutor
<1> QED BY <1>1, <1>2, SubmitStep, ReportStep, SchedulerRunsStep, CancelStep, CompleteStep,
           StopStep, OperatingSystemStep, MonitorStep DEF Next

\* The invariants of the two components, and where tasks are when they start, together
\* are inductive.
LEMMA ServerInvStep == ServerInv /\ [Next]_vars => ServerInv'
BY ServerStep, SchedulerInv, ExecutorInv DEF ServerInv

LEMMA ServerInvInit == Init => ServerInv
<1> SUFFICES ASSUME Init PROVE ServerInv
  OBVIOUS
<1>1. S!Init /\ E!Init
  BY DEF Init
<1>2. SP!Init
  BY <1>1 DEF S!Init, SP!Init, S!TaskIds, SP!TaskIds, S!DefaultPreemptConfig,
              SP!DefaultPreemptConfig, S!Idle, SP!Idle, S!NoGPU, SP!NoGPU
<1>3. SP!LinkInv
  BY <1>2, Assumptions, SP!InitLink
<1>4. EP!Init
  BY <1>1 DEF E!Init, EP!Init
<1>5. EP!IInv
  BY <1>4, Assumptions, EP!InitInv
<1>6. op.pc = "idle" /\ pendingTasks = <<>> /\ started = {}
  BY <1>1 DEF S!Init, S!Idle, E!Init
<1>7. Range(S!Waiting) = {}
  BY <1>6 DEF S!Waiting, Range
<1> QED BY <1>3, <1>5, <1>6, <1>7 DEF ServerInv, StartInv, Submitting

\* The server is a scheduler: whatever the executor, its monitors and the handlers do lies
\* in the environment that module Scheduler assumes, so that its theorems hold here.
THEOREM IsScheduler == Spec => ImplementsScheduler
<1>1. Init => S!Init
  BY DEF Init
<1> QED BY <1>1, ServerInvInit, ServerInvStep, ServerStep, PTL
        DEF Spec, ImplementsScheduler, S!Spec

\* The server is an executor: the scheduler writes the status of a task only before the
\* executor has it, and then through the executor.
THEOREM IsExecutor == Spec => ImplementsExecutor
<1>1. Init => E!Init
  BY DEF Init
<1> QED BY <1>1, ServerInvInit, ServerInvStep, ServerStep, PTL
        DEF Spec, ImplementsExecutor, E!Spec

\* No task whose process was started waits for a GPU.
THEOREM StartedTasksDoNotWait == Spec => []StartedNotWaiting
<1>1. ServerInv => StartedNotWaiting
  BY DEF ServerInv, StartInv, StartedNotWaiting
<1> QED BY <1>1, ServerInvInit, ServerInvStep, PTL DEF Spec

(* Who gives up a booking.                                                 *)

\* A method that releases a task was called by a client that completes it, or by the
\* task's monitor, which holds Executor.mu meanwhile.
ReleaseOwner == op.pc = "release" => op.task \in Completable \/ emu = op.task

LEMMA ReleaseOwnerStep ==
    ASSUME ServerInv, ReleaseOwner, [Next]_vars
    PROVE  ReleaseOwner'
<1>1. \A t \in TaskIds : (emu = t) = (mon[t] \in {"notifying", "releasing"})
  BY Types
<1>2. CASE UNCHANGED <<op, emu>>
  BY <1>2 DEF ReleaseOwner
<1>3. CASE op'.pc # "release"
  BY <1>3 DEF ReleaseOwner
<1>4. ASSUME NEW t \in TaskIds, Complete(t) PROVE ReleaseOwner'
  BY <1>4 DEF Complete, S!CompleteTask, S!ReleaseTask, S!Idle, ReleaseOwner
<1>5. ASSUME NEW t \in TaskIds, CallRelease(t) PROVE ReleaseOwner'
  <2>1. emu = t /\ emu' = emu
    BY <1>1, <1>5 DEF CallRelease, E!MonitorNotifies
  <2>2. CASE S!ReleaseTask(t)
    BY <2>1, <2>2 DEF S!ReleaseTask, S!Idle, ReleaseOwner
  <2> QED BY <1>2, <1>5, <2>1, <2>2 DEF CallRelease, svars
<1>6. ASSUME NEW t \in TaskIds, ReturnRelease(t) PROVE ReleaseOwner'
  BY <1>1, <1>6 DEF ReturnRelease, E!MonitorReturns, svars, ReleaseOwner
<1>7. ASSUME NEW t \in TaskIds, MonitorRuns(t) PROVE ReleaseOwner'
  <2>1. op' = op /\ (emu' = emu \/ emu = 0)
    BY <1>7 DEF MonitorRuns, svars, E!MonitorSeesExit, E!MonitorSeesDeadline, E!MonitorReaps,
          E!MonitorLocks
  <2>2. op.pc = "release" => op.task # 0
    BY Types DEF TaskIds
  <2> QED BY <2>1, <2>2 DEF ReleaseOwner
<1>8. CASE UNCHANGED vars \/ Report \/ \E t \in TaskIds : OperatingSystem(t) \/ Stop(t) \/ Cancel(t)
  BY <1>2, <1>8 DEF vars, svars, evars, Report, S!UpdateGPUUsage, OperatingSystem, Stop,
        E!StopTask, Cancel, S!CancelTask, E!OperatingSystem, E!ProcessExits, E!OutputEnds,
        E!DescendantsExit, E!DeadlinePasses
<1>9. CASE Submit
  BY <1>3, <1>9 DEF Submit, S!SubmitTask, S!Idle
<1>10. CASE SchedulerRuns \/ CallsExecutor
  <2>1. CASE S!Enqueue \/ S!PromoteEnd \/ \E s \in {"running", "failed"} : S!Execute(s)
    BY <1>3, <2>1 DEF S!Enqueue, S!PromoteEnd, S!Execute, S!Idle
  <2>2. CASE \/ \E g \in GPUs : S!ScheduleSucceeds(g)
             \/ S!ScheduleFails /\ ~S!Enqueue
             \/ S!PreemptCheck \/ S!AccountTask \/ S!AccountRelease \/ S!PromoteOne
             \/ \E v : S!PreemptKill(v)
    <3>1. op \in OpType /\ DOMAIN op = {"pc", "task", "gpu", "victims", "scan", "kept"}
      BY Types DEF OpType
    <3> QED BY <1>3, <2>2, <3>1 DEF S!ScheduleSucceeds, S!ScheduleFails, S!PreemptCheck,
          S!AccountTask, S!AccountRelease, S!PromoteOne, S!PreemptKill
  <2>3. CASE SchedulerRuns
    BY <2>1, <2>2, <2>3 DEF SchedulerRuns, S!ScheduleFails, S!PreemptFails
  <2>4. CASE CallsExecutor
    BY <2>1, <2>2, <2>4 DEF CallsExecutor, StartTask, RefuseTask, KillVictim
  <2> QED BY <1>10, <2>3, <2>4
<1> QED BY <1>4, <1>5, <1>6, <1>7, <1>8, <1>9, <1>10 DEF Next, Monitor

\* A step that takes started tasks from the running ones kills a victim, or accounts for
\* the release of one task.
LEMMA BookingStep ==
    ASSUME ServerInv, ReleaseOwner, [Next]_vars,
           NEW t \in started \cap runningTasks, t \notin runningTasks'
    PROVE  \/ emu = t /\ E!WaitReturns(t)
           \/ op.pc = "preempt" /\ proc'[t] # "alive"
           \/ t \in Completable
<1>1. t \in TaskIds
  BY Types
<1>2. CASE S!AccountRelease
  <2>1. op.pc = "release" /\ op.task = t
    BY <1>2 DEF S!AccountRelease
  <2>2. CASE emu = t
    <3>1. mon[t] \in {"notifying", "releasing"}
      BY <1>1, <2>2, Types
    <3> QED BY <1>1, <2>2, <3>1 DEF ServerInv, EP!IInv, EP!MonitorsPast, EP!Past, TaskIds,
               EP!WaitReturns, E!WaitReturns
  <2> QED BY <2>1, <2>2 DEF ReleaseOwner
<1>3. ASSUME NEW v \in TaskIds, KillVictim(v) PROVE op.pc = "preempt" /\ proc'[t] # "alive"
  <2>1. op.pc = "preempt" /\ t = v /\ E!StopTask(t)
    BY <1>3 DEF KillVictim, S!PreemptKill
  <2>2. PICK left \in [E!Hit({pid[t]}) -> {"orphans", "detached", "exited"}] :
           proc' = [u \in TaskIds |-> IF u \in E!Hit({pid[t]}) THEN left[u] ELSE proc[u]]
    BY <2>1 DEF E!StopTask, E!Kill, TaskIds
  <2>3. t \in E!Hit({pid[t]}) \/ proc[t] # "alive"
    BY <1>1 DEF E!Hit, TaskIds
  <2> QED BY <1>1, <2>1, <2>2, <2>3
<1>4. ~(UNCHANGED runningTasks \/ \E u : runningTasks' = runningTasks \cup {u})
  OBVIOUS
<1>5. ~UNCHANGED vars /\ ~Submit /\ ~Report
  BY <1>4 DEF vars, svars, Submit, S!SubmitTask, Report, S!UpdateGPUUsage
<1>6. ASSUME NEW u \in TaskIds
      PROVE  ~Cancel(u) /\ ~Complete(u) /\ ~Stop(u) /\ ~OperatingSystem(u) /\ ~Monitor(u)
  BY <1>4 DEF Cancel, S!CancelTask, Complete, S!CompleteTask, S!ReleaseTask, S!OnlyOp, Stop,
        OperatingSystem, Monitor, MonitorRuns, CallRelease, ReturnRelease, svars
<1>7. CASE SchedulerRuns
  BY <1>2, <1>4, <1>7 DEF SchedulerRuns, S!ScheduleSucceeds, S!ScheduleFails, S!PreemptCheck,
        S!PreemptFails, S!Enqueue, S!OnlyOp, S!AccountTask, S!PromoteOne, S!PromoteEnd
<1>8. CASE CallsExecutor
  BY <1>3, <1>4, <1>8 DEF CallsExecutor, StartTask, RefuseTask, S!Execute
<1> QED BY <1>5, <1>6, <1>7, <1>8 DEF Next

\* A started task keeps its booking until cmd.Wait has returned for its monitor, its main
\* process was killed for another task, or a client completed it.
THEOREM BookedUntilEnd == Spec => ReleasedAfterEnd
<1>1. Init => ReleaseOwner
  BY DEF Init, S!Init, S!Idle, ReleaseOwner
<1>2. ServerInv /\ ReleaseOwner /\ [Next]_vars => ReleaseOwner'
  BY ReleaseOwnerStep
<1>3. ServerInv /\ ReleaseOwner /\ [Next]_vars =>
         \A t \in started \cap runningTasks : t \notin runningTasks' =>
            \/ emu = t /\ E!WaitReturns(t)
            \/ op.pc = "preempt" /\ proc'[t] # "alive"
            \/ t \in Completable
  BY BookingStep
<1> QED BY <1>1, <1>2, <1>3, ServerInvInit, ServerInvStep, PTL DEF Spec, ReleasedAfterEnd

\* No step leaves the cycle of the two mutexes.
LEMMA CycleStays == ASSUME ServerInv, [Next]_vars, LockCycle PROVE LockCycle'
<1>1. /\ op.pc = "execute" \/ (op.pc = "preempt" /\ op.victims # {})
      /\ emu # 0 /\ mon[emu] = "notifying" /\ emu \in TaskIds /\ mon \in [TaskIds -> E!MonitorPCs]
  BY Types DEF LockCycle
<1>2. ~CallsExecutor
  BY <1>1 DEF CallsExecutor, StartTask, E!SubmitTask, RefuseTask, E!RefuseTask, KillVictim,
              E!StopTask
<1>3. ~SchedulerRuns
  BY <1>1 DEF SchedulerRuns, S!ScheduleSucceeds, S!ScheduleFails, S!PreemptCheck,
              S!PreemptFails, S!AccountTask, S!AccountRelease, S!PromoteOne, S!PromoteEnd
<1>4. ~Submit /\ \A t \in TaskIds : ~Cancel(t) /\ ~Complete(t) /\ ~Stop(t) /\ ~CallRelease(t)
  BY <1>1 DEF Submit, S!SubmitTask, Cancel, S!CancelTask, Complete, S!CompleteTask,
              S!ReleaseTask, Stop, E!StopTask, CallRelease
<1>5. CASE UNCHANGED <<op, mon, emu>>
  BY <1>5 DEF LockCycle
<1>6. CASE UNCHANGED vars \/ Report \/ \E t \in TaskIds : OperatingSystem(t)
  BY <1>5, <1>6 DEF vars, svars, evars, Report, S!UpdateGPUUsage, OperatingSystem,
        E!OperatingSystem, E!ProcessExits, E!OutputEnds, E!DescendantsExit, E!DeadlinePasses
<1>7. ASSUME NEW t \in TaskIds, MonitorRuns(t) PROVE LockCycle'
  <2>1. /\ mon[t] # "notifying" /\ UNCHANGED <<op, emu>> /\ \E pc : mon' = [mon EXCEPT ![t] = pc]
    BY <1>1, <1>7 DEF MonitorRuns, svars, E!MonitorSeesExit, E!MonitorSeesDeadline,
          E!MonitorReaps, E!MonitorLocks
  <2>2. mon'[emu] = mon[emu]
    BY <1>1, <2>1
  <2> QED BY <1>1, <2>1, <2>2 DEF LockCycle
<1>8. \A t \in TaskIds : ~ReturnRelease(t)
  <2>1. \A t \in TaskIds : mon[t] = "releasing" => emu = t
    BY Types
  <2> QED BY <1>1, <2>1 DEF ReturnRelease, E!MonitorReturns
<1> QED BY <1>2, <1>3, <1>4, <1>6, <1>7, <1>8 DEF Next, Monitor

\* The deadlock is final: only a restart of the server ends it.
THEOREM NobodyLeavesCycle == Spec => CycleIsFinal
<1>1. ServerInv /\ [Next]_vars => (LockCycle => LockCycle')
  BY CycleStays
<1> QED BY <1>1, ServerInvInit, ServerInvStep, PTL DEF Spec, CycleIsFinal

\* What is proved of the components in any environment holds in this one: no task gets lost
\* or into two books, none overtakes another, preemption obeys the configuration, the
\* executor reports an end only when cmd.Wait has returned, and statuses match exits.
THEOREM ComponentsKeepPromises ==
    Spec => /\ [](S!PendingFIFO /\ S!OneBook) /\ S!PreemptionRules
            /\ [](E!ToldAfterExit /\ E!StatusMatchesExit)
<1>1. S!Spec => SP!Spec
  <2>1. S!Init => SP!Init
    BY DEF S!Init, SP!Init, S!TaskIds, SP!TaskIds, S!DefaultPreemptConfig,
           SP!DefaultPreemptConfig, S!Idle, SP!Idle, S!NoGPU, SP!NoGPU
  <2> QED BY <2>1, SchedulerSteps, PTL DEF S!Spec, SP!Spec
<1>2. SP!Spec => []SP!PendingFIFO /\ []SP!OneBook /\ SP!PreemptionRules
  BY Assumptions, SP!QueueInOrder, SP!InOneBook, SP!PreemptionFollowsRules
<1>3. SP!PendingFIFO => S!PendingFIFO
  BY DEF SP!PendingFIFO, S!PendingFIFO, SP!Increasing, S!Increasing, SP!Waiting, S!Waiting
<1>4. SP!OneBook => S!OneBook
  BY DEF SP!OneBook, S!OneBook, SP!Waiting, S!Waiting, SP!Preempted, S!Preempted, SP!InFlight,
         S!InFlight, SP!Range, S!Range
<1>5. SP!PreemptionRules => S!PreemptionRules
  BY PTL DEF SP!PreemptionRules, S!PreemptionRules, SP!vars, S!vars
<1>6. EP!IInv => E!ToldAfterExit /\ E!StatusMatchesExit
  BY DEF EP!IInv, EP!MonitorsPast, EP!Past, E!ToldAfterExit, EP!StatusMatchesExit, E!StatusMatchesExit,
         EP!Told, E!Told, EP!WaitReturns, E!WaitReturns
<1>7. ServerInv => E!ToldAfterExit /\ E!StatusMatchesExit
  BY <1>6 DEF ServerInv
<1> QED BY <1>1, <1>2, <1>3, <1>4, <1>5, <1>7, IsScheduler, ServerInvInit, ServerInvStep, PTL
        DEF Spec, ImplementsScheduler
==============================================================================
