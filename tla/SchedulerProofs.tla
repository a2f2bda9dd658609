--------------------------- MODULE SchedulerProofs ---------------------------
(***************************************************************************)
(* Proofs about module Scheduler, for every value of its constants.         *)
(***************************************************************************)
EXTENDS Scheduler, DataLemmas

\* A method that holds the mutex works on a task, and books it on a GPU.
OpOK == /\ op.pc # "idle" => op.task \in TaskIds
        /\ op.pc = "account" => op.gpu \in GPUs

TypeInv == TypeOK /\ OpOK

\* Trimming keeps a sequence of tasks one.
LEMMA TrimType ==
    ASSUME NEW s \in Seq(TaskIds)
    PROVE  Trim(s) \in Seq(TaskIds)
<1>1. CASE Len(s) > MaxCompleted
  <2>1. Len(s) - MaxCompleted + 1 \in 1..(Len(s) + 1) /\ Len(s) \in Nat
    BY <1>1, SchedulerAssumption
  <2>2. SubSeq(s, Len(s) - MaxCompleted + 1, Len(s)) \in Seq(TaskIds)
    BY <2>1, SubSeqProperties
  <2> QED BY <1>1, <2>2 DEF Trim
<1>2. CASE ~(Len(s) > MaxCompleted)
  BY <1>2 DEF Trim
<1> QED BY <1>1, <1>2

LEMMA IdleType == Idle \in Ops /\ Idle.pc = "idle" /\ Idle.task = 0
BY SchedulerAssumption, <<>> \in Seq(TaskIds) DEF Idle, Ops, NoGPU

\* Recounting a GPU keeps the usage map well typed.
LEMMA RecountType ==
    ASSUME gpus \in [GPUs -> Usage], NEW g \in GPUs, NEW u \in Int, NEW n \in Int
    PROVE  Recount(g, u, n) \in [GPUs -> Usage]
BY DEF Recount, Usage

\* What a well-typed usage map and task table give for one GPU and one task.
LEMMA UsageType ==
    ASSUME gpus \in [GPUs -> Usage], NEW g \in GPUs
    PROVE  gpus[g].used \in Int /\ gpus[g].running \in Int
BY DEF Usage

LEMMA ChargeType ==
    ASSUME tasks \in [TaskIds -> Request], NEW t \in TaskIds
    PROVE  /\ tasks[t].vram \in Int /\ tasks[t].gpuReq \in Int
           /\ Charge(t) \in Int /\ Refund(t) \in Int
<1>1. tasks[t].vram \in Int /\ tasks[t].gpuReq \in Int
  BY DEF Request
<1> QED BY <1>1, SchedulerAssumption DEF Charge, Refund

LEMMA InitType == Init => TypeInv
<1> SUFFICES ASSUME Init PROVE TypeInv
  OBVIOUS
<1> USE SchedulerAssumption DEF Init
<1>1. gpus \in [GPUs -> Usage] /\ registered \in SUBSET GPUs
  BY DEF Usage
<1>2. tasks \in [TaskIds -> Request] /\ status \in [TaskIds -> Statuses]
  BY DEF Request, Statuses
<1>3. pendingTasks \in Seq(TaskIds) /\ completedTasks \in Seq(TaskIds)
      /\ preemptHistory \in Seq(PreemptRecord)
  OBVIOUS
<1> QED BY <1>1, <1>2, <1>3, IdleType DEF TypeInv, TypeOK, OpOK

LEMMA StepType == TypeInv /\ [Next]_vars => TypeInv'
<1> SUFFICES ASSUME TypeInv, [Next]_vars PROVE TypeInv'
  OBVIOUS
<1> USE SchedulerAssumption DEF TypeInv, TypeOK, OpOK
<1>1. ASSUME NEW p \in Priorities, NEW v \in VRAMs, NEW q \in GPUReqs, SubmitTask(p, v, q)
      PROVE  TypeInv'
  <2>1. taskCounter + 1 \in TaskIds /\ taskCounter' \in 0..MaxTasks
    BY <1>1 DEF SubmitTask, TaskIds
  <2>2. op' \in Ops /\ op'.task \in TaskIds /\ op'.pc = "schedule"
    <3>1. op' = [Idle EXCEPT !.pc = "schedule", !.task = taskCounter + 1]
      BY <1>1 DEF SubmitTask
    <3>2. taskCounter + 1 \in 0..MaxTasks
      BY <2>1 DEF TaskIds
    <3> HIDE SchedulerAssumption DEF TypeInv, TypeOK, OpOK
    <3> QED BY <2>1, <3>1, <3>2, IdleType DEF Ops
  <2>3. tasks' \in [TaskIds -> Request] /\ status' \in [TaskIds -> Statuses]
    BY <1>1, <2>1 DEF SubmitTask, Request, Statuses
  <2> QED BY <1>1, <2>1, <2>2, <2>3 DEF SubmitTask
<1>2. ASSUME NEW g \in GPUs, ScheduleSucceeds(g) PROVE TypeInv'
  BY <1>2 DEF ScheduleSucceeds, OnlyOp, Ops
<1>3. ASSUME Enqueue, op.pc # "idle" PROVE TypeInv'
  <2>1. pendingTasks' \in Seq(TaskIds)
    BY <1>3 DEF Enqueue
  <2> QED BY <1>3, <2>1, IdleType DEF Enqueue
<1>4. CASE ScheduleFails
  <2>1. CASE Enqueue
    BY <1>3, <1>4, <2>1 DEF ScheduleFails
  <2>2. CASE OnlyOp /\ op' = [op EXCEPT !.pc = "preempt", !.victims = Preemptable(op.task)]
    <3>1. Preemptable(op.task) \in SUBSET TaskIds
      BY DEF Preemptable
    <3>2. op' \in Ops /\ op'.task = op.task /\ op'.pc = "preempt" /\ op.pc # "idle"
      BY <1>4, <2>2, <3>1 DEF Ops, ScheduleFails
    <3> QED BY <2>2, <3>2 DEF OnlyOp
  <2> QED BY <1>4, <2>1, <2>2 DEF ScheduleFails
<1>5. ASSUME NEW v \in TaskIds, PreemptKill(v) PROVE TypeInv'
  <2>1. op' \in Ops /\ op'.task = op.task /\ op'.pc = "check" /\ op.pc = "preempt"
    BY <1>5 DEF PreemptKill, Ops
  <2>2. gpus' \in [GPUs -> Usage]
    <3>1. CASE tasks[v].gpuReq \in registered
      <4> DEFINE g == tasks[v].gpuReq
      <4>1. g \in GPUs /\ tasks[v].vram \in Int
        BY <3>1, ChargeType
      <4>2. gpus[g].used - tasks[v].vram \in Int /\ gpus[g].running - 1 \in Int
        <5>1. gpus[g].used \in Int /\ gpus[g].running \in Int
          BY <4>1, UsageType
        <5> QED BY <4>1, <5>1
      <4>3. gpus' = Recount(g, gpus[g].used - tasks[v].vram, gpus[g].running - 1)
        BY <1>5, <3>1 DEF PreemptKill
      <4> QED BY <4>1, <4>2, <4>3, RecountType
    <3>2. CASE tasks[v].gpuReq \notin registered
      BY <1>5, <3>2 DEF PreemptKill
    <3> QED BY <3>1, <3>2
  <2>3. [preemptor |-> op.task, preempted |-> v, gpu |-> tasks[v].gpuReq] \in PreemptRecord
    BY <2>1 DEF PreemptRecord, Request
  <2>4. preemptHistory' \in Seq(PreemptRecord)
    BY <1>5, <2>3 DEF PreemptKill
  <2>5. status' \in [TaskIds -> Statuses] /\ runningTasks' \in SUBSET TaskIds
    BY <1>5 DEF PreemptKill, Statuses
  <2> QED BY <1>5, <2>1, <2>2, <2>4, <2>5 DEF PreemptKill
<1>6. ASSUME NEW v \in TaskIds, PreemptOther(v) PROVE TypeInv'
  BY <1>6 DEF PreemptOther, OnlyOp, Ops
<1>7. CASE PreemptCheck
  <2>1. op' \in Ops /\ op'.task = op.task /\ op'.pc # "account" /\ op.pc = "check"
    BY <1>7 DEF PreemptCheck, Ops
  <2> QED BY <1>7, <2>1 DEF PreemptCheck, OnlyOp
<1>8. CASE PreemptFails
  BY <1>3, <1>8 DEF PreemptFails
<1>9. CASE AccountTask
  <2>1. op' \in Ops /\ op'.task = op.task /\ op'.pc = "execute" /\ op.pc = "account"
    BY <1>9 DEF AccountTask, Ops
  <2>2. op.gpu \in GPUs /\ Charge(op.task) \in Int /\ op.task \in TaskIds
    BY <2>1, ChargeType
  <2>3. gpus' \in [GPUs -> Usage]
    <3>1. gpus[op.gpu].used + Charge(op.task) \in Int /\ gpus[op.gpu].running + 1 \in Int
      <4>1. gpus[op.gpu].used \in Int /\ gpus[op.gpu].running \in Int
        BY <2>2, UsageType
      <4> QED BY <2>2, <4>1
    <3>2. Recount(op.gpu, gpus[op.gpu].used + Charge(op.task), gpus[op.gpu].running + 1)
            \in [GPUs -> Usage]
      BY <2>2, <3>1, RecountType
    <3> QED BY <1>9, <3>2 DEF AccountTask
  <2>4. tasks' \in [TaskIds -> Request]
    <3>1. tasks' = [tasks EXCEPT ![op.task] = [tasks[op.task] EXCEPT !.gpuReq = op.gpu]]
      BY <1>9 DEF AccountTask
    <3>2. [tasks[op.task] EXCEPT !.gpuReq = op.gpu] \in Request
      <4>1. tasks[op.task] \in Request
        BY <2>2
      <4>2. GPUs \subseteq Int
        OBVIOUS
      <4>3. op.gpu \in Int
        BY <2>2, <4>2
      <4> QED BY <4>1, <4>3 DEF Request
    <3> QED BY <3>1, <3>2
  <2>5. status' \in [TaskIds -> Statuses] /\ runningTasks' \in SUBSET TaskIds
    BY <1>9, <2>2 DEF AccountTask, Statuses
  <2> QED BY <1>9, <2>1, <2>3, <2>4, <2>5 DEF AccountTask
<1>10. ASSUME NEW s \in {"running", "failed"}, Execute(s) PROVE TypeInv'
  <2>1. status' \in [TaskIds -> Statuses]
    BY <1>10 DEF Execute, Statuses
  <2> QED BY <1>10, <2>1, IdleType DEF Execute
<1>11. CASE AccountRelease
  <2>1. op.task \in TaskIds /\ op.pc = "release"
    BY <1>11 DEF AccountRelease
  <2>2. op' \in Ops /\ op'.task = op.task /\ op'.pc = "promote"
    BY <1>11, <<>> \in Seq(TaskIds) DEF AccountRelease, Ops
  <2>3. gpus' \in [GPUs -> Usage]
    <3> DEFINE g == tasks[op.task].gpuReq
    <3>1. CASE g \in registered
      <4>1. g \in GPUs /\ Refund(op.task) \in Int
        BY <2>1, <3>1, ChargeType
      <4>2. /\ AtLeastZero(gpus[g].used - Refund(op.task)) \in Int
            /\ AtLeastZero(gpus[g].running - 1) \in Int
        <5>1. gpus[g].used \in Int /\ gpus[g].running \in Int
          BY <4>1, UsageType
        <5> QED BY <4>1, <5>1 DEF AtLeastZero
      <4>3. gpus' = Recount(g, AtLeastZero(gpus[g].used - Refund(op.task)),
                            AtLeastZero(gpus[g].running - 1))
        BY <1>11, <3>1 DEF AccountRelease
      <4> QED BY <4>1, <4>2, <4>3, RecountType
    <3>2. CASE g \notin registered
      BY <1>11, <3>2 DEF AccountRelease
    <3> QED BY <3>1, <3>2
  <2>4. completedTasks' \in Seq(TaskIds)
    <3>1. Append(completedTasks, op.task) \in Seq(TaskIds)
      BY <2>1
    <3> QED BY <1>11, <3>1, TrimType DEF AccountRelease
  <2> QED BY <1>11, <2>1, <2>2, <2>3, <2>4 DEF AccountRelease
<1>12. CASE PromoteOne
  <2>1. op.scan \in Seq(TaskIds) /\ op.kept \in Seq(TaskIds) /\ op.scan # <<>>
        /\ op.pc = "promote"
    BY <1>12 DEF PromoteOne, Ops
  <2>2. Head(op.scan) \in TaskIds /\ Tail(op.scan) \in Seq(TaskIds)
    BY <2>1
  <2>3. op' \in Ops /\ op'.task = op.task /\ op'.pc = "promote"
    <3> DEFINE t == Head(op.scan)
    <3>1. Append(op.kept, t) \in Seq(TaskIds)
      BY <2>1, <2>2
    <3>2. \/ op' = [op EXCEPT !.scan = Tail(op.scan)]
          \/ op' = [op EXCEPT !.scan = Tail(op.scan), !.kept = Append(op.kept, t)]
      BY <1>12 DEF PromoteOne
    <3> HIDE DEF t
    <3> QED BY <2>1, <2>2, <3>1, <3>2 DEF Ops
  <2>4. status' \in [TaskIds -> Statuses] /\ runningTasks' \in SUBSET TaskIds
    BY <1>12, <2>2 DEF PromoteOne, Statuses
  <2> QED BY <1>12, <2>1, <2>3, <2>4 DEF PromoteOne
<1>13. CASE PromoteEnd
  <2>1. pendingTasks' \in Seq(TaskIds)
    BY <1>13 DEF PromoteEnd, Ops
  <2> QED BY <1>13, <2>1, IdleType DEF PromoteEnd
<1>14. ASSUME NEW t \in TaskIds, ReleaseTask(t) PROVE TypeInv'
  <2>1. t \in 0..MaxTasks
    BY DEF TaskIds
  <2>2. op' \in Ops /\ op'.task = t /\ op'.pc = "release"
    BY <1>14, <2>1, IdleType DEF ReleaseTask, Ops
  <2> QED BY <1>14, <2>2 DEF ReleaseTask, OnlyOp
<1>15. ASSUME NEW t \in TaskIds, CancelTask(t) PROVE TypeInv'
  <2>1. pendingTasks' \in Seq(TaskIds)
    <3>1. PICK i \in DOMAIN pendingTasks :
             pendingTasks' = SubSeq(pendingTasks, 1, i - 1)
                             \o SubSeq(pendingTasks, i + 1, Len(pendingTasks))
      BY <1>15 DEF CancelTask
    <3>2. i \in 1..Len(pendingTasks) /\ Len(pendingTasks) \in Nat
      OBVIOUS
    <3>3. /\ SubSeq(pendingTasks, 1, i - 1) \in Seq(TaskIds)
          /\ SubSeq(pendingTasks, i + 1, Len(pendingTasks)) \in Seq(TaskIds)
      BY <3>2, SubSeqProperties
    <3> QED BY <3>1, <3>3, ConcatProperties
  <2> QED BY <1>15, <2>1 DEF CancelTask
<1>16. ASSUME NEW c \in PreemptConfigs, UpdatePreemptConfig(c) PROVE TypeInv'
  BY <1>16 DEF UpdatePreemptConfig
<1>17. ASSUME NEW g \in Registrations, RegisterGPU(g) PROVE TypeInv'
  <2>1. gpus' \in [GPUs -> Usage] /\ registered' \in SUBSET GPUs
    BY <1>17 DEF RegisterGPU, Usage
  <2> QED BY <1>17, <2>1 DEF RegisterGPU
<1>18. ASSUME NEW g \in GPUs, NEW r \in Reports, UpdateGPUUsage(g, r) PROVE TypeInv'
  <2>1. gpus' \in [GPUs -> Usage]
    BY <1>18 DEF UpdateGPUUsage, Usage
  <2> QED BY <1>18, <2>1 DEF UpdateGPUUsage
<1>19. ASSUME NEW t \in TaskIds, NEW s \in FinalStatuses, ExecutorWritesStatus(t, s)
       PROVE  TypeInv'
  <2>1. status' \in [TaskIds -> Statuses]
    BY <1>19 DEF ExecutorWritesStatus, Statuses
  <2> QED BY <1>19, <2>1 DEF ExecutorWritesStatus
<1>20. CASE UNCHANGED vars
  BY <1>20 DEF vars
<1> QED BY <1>1, <1>2, <1>4, <1>5, <1>6, <1>7, <1>8, <1>9, <1>10, <1>11, <1>12, <1>13,
           <1>14, <1>15, <1>16, <1>17, <1>18, <1>19, <1>20
        DEF Next, Step, CompleteTask

\* Every reachable state of the scheduler, also in the middle of a method, has the
\* types that TypeOK gives.
THEOREM TypeCorrect == Spec => []TypeOK
<1>1. TypeInv => TypeOK
  BY DEF TypeInv
<1> QED BY InitType, StepType, <1>1, PTL DEF Spec

------------------------------------------------------------------------------
(* The VRAM booked on a GPU.                                               *)

\* What every task asks for lies in V.
AsksFrom(V) == \A t \in TaskIds : tasks[t].vram \in V

LEMMA AsksStep ==
    ASSUME NEW V, 0 \in V, VRAMs \subseteq V, TypeInv, AsksFrom(V), [Next]_vars
    PROVE  AsksFrom(V)'
<1> USE DEF AsksFrom, TypeInv, TypeOK, OpOK
<1>1. ASSUME NEW p \in Priorities, NEW v \in VRAMs, NEW q \in GPUReqs, SubmitTask(p, v, q)
      PROVE  AsksFrom(V)'
  BY <1>1 DEF SubmitTask
<1>2. CASE AccountTask
  <2> SUFFICES ASSUME NEW t \in TaskIds PROVE tasks'[t].vram \in V
    OBVIOUS
  <2>1. tasks[t] \in Request /\ tasks[t].vram \in V
    OBVIOUS
  <2>2. tasks'[t] = IF t = op.task THEN [tasks[t] EXCEPT !.gpuReq = op.gpu] ELSE tasks[t]
    BY <1>2 DEF AccountTask
  <2> QED BY <2>1, <2>2 DEF Request
<1>3. CASE UNCHANGED tasks
  BY <1>3
<1> QED BY <1>1, <1>2, <1>3 DEF Next, Step, ScheduleSucceeds, ScheduleFails, Enqueue, OnlyOp,
        PreemptKill, PreemptOther, PreemptCheck, PreemptFails, Execute, ReleaseTask,
        CompleteTask, AccountRelease, PromoteOne, PromoteEnd, CancelTask,
        UpdatePreemptConfig, RegisterGPU, UpdateGPUUsage, ExecutorWritesStatus, vars

\* A step that touches no usage and chooses no GPU.
Quiet == UNCHANGED gpus /\ (op'.pc = "account" => UNCHANGED <<op, tasks>>)

\* The steps that are not quiet.
LEMMA UsageSteps ==
    ASSUME TypeInv, [Next]_vars
    PROVE  \/ Quiet
           \/ \E g \in GPUs : ScheduleSucceeds(g)
           \/ \E v \in TaskIds : PreemptKill(v)
           \/ AccountTask
           \/ AccountRelease
           \/ \E g \in Registrations : RegisterGPU(g)
           \/ \E g \in GPUs, r \in Reports : UpdateGPUUsage(g, r)
<1> USE DEF Quiet, TypeInv, TypeOK
<1>1. ASSUME NEW p \in Priorities, NEW v \in VRAMs, NEW q \in GPUReqs, SubmitTask(p, v, q)
      PROVE  Quiet
  BY <1>1 DEF SubmitTask, Idle
<1>2. ASSUME Enqueue PROVE Quiet
  BY <1>2 DEF Enqueue, Idle
<1>3. CASE ScheduleFails
  BY <1>2, <1>3 DEF ScheduleFails, OnlyOp, Ops
<1>4. ASSUME NEW v \in TaskIds, PreemptOther(v) PROVE Quiet
  BY <1>4 DEF PreemptOther, OnlyOp, Ops
<1>5. CASE PreemptCheck
  BY <1>5 DEF PreemptCheck, OnlyOp, Ops
<1>6. CASE PreemptFails
  BY <1>2, <1>6 DEF PreemptFails
<1>7. ASSUME NEW s \in {"running", "failed"}, Execute(s) PROVE Quiet
  BY <1>7 DEF Execute, Idle
<1>8. ASSUME NEW t \in TaskIds, ReleaseTask(t) PROVE Quiet
  BY <1>8 DEF ReleaseTask, OnlyOp, Idle
<1>9. CASE PromoteOne
  BY <1>9 DEF PromoteOne, Ops
<1>10. CASE PromoteEnd
  BY <1>10 DEF PromoteEnd, Idle
<1>11. ASSUME NEW t \in TaskIds, CancelTask(t) PROVE Quiet
  BY <1>11 DEF CancelTask
<1>12. ASSUME NEW c \in PreemptConfigs, UpdatePreemptConfig(c) PROVE Quiet
  BY <1>12 DEF UpdatePreemptConfig
<1>13. ASSUME NEW t \in TaskIds, NEW s \in FinalStatuses, ExecutorWritesStatus(t, s)
       PROVE  Quiet
  BY <1>13 DEF ExecutorWritesStatus
<1>14. CASE UNCHANGED vars
  BY <1>14 DEF vars
<1> QED BY <1>1, <1>3, <1>4, <1>5, <1>6, <1>7, <1>8, <1>9, <1>10, <1>11, <1>12, <1>13, <1>14
        DEF Next, Step, CompleteTask

LEMMA AtLeastZeroBound ==
    ASSUME NEW a \in Int, NEW b \in Nat
    PROVE  AtLeastZero(a - b) \in Int /\ (AtLeastZero(a - b) <= a \/ AtLeastZero(a - b) = 0)
BY DEF AtLeastZero

\* A release or a preemption of a task that asked for no negative amount lowers the
\* used VRAM of its GPU, or leaves it at zero.
LEMMA ReleasedUsage ==
    ASSUME TypeInv, AsksFrom(Nat), AccountRelease \/ \E v \in TaskIds : PreemptKill(v)
    PROVE  \A h \in GPUs : gpus'[h].used <= gpus[h].used \/ gpus'[h].used = 0
<1> USE SchedulerAssumption DEF TypeInv, TypeOK, OpOK
<1> TAKE h \in GPUs
<1>0. gpus[h].used \in Int
  BY UsageType
<1>1. ASSUME NEW v \in TaskIds, PreemptKill(v), tasks[v].gpuReq \in registered
      PROVE  gpus'[h].used <= gpus[h].used
  <2> DEFINE g == tasks[v].gpuReq
  <2> DEFINE left == gpus[g].used - tasks[v].vram
             n == gpus[g].running - 1
  <2>1. g \in GPUs
    BY <1>1
  <2>2. gpus[g].used \in Int /\ gpus[g].running \in Int
    BY <2>1, UsageType
  <2>3. gpus' = Recount(g, left, n)
    BY <1>1 DEF PreemptKill
  <2>4. left \in Int /\ n \in Int
    <3>1. tasks[v].vram \in Int
      BY ChargeType
    <3> HIDE SchedulerAssumption DEF TypeInv, TypeOK
    <3> QED BY <2>2, <3>1
  <2>5. left <= gpus[g].used
    <3>1. tasks[v].vram \in Nat
      BY DEF AsksFrom
    <3> QED BY <2>2, <3>1
  <2> HIDE DEF g, left, n
  <2>6. gpus'[h].used = IF h = g THEN left ELSE gpus[h].used
    <3>1. Recount(g, left, n)[h].used = IF h = g THEN left ELSE gpus[h].used
      BY DEF Recount
    <3> QED BY <2>3, <3>1
  <2> QED BY <1>0, <2>2, <2>4, <2>5, <2>6
<1>2. ASSUME AccountRelease, tasks[op.task].gpuReq \in registered
      PROVE  gpus'[h].used <= gpus[h].used \/ gpus'[h].used = 0
  <2> DEFINE g == tasks[op.task].gpuReq
             left == AtLeastZero(gpus[g].used - Refund(op.task))
             n == AtLeastZero(gpus[g].running - 1)
  <2>1. g \in GPUs /\ op.task \in TaskIds
    BY <1>2 DEF AccountRelease
  <2>2. Refund(op.task) \in Nat
    <3>1. tasks[op.task].vram \in Nat
      BY <2>1 DEF AsksFrom
    <3> QED BY <3>1 DEF Refund
  <2>3. gpus[g].used \in Int /\ gpus[g].running \in Int
    BY <2>1, UsageType
  <2>4. left \in Int /\ n \in Int /\ (left <= gpus[g].used \/ left = 0)
    BY <2>2, <2>3, AtLeastZeroBound
  <2>5. gpus' = Recount(g, left, n)
    BY <1>2 DEF AccountRelease
  <2> HIDE DEF g, left, n
  <2>6. gpus'[h].used = IF h = g THEN left ELSE gpus[h].used
    <3>1. Recount(g, left, n)[h].used = IF h = g THEN left ELSE gpus[h].used
      BY DEF Recount
    <3> QED BY <2>5, <3>1
  <2> QED BY <1>0, <2>4, <2>6
<1>3. CASE gpus' = gpus
  BY <1>0, <1>3
<1> QED BY <1>1, <1>2, <1>3 DEF AccountRelease, PreemptKill

(* Booking without a monitor.  What makes BookedWithinCapacity inductive   *)
(* is that the check of scheduleLocked still holds when the task is booked.*)
CheckHolds == op.pc = "account" => FreeVRAM(op.gpu) >= Charge(op.task)

BookedInv == TypeInv /\ AsksFrom(Nat) /\ BookedWithinCapacity /\ CheckHolds

LEMMA BookedStep ==
    ASSUME Reports = {}, VRAMs \subseteq Nat, BookedInv, [Next]_vars
    PROVE  BookedInv'
<1> USE SchedulerAssumption DEF BookedInv
<1>1. TypeInv' /\ AsksFrom(Nat)'
  BY StepType, AsksStep
<1>2. \A g \in GPUs : gpus[g].used \in Int /\ Capacity[g] \in Nat
  BY UsageType DEF TypeInv, TypeOK
<1>3. CASE Quiet
  <2>1. BookedWithinCapacity'
    BY <1>3 DEF Quiet, BookedWithinCapacity
  <2>2. CheckHolds'
    BY <1>3 DEF Quiet, CheckHolds, FreeVRAM, Charge
  <2> QED BY <1>1, <2>1, <2>2
<1>4. ASSUME NEW g \in GPUs, ScheduleSucceeds(g) PROVE BookedInv'
  <2>1. UNCHANGED <<gpus, tasks>> /\ op'.gpu = g /\ op'.task = op.task
    BY <1>4 DEF ScheduleSucceeds, OnlyOp, TypeInv, TypeOK, Ops
  <2>2. FreeVRAM(g) >= Charge(op.task)
    BY <1>4 DEF ScheduleSucceeds, Eligible
  <2> QED BY <1>1, <2>1, <2>2 DEF BookedWithinCapacity, CheckHolds, FreeVRAM, Charge
<1>5. CASE AccountRelease \/ \E v \in TaskIds : PreemptKill(v)
  <2>1. \A h \in GPUs : gpus'[h].used <= gpus[h].used \/ gpus'[h].used = 0
    BY <1>5, ReleasedUsage
  <2>2. \A h \in GPUs : gpus'[h].used \in Int
    BY <1>1 DEF TypeInv, TypeOK, Usage
  <2>3. BookedWithinCapacity'
    BY <1>2, <2>1, <2>2 DEF BookedWithinCapacity
  <2>4. op'.pc # "account"
    BY <1>5 DEF AccountRelease, PreemptKill, TypeInv, TypeOK, Ops
  <2> QED BY <1>1, <2>3, <2>4 DEF CheckHolds
<1>6. CASE AccountTask
  <2>1. op.pc = "account" /\ op.gpu \in GPUs /\ op.task \in TaskIds
    BY <1>6 DEF AccountTask, TypeInv, OpOK
  <2>2. Charge(op.task) \in Int
    BY <2>1, ChargeType DEF TypeInv, TypeOK
  <2> DEFINE booked == gpus[op.gpu].used + Charge(op.task)
             n == gpus[op.gpu].running + 1
  <2>3. booked \in Int /\ n \in Int
    <3>1. gpus[op.gpu].used \in Int /\ gpus[op.gpu].running \in Int
      BY <2>1, UsageType DEF TypeInv, TypeOK
    <3> QED BY <2>2, <3>1
  <2>4. booked <= Capacity[op.gpu]
    <3>1. gpus[op.gpu].used \in Int /\ Capacity[op.gpu] \in Nat
      BY <1>2, <2>1
    <3>2. Capacity[op.gpu] - gpus[op.gpu].used >= Charge(op.task)
      BY <2>1 DEF CheckHolds, FreeVRAM
    <3> HIDE SchedulerAssumption DEF BookedInv
    <3> QED BY <2>2, <3>1, <3>2
  <2>5. gpus' = Recount(op.gpu, booked, n)
    BY <1>6 DEF AccountTask
  <2> HIDE DEF booked, n
  <2>6. \A h \in GPUs : gpus'[h].used = IF h = op.gpu THEN booked ELSE gpus[h].used
    <3>1. gpus \in [GPUs -> Usage]
      BY DEF TypeInv, TypeOK
    <3> QED BY <2>5, <3>1 DEF Recount
  <2>7. BookedWithinCapacity'
    BY <2>1, <2>4, <2>6 DEF BookedWithinCapacity
  <2>8. op'.pc # "account"
    BY <1>6 DEF AccountTask, TypeInv, TypeOK, Ops
  <2> QED BY <1>1, <2>7, <2>8 DEF CheckHolds
<1>7. ASSUME NEW g \in Registrations, RegisterGPU(g) PROVE BookedInv'
  <2>1. \A h \in GPUs : gpus'[h].used = gpus[h].used \/ gpus'[h].used = 0
    BY <1>7 DEF RegisterGPU, TypeInv, TypeOK
  <2>2. BookedWithinCapacity'
    <3>1. \A h \in GPUs : gpus[h].used <= Capacity[h]
      BY DEF BookedWithinCapacity
    <3> HIDE SchedulerAssumption DEF BookedInv
    <3>2. \A h \in GPUs : gpus'[h].used <= Capacity[h]
      BY <1>2, <2>1, <3>1
    <3> QED BY <3>2 DEF BookedWithinCapacity
  <2> QED BY <1>1, <1>7, <2>2 DEF RegisterGPU, CheckHolds
<1> QED BY <1>3, <1>4, <1>5, <1>6, <1>7, UsageSteps

\* While no monitor reports and no request asks for a negative amount, the VRAM booked
\* on a GPU is within its capacity, whatever the tasks, GPUs and preemptions.
THEOREM CapacityRespected ==
    ASSUME Reports = {}, VRAMs \subseteq Nat
    PROVE  Spec => []BookedWithinCapacity
<1>1. Init => BookedInv
  <2> SUFFICES ASSUME Init PROVE BookedInv
    OBVIOUS
  <2>1. TypeInv
    BY InitType
  <2> QED BY <2>1, SchedulerAssumption
        DEF Init, Idle, BookedInv, AsksFrom, BookedWithinCapacity, CheckHolds
<1>2. BookedInv /\ [Next]_vars => BookedInv'
  BY BookedStep
<1>3. BookedInv => BookedWithinCapacity
  BY DEF BookedInv
<1> QED BY <1>1, <1>2, <1>3, PTL DEF Spec

(* With a monitor the check may be stale when the task is booked: the GPU  *)
(* is then known only not to have been overbooked before.                  *)
NotOverbooked == op.pc = "account" => FreeVRAM(op.gpu) >= 0

\* The amounts a task may have in its vram field.
Asked == VRAMs \cup {0}

OvershootInv == TypeInv /\ AsksFrom(Asked) /\ OvershootBounded /\ NotOverbooked

\* A used VRAM of n on g stays within one request of the capacity.
Tolerable(g, n) == \E v \in VRAMs \cup {DefaultVRAM} : n <= Capacity[g] + v

\* Anything below a tolerable amount is tolerable, and so is all that g has.
LEMMA TolerateLess ==
    ASSUME VRAMs \subseteq Nat, NEW g \in GPUs, NEW n \in Int, NEW m \in Int,
           (m <= n /\ Tolerable(g, n)) \/ m <= Capacity[g]
    PROVE  Tolerable(g, m)
<1> USE SchedulerAssumption
<1>1. CASE m <= Capacity[g]
  <2>1. m <= Capacity[g] + DefaultVRAM
    BY <1>1
  <2> QED BY <2>1 DEF Tolerable
<1>2. CASE m <= n /\ Tolerable(g, n)
  <2>1. PICK v \in VRAMs \cup {DefaultVRAM} : n <= Capacity[g] + v
    BY <1>2 DEF Tolerable
  <2>2. m <= Capacity[g] + v
    BY <1>2, <2>1
  <2> QED BY <2>2 DEF Tolerable
<1> QED BY <1>1, <1>2

LEMMA ChargeCases ==
    ASSUME NEW t \in TaskIds, tasks[t].vram \in Nat
    PROVE  /\ Charge(t) \in Nat
           /\ Charge(t) = DefaultVRAM \/ (Charge(t) = tasks[t].vram /\ tasks[t].vram # 0)
<1>1. DefaultVRAM \in Nat
  BY SchedulerAssumption
<1> QED BY <1>1 DEF Charge

LEMMA ChargeAsked ==
    ASSUME VRAMs \subseteq Nat, AsksFrom(Asked), NEW t \in TaskIds
    PROVE  Charge(t) \in Nat /\ Charge(t) \in VRAMs \cup {DefaultVRAM}
<1>1. tasks[t].vram \in VRAMs \cup {0}
  BY DEF AsksFrom, Asked
<1>2. tasks[t].vram \in Nat
  <2>1. \A x \in VRAMs \cup {0} : x \in Nat
    OBVIOUS
  <2> QED BY <1>1, <2>1
<1>3. /\ Charge(t) \in Nat
      /\ Charge(t) = DefaultVRAM \/ (Charge(t) = tasks[t].vram /\ tasks[t].vram # 0)
  BY <1>2, ChargeCases
<1> QED BY <1>1, <1>3

LEMMA OvershootStep ==
    ASSUME VRAMs \subseteq Nat,
           \A r \in Reports, g \in GPUs : r.used <= Capacity[g],
           OvershootInv, [Next]_vars
    PROVE  OvershootInv'
<1> USE SchedulerAssumption DEF OvershootInv
<1>1. TypeInv' /\ AsksFrom(Asked)'
  <2>1. 0 \in Asked /\ VRAMs \subseteq Asked
    BY DEF Asked
  <2> QED BY <2>1, StepType, AsksStep
<1>2. \A g \in GPUs : gpus[g].used \in Int /\ gpus'[g].used \in Int
  BY <1>1 DEF TypeInv, TypeOK, Usage
<1>3. \A g \in GPUs : Tolerable(g, gpus[g].used)
  BY DEF OvershootBounded, Tolerable
<1>4. ASSUME \A g \in GPUs : \/ gpus'[g].used <= gpus[g].used
                             \/ gpus'[g].used <= Capacity[g]
      PROVE  OvershootBounded'
  <2>1. \A g \in GPUs : Tolerable(g, gpus'[g].used)
    BY <1>2, <1>3, <1>4, TolerateLess
  <2> QED BY <2>1 DEF OvershootBounded, Tolerable
<1>5. CASE Quiet
  <2>1. OvershootBounded'
    BY <1>5 DEF Quiet, OvershootBounded
  <2>2. NotOverbooked'
    BY <1>5 DEF Quiet, NotOverbooked, FreeVRAM
  <2> QED BY <1>1, <2>1, <2>2
<1>6. \A t \in TaskIds : Charge(t) \in Nat /\ Charge(t) \in VRAMs \cup {DefaultVRAM}
  BY ChargeAsked
<1>7. ASSUME NEW g \in GPUs, ScheduleSucceeds(g) PROVE OvershootInv'
  <2>1. UNCHANGED <<gpus, tasks>> /\ op'.gpu = g /\ op.task \in TaskIds
    BY <1>7 DEF ScheduleSucceeds, OnlyOp, TypeInv, TypeOK, OpOK, Ops
  <2>2. Charge(op.task) \in Nat
    BY <1>6, <2>1
  <2>3. FreeVRAM(g) >= Charge(op.task) /\ FreeVRAM(g) \in Int
    BY <1>2, <1>7 DEF ScheduleSucceeds, Eligible, FreeVRAM
  <2>4. FreeVRAM(g) >= 0
    BY <2>2, <2>3
  <2> QED BY <1>1, <2>1, <2>4 DEF OvershootBounded, NotOverbooked, FreeVRAM
<1>8. CASE AccountRelease \/ \E v \in TaskIds : PreemptKill(v)
  <2>1. AsksFrom(Nat)
    <3>1. Asked \subseteq Nat
      BY DEF Asked
    <3> QED BY <3>1 DEF AsksFrom
  <2>2. \A h \in GPUs : gpus'[h].used <= gpus[h].used \/ gpus'[h].used = 0
    BY <1>8, <2>1, ReleasedUsage
  <2>3. \A h \in GPUs : gpus'[h].used = 0 => gpus'[h].used <= Capacity[h]
    <3>1. \A h \in GPUs : Capacity[h] \in Nat
      OBVIOUS
    <3> HIDE SchedulerAssumption DEF OvershootInv
    <3> QED BY <3>1
  <2>4. OvershootBounded'
    BY <1>4, <2>2, <2>3
  <2>5. op'.pc # "account"
    BY <1>8 DEF AccountRelease, PreemptKill, TypeInv, TypeOK, Ops
  <2> QED BY <1>1, <2>4, <2>5 DEF NotOverbooked
<1>9. CASE AccountTask
  <2> DEFINE booked == gpus[op.gpu].used + Charge(op.task)
             n == gpus[op.gpu].running + 1
  <2>1. op.pc = "account" /\ op.gpu \in GPUs /\ op.task \in TaskIds
    BY <1>9 DEF AccountTask, TypeInv, OpOK
  <2>2. Charge(op.task) \in Nat /\ Charge(op.task) \in VRAMs \cup {DefaultVRAM}
    BY <1>6, <2>1
  <2>3. booked <= Capacity[op.gpu] + Charge(op.task)
    <3>1. gpus[op.gpu].used \in Int /\ Capacity[op.gpu] \in Nat
      BY <1>2, <2>1
    <3>2. Capacity[op.gpu] - gpus[op.gpu].used >= 0
      BY <2>1 DEF NotOverbooked, FreeVRAM
    <3> HIDE SchedulerAssumption DEF OvershootInv
    <3> QED BY <2>2, <3>1, <3>2
  <2>4. gpus' = Recount(op.gpu, booked, n)
    BY <1>9 DEF AccountTask
  <2> HIDE DEF booked, n
  <2>5. \A h \in GPUs : gpus'[h].used = IF h = op.gpu THEN booked ELSE gpus[h].used
    <3>1. gpus \in [GPUs -> Usage]
      BY DEF TypeInv, TypeOK
    <3> QED BY <2>4, <3>1 DEF Recount
  <2>6. OvershootBounded'
    BY <2>1, <2>2, <2>3, <2>5 DEF OvershootBounded
  <2>7. op'.pc # "account"
    BY <1>9 DEF AccountTask, TypeInv, TypeOK, Ops
  <2> QED BY <1>1, <2>6, <2>7 DEF NotOverbooked
<1>10. ASSUME NEW g \in Registrations, RegisterGPU(g) PROVE OvershootInv'
  <2>1. \A h \in GPUs : gpus'[h].used = gpus[h].used \/ gpus'[h].used = 0
    BY <1>10 DEF RegisterGPU, TypeInv, TypeOK
  <2>2. \A h \in GPUs : gpus'[h].used <= gpus[h].used \/ gpus'[h].used <= Capacity[h]
    BY <1>2, <2>1
  <2>3. OvershootBounded'
    BY <1>4, <2>2
  <2> QED BY <1>1, <1>10, <2>3 DEF RegisterGPU, NotOverbooked
<1>11. ASSUME NEW g \in GPUs, NEW r \in Reports, UpdateGPUUsage(g, r)
       PROVE  OvershootInv'
  <2>1. /\ op' = op
        /\ \A h \in GPUs : \/ gpus'[h].used = gpus[h].used
                           \/ gpus'[h].used = r.used /\ h = g
    BY <1>11 DEF UpdateGPUUsage, TypeInv, TypeOK
  <2>2. r.used <= Capacity[g]
    OBVIOUS
  <2>3. \A h \in GPUs : gpus'[h].used <= gpus[h].used \/ gpus'[h].used <= Capacity[h]
    BY <1>2, <2>1, <2>2
  <2>4. OvershootBounded'
    BY <1>4, <2>3
  <2>5. NotOverbooked'
    <3> SUFFICES ASSUME op.pc = "account" PROVE Capacity[op.gpu] - gpus'[op.gpu].used >= 0
      BY <2>1 DEF NotOverbooked, FreeVRAM
    <3>1. op.gpu \in GPUs
      BY DEF TypeInv, OpOK
    <3>2. Capacity[op.gpu] - gpus[op.gpu].used >= 0
      BY DEF NotOverbooked, FreeVRAM
    <3>3. Capacity[op.gpu] \in Nat /\ gpus[op.gpu].used \in Int /\ gpus'[op.gpu].used \in Int
      BY <1>2, <3>1
    <3>4. gpus'[op.gpu].used <= gpus[op.gpu].used \/ gpus'[op.gpu].used <= Capacity[op.gpu]
      BY <2>3, <3>1
    <3> HIDE SchedulerAssumption DEF OvershootInv
    <3> QED BY <3>2, <3>3, <3>4
  <2> QED BY <1>1, <2>4, <2>5
<1> QED BY <1>5, <1>7, <1>8, <1>9, <1>10, <1>11, UsageSteps

\* However the monitor races the scheduler, if it never reports more than a GPU has,
\* the VRAM booked on a GPU exceeds its capacity by at most one request.
THEOREM OvershootIsBounded ==
    ASSUME VRAMs \subseteq Nat, \A r \in Reports, g \in GPUs : r.used <= Capacity[g]
    PROVE  Spec => []OvershootBounded
<1>1. Init => OvershootInv
  <2> SUFFICES ASSUME Init PROVE OvershootInv
    OBVIOUS
  <2>1. TypeInv
    BY InitType
  <2>2. OvershootBounded
    BY SchedulerAssumption DEF Init, OvershootBounded
  <2> QED BY <2>1, <2>2, SchedulerAssumption
        DEF Init, Idle, OvershootInv, AsksFrom, Asked, NotOverbooked
<1>2. OvershootInv /\ [Next]_vars => OvershootInv'
  BY OvershootStep
<1>3. OvershootInv => OvershootBounded
  BY DEF OvershootInv
<1> QED BY <1>1, <1>2, <1>3, PTL DEF Spec

------------------------------------------------------------------------------
(* The scan of the pending slice after a release.                          *)

\* A task was passed over: then no GPU has room for the default size.
KeptForWantOfRoom == op.pc = "promote" /\ op.kept # <<>> => Eligible(DefaultVRAM) = {}

\* A step that ends inside the scan starts it, goes on with it, or leaves it alone.
LEMMA ScanSteps ==
    ASSUME Reports = {}, TypeInv, [Next]_vars, op'.pc = "promote"
    PROVE  AccountRelease \/ PromoteOne \/ UNCHANGED <<op, gpus, registered>>
<1> USE DEF TypeInv, TypeOK, Ops
<1>1. CASE \/ \E p \in Priorities, v \in VRAMs, q \in GPUReqs : SubmitTask(p, v, q)
           \/ \E t \in TaskIds : ReleaseTask(t) \/ CompleteTask(t)
           \/ \E g \in Registrations : RegisterGPU(g)
  BY <1>1 DEF SubmitTask, ReleaseTask, CompleteTask, RegisterGPU, Idle
<1>2. CASE \E g \in GPUs : ScheduleSucceeds(g)
  BY <1>2 DEF ScheduleSucceeds
<1>3. CASE ScheduleFails \/ PreemptFails
  <2>1. Idle.pc = "idle"
    BY IdleType
  <2> QED BY <1>3, <2>1 DEF ScheduleFails, PreemptFails, Enqueue
<1>4. CASE \E v \in TaskIds : PreemptKill(v) \/ PreemptOther(v)
  BY <1>4 DEF PreemptKill, PreemptOther
<1>5. CASE PreemptCheck \/ AccountTask \/ PromoteEnd \/ \E s \in {"running", "failed"} : Execute(s)
  BY <1>5 DEF PreemptCheck, AccountTask, PromoteEnd, Execute, Idle
<1>6. CASE \/ \E t \in TaskIds : CancelTask(t)
           \/ \E c \in PreemptConfigs : UpdatePreemptConfig(c)
           \/ \E t \in TaskIds, s \in FinalStatuses : ExecutorWritesStatus(t, s)
           \/ UNCHANGED vars
  BY <1>6 DEF CancelTask, UpdatePreemptConfig, ExecutorWritesStatus, vars
<1> QED BY <1>1, <1>2, <1>3, <1>4, <1>5, <1>6 DEF Next, Step

LEMMA ScanInv ==
    ASSUME Reports = {}, TypeInv, KeptForWantOfRoom, [Next]_vars
    PROVE  KeptForWantOfRoom'
<1> SUFFICES ASSUME op'.pc = "promote", op'.kept # <<>> PROVE Eligible(DefaultVRAM)' = {}
  BY DEF KeptForWantOfRoom
<1> USE DEF TypeInv, TypeOK, Ops
<1>1. op'.kept = <<>> \/ ~AccountRelease
  BY DEF AccountRelease
<1>2. CASE PromoteOne
  <2>1. Eligible(DefaultVRAM)' = Eligible(DefaultVRAM)
    BY <1>2 DEF PromoteOne, Eligible, FreeVRAM
  <2>2. Eligible(DefaultVRAM) # {} => op'.kept = op.kept /\ op.pc = "promote"
    BY <1>2 DEF PromoteOne
  <2> QED BY <2>1, <2>2 DEF KeptForWantOfRoom
<1>3. CASE UNCHANGED <<op, gpus, registered>>
  BY <1>3 DEF KeptForWantOfRoom, Eligible, FreeVRAM
<1> QED BY <1>1, <1>2, <1>3, ScanSteps

\* Only the end of the scan gives the mutex back from inside it.
LEMMA ScanEnds ==
    ASSUME TypeInv, [Next]_vars, op.pc = "promote", op'.pc = "idle"
    PROVE  PromoteEnd
<1> USE DEF TypeInv, TypeOK, Ops
<1>1. CASE Step
  BY <1>1 DEF Step, ScheduleSucceeds, ScheduleFails, PreemptKill, PreemptOther, PreemptCheck,
              PreemptFails, AccountTask, Execute, AccountRelease, PromoteOne
<1>2. CASE ~Step
  BY <1>2 DEF Next, SubmitTask, ReleaseTask, CompleteTask, CancelTask, UpdatePreemptConfig,
              RegisterGPU, UpdateGPUUsage, ExecutorWritesStatus, vars
<1> QED BY <1>1, <1>2

\* trySchedulePendingLocked leaves a task waiting only if no GPU has room for the default
\* size, for any queue and any GPUs, as long as no monitor reports in between.
THEOREM ReleaseDrainsQueue ==
    ASSUME Reports = {}
    PROVE  Spec => QueueDrains
<1> DEFINE Inv == TypeInv /\ KeptForWantOfRoom
<1>1. Init => Inv
  BY InitType DEF Init, Idle, KeptForWantOfRoom
<1>2. Inv /\ [Next]_vars => Inv'
  BY StepType, ScanInv
<1>3. Inv /\ [Next]_vars
        => [op.pc = "promote" /\ op'.pc = "idle" /\ pendingTasks' # <<>>
              => Eligible(DefaultVRAM) = {}]_vars
  <2> SUFFICES ASSUME Inv, [Next]_vars, op.pc = "promote", op'.pc = "idle", pendingTasks' # <<>>
               PROVE  Eligible(DefaultVRAM) = {}
    OBVIOUS
  <2>1. pendingTasks' = op.kept
    BY ScanEnds DEF PromoteEnd
  <2> QED BY <2>1 DEF KeptForWantOfRoom
<1> QED BY <1>1, <1>2, <1>3, PTL DEF Spec, QueueDrains

------------------------------------------------------------------------------
(* The books: Scheduler implements TaskLifecycle.                          *)

\* What a method remembers still holds when it uses it: the task that is submitted is
\* the last one, the one that is released runs, and so do those it may preempt.
OpMatches ==
    /\ InFlight => op.task = taskCounter
    /\ op.pc = "release" => op.task \in runningTasks
    /\ op.pc \in {"preempt", "check"} => op.victims \subseteq runningTasks

LinkInv == TypeInv /\ OpMatches

\* LinkInv is inductive.
LEMMA LinkStep == LinkInv /\ [Next]_vars => LinkInv'
<1> SUFFICES ASSUME LinkInv, [Next]_vars PROVE OpMatches'
  BY StepType DEF LinkInv
<1> USE DEF LinkInv, TypeInv, TypeOK, Ops, OpMatches, InFlight
<1>1. ASSUME NEW p \in Priorities, NEW v \in VRAMs, NEW q \in GPUReqs, SubmitTask(p, v, q)
      PROVE  OpMatches'
  BY <1>1 DEF SubmitTask, Idle
<1>2. ASSUME Enqueue PROVE OpMatches'
  BY <1>2 DEF Enqueue, Idle
<1>3. CASE ScheduleFails
  <2>1. CASE Enqueue
    BY <1>2, <2>1
  <2>2. CASE OnlyOp /\ op' = [op EXCEPT !.pc = "preempt", !.victims = Preemptable(op.task)]
    <3>1. Preemptable(op.task) \subseteq runningTasks
      BY DEF Preemptable
    <3> QED BY <1>3, <2>2, <3>1 DEF ScheduleFails, OnlyOp
  <2> QED BY <1>3, <2>1, <2>2 DEF ScheduleFails
<1>4. ASSUME NEW g \in GPUs, ScheduleSucceeds(g) PROVE OpMatches'
  BY <1>4 DEF ScheduleSucceeds, OnlyOp
<1>5. ASSUME NEW v \in TaskIds, PreemptKill(v) PROVE OpMatches'
  <2>1. /\ op.pc = "preempt" /\ op' = [op EXCEPT !.pc = "check", !.victims = op.victims \ {v}]
        /\ runningTasks' = runningTasks \ {v} /\ taskCounter' = taskCounter
    BY <1>5 DEF PreemptKill
  <2> QED BY <2>1
<1>6. ASSUME NEW v \in TaskIds, PreemptOther(v) PROVE OpMatches'
  BY <1>6 DEF PreemptOther, OnlyOp
<1>7. CASE PreemptCheck
  BY <1>7 DEF PreemptCheck, OnlyOp
<1>8. CASE PreemptFails
  BY <1>2, <1>8 DEF PreemptFails
<1>9. CASE AccountTask \/ AccountRelease
  <2>1. op'.pc \in {"execute", "promote"}
    BY <1>9 DEF AccountTask, AccountRelease
  <2> QED BY <2>1
<1>10. CASE PromoteOne
  <2>1. op.pc = "promote" /\ op'.pc = op.pc
    BY <1>10 DEF PromoteOne
  <2> QED BY <2>1
<1>11. CASE PromoteEnd \/ \E s \in {"running", "failed"} : Execute(s)
  <2>1. op'.pc = "idle"
    BY <1>11, IdleType DEF PromoteEnd, Execute
  <2> QED BY <2>1
<1>12. ASSUME NEW t \in TaskIds, ReleaseTask(t) PROVE OpMatches'
  BY <1>12 DEF ReleaseTask, OnlyOp, Idle
<1>13. CASE UNCHANGED <<op, taskCounter, runningTasks>>
  BY <1>13
<1> QED BY <1>1, <1>3, <1>4, <1>5, <1>6, <1>7, <1>8, <1>9, <1>10, <1>11,
       <1>12, <1>13
        DEF Next, Step, CompleteTask, CancelTask, UpdatePreemptConfig, RegisterGPU,
            UpdateGPUUsage, ExecutorWritesStatus, vars

\* The value that stands for the abstract variable last.
LastAdmitted == IF InFlight THEN taskCounter - 1 ELSE taskCounter

\* A step that moves no task between the books.
Unmoved == UNCHANGED <<LastAdmitted, Waiting, runningTasks, completedTasks, Preempted>>

\* The steps that do, and what they do to the slices.
LEMMA MoveSteps ==
    ASSUME LinkInv, [Next]_vars
    PROVE  \/ Unmoved
           \/ Enqueue /\ op.pc \in {"schedule", "retry", "preempt"}
           \/ \E v \in TaskIds : PreemptKill(v)
           \/ AccountTask
           \/ AccountRelease
           \/ PromoteOne
           \/ \E t \in TaskIds : CancelTask(t)
<1> USE DEF Unmoved, LastAdmitted, InFlight, Waiting, LinkInv, TypeInv, TypeOK, Ops
<1>1. ASSUME NEW p \in Priorities, NEW v \in VRAMs, NEW q \in GPUReqs, SubmitTask(p, v, q)
      PROVE  Unmoved
  BY <1>1, taskCounter + 1 - 1 = taskCounter DEF SubmitTask, Idle, Preempted
<1>2. CASE ScheduleFails
  <2>1. CASE ~Enqueue
    <3>1. op.pc = "schedule" /\ op'.pc = "preempt" /\ OnlyOp
      BY <1>2, <2>1 DEF ScheduleFails
    <3> QED BY <3>1 DEF OnlyOp, Preempted
  <2> QED BY <1>2, <2>1 DEF ScheduleFails
<1>3. CASE PreemptFails
  BY <1>3 DEF PreemptFails
<1>4. CASE PreemptCheck \/ (\E g \in GPUs : ScheduleSucceeds(g))
           \/ \E v \in TaskIds : PreemptOther(v)
  <2>1. /\ op.pc \in {"schedule", "retry", "preempt", "check"}
        /\ op'.pc \in {"account", "retry", "preempt", "check"} /\ OnlyOp
    BY <1>4 DEF PreemptCheck, ScheduleSucceeds, PreemptOther
  <2> QED BY <2>1 DEF OnlyOp, Preempted
<1>5. CASE \E s \in {"running", "failed"} : Execute(s)
  BY <1>5 DEF Execute, Idle, Preempted
<1>6. ASSUME NEW t \in TaskIds, ReleaseTask(t) PROVE Unmoved
  BY <1>6 DEF ReleaseTask, OnlyOp, Idle, Preempted
<1>7. CASE PromoteEnd
  <2>1. op.kept \o op.scan = op.kept
    BY <1>7, ConcatEmptySeq DEF PromoteEnd
  <2> QED BY <1>7, <2>1 DEF PromoteEnd, Idle, Preempted
<1>8. CASE \/ \E c \in PreemptConfigs : UpdatePreemptConfig(c)
           \/ \E g \in Registrations : RegisterGPU(g)
           \/ \E g \in GPUs, r \in Reports : UpdateGPUUsage(g, r)
           \/ \E t \in TaskIds, s \in FinalStatuses : ExecutorWritesStatus(t, s)
           \/ UNCHANGED vars
  BY <1>8 DEF UpdatePreemptConfig, RegisterGPU, UpdateGPUUsage, ExecutorWritesStatus, vars,
              Preempted
<1> QED BY <1>1, <1>2, <1>3, <1>4, <1>5, <1>6, <1>7, <1>8 DEF Next, Step, CompleteTask

\* What the two slices of a scan are together, before and after one of its steps.
LEMMA ScanMoves ==
    ASSUME TypeInv, PromoteOne
    PROVE  LET w == op.kept \o op.scan
               i == Len(op.kept) + 1
           IN  /\ i \in DOMAIN w /\ w[i] = Head(op.scan)
               /\ Append(op.kept, Head(op.scan)) \o Tail(op.scan) = w
               /\ op.kept \o Tail(op.scan) = Drop(w, i)
<1>1. op.kept \in Seq(TaskIds) /\ op.scan \in Seq(TaskIds) /\ op.scan # <<>>
  BY DEF TypeInv, TypeOK, Ops, PromoteOne
<1>2. Append(op.kept, Head(op.scan)) \o Tail(op.scan) = op.kept \o op.scan
  BY <1>1, HandOver
<1> QED BY <1>1, <1>2, DropMiddle

(* What the steps that move a task do to the books, in the words of        *)
(* TaskLifecycle.                                                          *)

\* A task that finds no GPU is admitted to the queue.
LEMMA EnqueueAdmits ==
    ASSUME LinkInv, Enqueue, op.pc \in {"schedule", "retry", "preempt"}
    PROVE  Lifecycle!Admit
<1> USE DEF LinkInv, TypeInv, TypeOK, OpMatches
<1>1. op.task = taskCounter /\ LastAdmitted = taskCounter - 1 /\ taskCounter \in Int
  BY DEF InFlight, LastAdmitted
<1>2. op'.pc = "idle" /\ taskCounter' = taskCounter
  BY IdleType DEF Enqueue
<1>3. LastAdmitted' = LastAdmitted + 1 /\ op.task = LastAdmitted + 1
  BY <1>1, <1>2 DEF InFlight, LastAdmitted
<1>4. Waiting' = Append(Waiting, op.task)
  BY <1>2 DEF Enqueue, Waiting
<1>5. UNCHANGED <<runningTasks, completedTasks, Preempted>>
  BY DEF Enqueue, Preempted
<1> QED BY <1>3, <1>4, <1>5 DEF Lifecycle!Admit, LastAdmitted

\* A task that is booked on a GPU is admitted to the running tasks.
LEMMA AccountAdmits == ASSUME LinkInv, AccountTask PROVE Lifecycle!Admit
<1> USE DEF LinkInv, TypeInv, TypeOK, OpMatches
<1>1. op.task = taskCounter /\ LastAdmitted = taskCounter - 1 /\ taskCounter \in Int
  BY DEF InFlight, LastAdmitted, AccountTask
<1>2. op.pc = "account" /\ op'.pc = "execute" /\ taskCounter' = taskCounter
  BY DEF AccountTask, Ops
<1>3. LastAdmitted' = LastAdmitted + 1 /\ op.task = LastAdmitted + 1
  BY <1>1, <1>2 DEF InFlight, LastAdmitted
<1>4. UNCHANGED <<Waiting, completedTasks, Preempted>>
  BY <1>2 DEF AccountTask, Waiting, Preempted
<1>5. runningTasks' = runningTasks \cup {op.task}
  BY DEF AccountTask
<1> QED BY <1>3, <1>4, <1>5 DEF Lifecycle!Admit, LastAdmitted

\* A kill takes a running task.
LEMMA KillPreempts ==
    ASSUME LinkInv, NEW v \in TaskIds, PreemptKill(v)
    PROVE  v \in runningTasks /\ Lifecycle!Preempt(v)
<1> USE DEF LinkInv, TypeInv, TypeOK
<1>1. op.pc = "preempt" /\ op'.pc = "check" /\ v \in op.victims /\ taskCounter' = taskCounter
  BY DEF PreemptKill, Ops, LeastImportant
<1>2. v \in runningTasks
  BY <1>1 DEF OpMatches
<1>3. UNCHANGED <<LastAdmitted, Waiting, completedTasks>>
  BY <1>1 DEF PreemptKill, LastAdmitted, InFlight, Waiting
<1>4. Preempted' = Preempted \cup {v}
  <2> DEFINE r == [preemptor |-> op.task, preempted |-> v, gpu |-> tasks[v].gpuReq]
             h == preemptHistory
  <2>1. preemptHistory' = Append(h, r) /\ h \in Seq(PreemptRecord) /\ r.preempted = v
    BY DEF PreemptKill
  <2>2. r \in PreemptRecord
    BY <1>1 DEF PreemptRecord, Request, OpOK
  <2> HIDE DEF r, h
  <2>3. /\ DOMAIN Append(h, r) = 1..(Len(h) + 1) /\ DOMAIN h = 1..Len(h) /\ Len(h) \in Nat
        /\ \A i \in 1..Len(h) : Append(h, r)[i] = h[i]
        /\ Append(h, r)[Len(h) + 1] = r
    BY <2>1, <2>2, AppendProperties
  <2>4. {Append(h, r)[i].preempted : i \in DOMAIN Append(h, r)}
          = {h[i].preempted : i \in DOMAIN h} \cup {v}
    BY <2>1, <2>3
  <2> QED BY <2>1, <2>4 DEF Preempted, h
<1>5. runningTasks' = runningTasks \ {v}
  BY DEF PreemptKill
<1> QED BY <1>2, <1>3, <1>4, <1>5 DEF Lifecycle!Preempt, LastAdmitted

\* A release finishes a running task; the scan it starts holds the whole queue.
LEMMA ReleaseFinishes ==
    ASSUME LinkInv, AccountRelease
    PROVE  op.task \in runningTasks /\ Lifecycle!Finish(op.task)
<1> USE DEF LinkInv, TypeInv, TypeOK
<1>1. op.pc = "release" /\ op'.pc = "promote" /\ op'.kept = <<>> /\ op'.scan = pendingTasks
      /\ taskCounter' = taskCounter
  BY DEF AccountRelease, Ops
<1>2. op.task \in runningTasks
  BY <1>1 DEF OpMatches
<1>3. UNCHANGED <<LastAdmitted, Waiting, Preempted>>
  <2>1. <<>> \o pendingTasks = pendingTasks
    BY ConcatEmptySeq
  <2> QED BY <1>1, <2>1 DEF AccountRelease, LastAdmitted, InFlight, Waiting, Preempted
<1>4. /\ runningTasks' = runningTasks \ {op.task}
      /\ completedTasks' = Lifecycle!Latest(Append(completedTasks, op.task))
  BY DEF AccountRelease, Trim, Lifecycle!Latest
<1> QED BY <1>2, <1>3, <1>4 DEF Lifecycle!Finish, LastAdmitted

\* A step of the scan promotes an entry of the queue or leaves the books alone.
LEMMA ScanPromotes ==
    ASSUME LinkInv, PromoteOne
    PROVE  Unmoved \/ \E i \in DOMAIN Waiting : Lifecycle!Promote(i)
<1> USE DEF LinkInv, TypeInv, TypeOK
<1> DEFINE t == Head(op.scan)
           i == Len(op.kept) + 1
<1>1. op.pc = "promote" /\ op'.pc = "promote" /\ taskCounter' = taskCounter
      /\ UNCHANGED <<LastAdmitted, completedTasks, Preempted>>
  <2>1. op.pc = "promote" /\ op'.pc = "promote"
    BY DEF PromoteOne, Ops
  <2>2. UNCHANGED <<taskCounter, completedTasks, preemptHistory>>
    BY DEF PromoteOne
  <2> QED BY <2>1, <2>2 DEF LastAdmitted, InFlight, Preempted
<1>2. /\ i \in DOMAIN Waiting /\ Waiting[i] = t
      /\ Append(op.kept, t) \o Tail(op.scan) = Waiting
      /\ op.kept \o Tail(op.scan) = Drop(Waiting, i)
  BY <1>1, ScanMoves DEF Waiting
<1>3. Waiting' = op'.kept \o op'.scan
  BY <1>1 DEF Waiting
<1>4. CASE Eligible(DefaultVRAM) # {}
  <2>1. op'.kept = op.kept /\ op'.scan = Tail(op.scan) /\ runningTasks' = runningTasks \cup {t}
    BY <1>4 DEF PromoteOne, Ops
  <2>2. Waiting' = Lifecycle!Without(Waiting, i)
    BY <1>2, <1>3, <2>1 DEF Drop, Lifecycle!Without
  <2>3. Lifecycle!Promote(i)
    BY <1>1, <1>2, <2>1, <2>2 DEF Lifecycle!Promote, LastAdmitted
  <2> QED BY <1>2, <2>3
<1>5. CASE Eligible(DefaultVRAM) = {}
  <2>1. op'.kept = Append(op.kept, t) /\ op'.scan = Tail(op.scan) /\ runningTasks' = runningTasks
    BY <1>5 DEF PromoteOne, Ops
  <2> QED BY <1>1, <1>2, <1>3, <2>1 DEF Unmoved
<1> QED BY <1>4, <1>5

\* A cancellation withdraws an entry of the queue.
LEMMA CancelWithdraws ==
    ASSUME LinkInv, NEW t \in TaskIds, CancelTask(t)
    PROVE  \E i \in DOMAIN Waiting : Lifecycle!Withdraw(i)
<1>1. op.pc = "idle" /\ op' = op /\ Waiting = pendingTasks /\ Waiting' = pendingTasks'
  BY DEF CancelTask, Waiting
<1>2. PICK i \in DOMAIN pendingTasks : pendingTasks' = Lifecycle!Without(pendingTasks, i)
  BY DEF CancelTask, Lifecycle!Without
<1>3. UNCHANGED <<LastAdmitted, runningTasks, completedTasks, Preempted>>
  BY DEF CancelTask, LastAdmitted, InFlight, Preempted
<1> QED BY <1>1, <1>2, <1>3 DEF Lifecycle!Withdraw, LastAdmitted

\* Every step of the scheduler is a step of TaskLifecycle or none.
LEMMA LifecycleStep == LinkInv /\ [Next]_vars => [Lifecycle!Next]_Lifecycle!vars
<1> SUFFICES ASSUME LinkInv, [Next]_vars PROVE Lifecycle!Next \/ UNCHANGED Lifecycle!vars
  OBVIOUS
<1>1. CASE Unmoved
  BY <1>1 DEF Unmoved, LastAdmitted, Lifecycle!vars
<1>2. CASE Enqueue /\ op.pc \in {"schedule", "retry", "preempt"}
  BY <1>2, EnqueueAdmits DEF Lifecycle!Next
<1>3. CASE AccountTask
  BY <1>3, AccountAdmits DEF Lifecycle!Next
<1>4. ASSUME NEW v \in TaskIds, PreemptKill(v) PROVE Lifecycle!Next
  BY <1>4, KillPreempts DEF Lifecycle!Next
<1>5. CASE AccountRelease
  BY <1>5, ReleaseFinishes DEF Lifecycle!Next
<1>6. CASE PromoteOne
  BY <1>1, <1>6, ScanPromotes DEF Lifecycle!Next
<1>7. ASSUME NEW t \in TaskIds, CancelTask(t) PROVE Lifecycle!Next
  BY <1>7, CancelWithdraws DEF Lifecycle!Next
<1> QED BY <1>1, <1>2, <1>3, <1>4, <1>5, <1>6, <1>7, MoveSteps

LEMMA InitLink == Init => LinkInv /\ Lifecycle!Init
<1> SUFFICES ASSUME Init PROVE LinkInv /\ Lifecycle!Init
  OBVIOUS
<1>1. op.pc = "idle"
  BY IdleType DEF Init
<1>2. LinkInv
  BY <1>1, InitType DEF LinkInv, OpMatches, InFlight
<1>3. Lifecycle!Init
  BY <1>1 DEF Init, Lifecycle!Init, InFlight, Waiting, Preempted
<1> QED BY <1>2, <1>3

\* The scheduler implements TaskLifecycle: each of its steps, also those inside a
\* method, moves the tasks as a client of that module expects, or not at all.
THEOREM LifecycleImplemented == Spec => ImplementsLifecycle
BY InitLink, LinkStep, LifecycleStep, PTL DEF Spec, ImplementsLifecycle, Lifecycle!Spec

\* The theorems about TaskLifecycle, read for the scheduler.
LP == INSTANCE TaskLifecycleProofs WITH
          last <- LastAdmitted,
          queue <- Waiting,
          running <- runningTasks,
          finished <- completedTasks,
          preempted <- Preempted

BooksInv == LinkInv /\ LP!Books

LEMMA InitBooksInv == Init => BooksInv
<1>1. Lifecycle!Init => LP!Init
  BY DEF Lifecycle!Init, LP!Init, LastAdmitted
<1>2. LP!Init => LP!Books
  BY LP!InitBooks
<1> QED BY <1>1, <1>2, InitLink DEF BooksInv

LEMMA BooksStep == BooksInv /\ [Next]_vars => BooksInv'
<1> SUFFICES ASSUME BooksInv, [Next]_vars PROVE BooksInv'
  OBVIOUS
<1>1. MaxCompleted \in Nat
  BY SchedulerAssumption
<1>2. [Lifecycle!Next]_Lifecycle!vars
  BY LifecycleStep DEF BooksInv
<1>3. [LP!Next]_LP!vars
  BY <1>2 DEF Lifecycle!Next, Lifecycle!vars, Lifecycle!Admit, Lifecycle!Promote,
              Lifecycle!Withdraw, Lifecycle!Finish, Lifecycle!Preempt, Lifecycle!Without,
              Lifecycle!Latest, LP!Next, LP!vars, LP!Admit, LP!Promote, LP!Withdraw,
              LP!Finish, LP!Preempt, LP!Without, LP!Latest, LastAdmitted
<1>4. LP!Books'
  BY <1>1, <1>3, LP!StepBooks DEF BooksInv
<1> QED BY <1>4, LinkStep DEF BooksInv

\* The invariant of TaskLifecycle holds of the scheduler's books.
LEMMA BooksHold == Spec => []BooksInv
BY InitBooksInv, BooksStep, PTL DEF Spec

\* Waiting tasks keep the order in which they were submitted.
THEOREM QueueInOrder == Spec => []PendingFIFO
<1>1. BooksInv => PendingFIFO
  BY DEF BooksInv, LP!Books, LP!Ascending, PendingFIFO, Increasing
<1> QED BY <1>1, BooksHold, PTL

\* A task is in at most one of the scheduler's books.
THEOREM InOneBook == Spec => []OneBook
<1>1. BooksInv => OneBook
  <2> SUFFICES ASSUME BooksInv PROVE OneBook
    OBVIOUS
  <2>1. LP!Admitted /\ LP!Partition
    BY DEF BooksInv, LP!Books
  <2>2. InFlight => op.task \notin 1..LastAdmitted
    BY DEF BooksInv, LinkInv, OpMatches, TypeInv, TypeOK, LastAdmitted
  <2> QED BY <2>1, <2>2 DEF LP!Admitted, LP!Partition, LP!Distinct, LP!Range, Range, OneBook
<1> QED BY <1>1, BooksHold, PTL

------------------------------------------------------------------------------
(* Preemption.                                                             *)

\* What the loop over the victims rests on.
Settings == <<tasks, runningTasks, preemptConfig>>

\* The steps that end inside the loop.
LEMMA LoopSteps ==
    ASSUME TypeInv, [Next]_vars
    PROVE  \/ op'.pc \notin {"preempt", "check"}
           \/ ScheduleFails /\ op'.pc = "preempt" /\ OnlyOp
           \/ \E v \in TaskIds : PreemptKill(v) \/ PreemptOther(v)
           \/ PreemptCheck
           \/ UNCHANGED op /\ UNCHANGED <<Settings, preemptHistory, registered>>
              /\ (UNCHANGED gpus \/ \E g \in GPUs, r \in Reports : UpdateGPUUsage(g, r))
<1> USE DEF TypeInv, TypeOK, Ops
<1> DEFINE Out == op'.pc \notin {"preempt", "check"}
<1>1. ASSUME NEW p \in Priorities, NEW v \in VRAMs, NEW q \in GPUReqs, SubmitTask(p, v, q)
      PROVE  Out
  BY <1>1 DEF SubmitTask, Idle
<1>2. CASE Enqueue \/ PromoteEnd \/ \E s \in {"running", "failed"} : Execute(s)
  BY <1>2, IdleType DEF Enqueue, PromoteEnd, Execute
<1>3. CASE ScheduleFails
  BY <1>2, <1>3 DEF ScheduleFails
<1>4. ASSUME NEW g \in GPUs, ScheduleSucceeds(g) PROVE Out
  BY <1>4 DEF ScheduleSucceeds
<1>5. CASE PreemptFails
  BY <1>2, <1>5 DEF PreemptFails
<1>6. CASE AccountTask \/ AccountRelease \/ PromoteOne
  BY <1>6 DEF AccountTask, AccountRelease, PromoteOne
<1>7. ASSUME NEW t \in TaskIds, ReleaseTask(t) PROVE Out
  BY <1>7 DEF ReleaseTask, Idle
<1>8. CASE \/ \E t \in TaskIds : CancelTask(t)
           \/ \E c \in PreemptConfigs : UpdatePreemptConfig(c)
           \/ \E g \in Registrations : RegisterGPU(g)
  BY <1>8 DEF CancelTask, UpdatePreemptConfig, RegisterGPU
<1>9. ASSUME NEW g \in GPUs, NEW r \in Reports, UpdateGPUUsage(g, r)
      PROVE  UNCHANGED op /\ UNCHANGED <<Settings, preemptHistory, registered>>
  BY <1>9 DEF UpdateGPUUsage, Settings
<1>10. CASE \/ \E t \in TaskIds, s \in FinalStatuses : ExecutorWritesStatus(t, s)
            \/ UNCHANGED vars
  BY <1>10 DEF ExecutorWritesStatus, vars, Settings
<1> QED BY <1>1, <1>2, <1>3, <1>4, <1>5, <1>6, <1>7, <1>8, <1>9, <1>10
        DEF Next, Step, CompleteTask

\* While a method preempts, the rules that let it still hold of all its victims left, and
\* while it kills, they are all that it may kill, and nobody less important than they are
\* goes on running.
RulesHold ==
    op.pc \in {"preempt", "check"} =>
        /\ preemptConfig.enabled
        /\ tasks[op.task].priority >= preemptConfig.minPriority
        /\ op.victims \subseteq Preemptable(op.task)
        /\ preemptConfig.policy = "kill" => Preemptable(op.task) \subseteq op.victims
        /\ preemptConfig.policy = "kill" =>
              \A v \in op.victims, w \in runningTasks \ op.victims :
                  tasks[v].priority <= tasks[w].priority

RulesInv == TypeInv /\ RulesHold

\* The tasks that t may not preempt are at least as important as those it may.
LEMMA OthersMatterMore ==
    ASSUME TypeInv, NEW t \in TaskIds, NEW v \in Preemptable(t),
           NEW w \in runningTasks \ Preemptable(t)
    PROVE  tasks[v].priority <= tasks[w].priority
<1>1. v \in TaskIds /\ w \in TaskIds
  BY DEF TypeInv, TypeOK, Preemptable
<1>2. /\ tasks[t].priority \in Int /\ tasks[v].priority \in Int /\ tasks[w].priority \in Int
      /\ preemptConfig.maxPriority \in Int
  BY <1>1, SchedulerAssumption DEF TypeInv, TypeOK, Request, DefaultPreemptConfig
<1>3. /\ tasks[v].priority <= preemptConfig.maxPriority
      /\ tasks[t].priority - tasks[v].priority >= 2
      /\ ~(tasks[w].priority <= preemptConfig.maxPriority)
            \/ ~(tasks[t].priority - tasks[w].priority >= 2)
  BY DEF Preemptable
<1> QED BY <1>2, <1>3

\* The rules survive every step: the settings change only when no method is inside.
LEMMA RulesStep == RulesInv /\ [Next]_vars => RulesInv'
<1> SUFFICES ASSUME RulesInv, [Next]_vars PROVE RulesHold'
  BY StepType DEF RulesInv
<1> USE DEF RulesInv
<1>1. op \in Ops /\ (op.pc # "idle" => op.task \in TaskIds)
  BY DEF TypeInv, TypeOK, OpOK
<1>2. CASE ScheduleFails /\ op'.pc = "preempt" /\ OnlyOp
  <2>1. /\ op.task \in TaskIds /\ MayPreempt(op.task)
        /\ UNCHANGED <<tasks, runningTasks, preemptConfig>>
        /\ op' = [op EXCEPT !.pc = "preempt", !.victims = Preemptable(op.task)]
    BY <1>1, <1>2, IdleType DEF ScheduleFails, Enqueue, OnlyOp
  <2>2. op'.task = op.task /\ op'.victims = Preemptable(op.task)
    BY <1>1, <2>1 DEF Ops
  <2>3. \A v \in Preemptable(op.task), w \in runningTasks \ Preemptable(op.task) :
            tasks[v].priority <= tasks[w].priority
    BY <2>1, OthersMatterMore
  <2> QED BY <2>1, <2>2, <2>3 DEF MayPreempt, RulesHold, Preemptable
<1>3. ASSUME NEW v \in TaskIds, PreemptKill(v) PROVE RulesHold'
  <2>1. /\ op.pc = "preempt" /\ op'.task = op.task /\ op'.victims = op.victims \ {v}
        /\ runningTasks' = runningTasks \ {v} /\ UNCHANGED <<tasks, preemptConfig>>
    BY <1>1, <1>3 DEF PreemptKill, Ops
  <2> QED BY <2>1 DEF RulesHold, Preemptable
<1>4. ASSUME NEW v \in TaskIds, PreemptOther(v) PROVE RulesHold'
  <2>1. /\ op.pc = "preempt" /\ op'.task = op.task /\ op'.victims = op.victims \ {v}
        /\ UNCHANGED <<tasks, runningTasks, preemptConfig>> /\ preemptConfig.policy # "kill"
    BY <1>1, <1>4 DEF PreemptOther, OnlyOp, Ops
  <2> QED BY <2>1 DEF RulesHold, Preemptable
<1>5. CASE PreemptCheck
  <2>1. /\ op.pc = "check" /\ op'.task = op.task /\ op'.victims = op.victims
        /\ UNCHANGED <<tasks, runningTasks, preemptConfig>>
    BY <1>1, <1>5 DEF PreemptCheck, OnlyOp, Ops
  <2> QED BY <2>1 DEF RulesHold, Preemptable
<1>6. CASE op'.pc \notin {"preempt", "check"}
  BY <1>6 DEF RulesHold
<1>7. CASE UNCHANGED <<op, Settings>>
  BY <1>7 DEF Settings, RulesHold, Preemptable
<1> QED BY <1>2, <1>3, <1>4, <1>5, <1>6, <1>7, LoopSteps

\* Only a kill is recorded, with the task that preempts and the one it preempts.
LEMMA RecordedKill ==
    ASSUME TypeInv, [Next]_vars, preemptHistory' # preemptHistory
    PROVE  \E v \in TaskIds :
               /\ PreemptKill(v)
               /\ preemptHistory'[Len(preemptHistory')].preemptor = op.task
               /\ preemptHistory'[Len(preemptHistory')].preempted = v
<1>1. PICK v \in TaskIds : PreemptKill(v)
  BY DEF Next, Step, SubmitTask, ScheduleSucceeds, ScheduleFails, Enqueue, OnlyOp,
         PreemptOther, PreemptCheck, PreemptFails, AccountTask, Execute, ReleaseTask,
         CompleteTask, AccountRelease, PromoteOne, PromoteEnd, CancelTask,
         UpdatePreemptConfig, RegisterGPU, UpdateGPUUsage, ExecutorWritesStatus, vars
<1> DEFINE r == [preemptor |-> op.task, preempted |-> v, gpu |-> tasks[v].gpuReq]
           h == preemptHistory
<1>2. preemptHistory' = Append(h, r) /\ op.pc = "preempt" /\ h \in Seq(PreemptRecord)
  BY <1>1 DEF PreemptKill, TypeInv, TypeOK
<1>3. r \in PreemptRecord /\ r.preemptor = op.task /\ r.preempted = v
  BY <1>2 DEF TypeInv, TypeOK, OpOK, PreemptRecord, Request
<1> HIDE DEF r, h
<1>4. Append(h, r)[Len(Append(h, r))] = r
  BY <1>2, <1>3, AppendProperties
<1> QED BY <1>1, <1>2, <1>3, <1>4

\* A recorded kill was one of the rules.
LEMMA KillFollowsRules ==
    ASSUME RulesInv, [Next]_vars, preemptHistory' # preemptHistory
    PROVE  LET r == preemptHistory'[Len(preemptHistory')] IN
           /\ preemptConfig.enabled
           /\ tasks[r.preemptor].priority >= preemptConfig.minPriority
           /\ tasks[r.preempted].priority <= preemptConfig.maxPriority
           /\ tasks[r.preemptor].priority >= tasks[r.preempted].priority + 2
           /\ \A w \in runningTasks' : tasks[r.preempted].priority <= tasks[w].priority
<1> USE DEF RulesInv
<1>1. PICK v \in TaskIds :
         /\ PreemptKill(v)
         /\ preemptHistory'[Len(preemptHistory')].preemptor = op.task
         /\ preemptHistory'[Len(preemptHistory')].preempted = v
  BY RecordedKill
<1>2. /\ op.pc = "preempt" /\ preemptConfig.policy = "kill" /\ v \in LeastImportant(op.victims)
      /\ runningTasks' = runningTasks \ {v} /\ op.task \in TaskIds
  BY <1>1 DEF PreemptKill, TypeInv, OpOK
<1>3. RulesHold /\ v \in op.victims /\ \A w \in op.victims : tasks[v].priority <= tasks[w].priority
  BY <1>2 DEF LeastImportant
<1>4. v \in Preemptable(op.task) /\ tasks[op.task].priority \in Int /\ tasks[v].priority \in Int
  BY <1>2, <1>3 DEF RulesHold, TypeInv, TypeOK, Request
<1>5. /\ tasks[v].priority <= preemptConfig.maxPriority
      /\ tasks[op.task].priority >= tasks[v].priority + 2
  BY <1>4 DEF Preemptable
<1>6. \A w \in runningTasks' : tasks[v].priority <= tasks[w].priority
  BY <1>2, <1>3 DEF RulesHold
<1> QED BY <1>1, <1>2, <1>3, <1>5, <1>6 DEF RulesHold

\* A task is killed only when the configuration in force lets the new one preempt it, and
\* then the least important of the running tasks goes first.
THEOREM PreemptionFollowsRules == Spec => PreemptionRules
<1>1. Init => RulesInv
  BY InitType, IdleType DEF Init, RulesInv, RulesHold
<1>2. RulesInv /\ [Next]_vars =>
        (preemptHistory' # preemptHistory =>
           LET r == preemptHistory'[Len(preemptHistory')] IN
           /\ preemptConfig.enabled
           /\ tasks[r.preemptor].priority >= preemptConfig.minPriority
           /\ tasks[r.preempted].priority <= preemptConfig.maxPriority
           /\ tasks[r.preemptor].priority >= tasks[r.preempted].priority + 2
           /\ \A w \in runningTasks' : tasks[r.preempted].priority <= tasks[w].priority)
  BY KillFollowsRules
<1> QED BY <1>1, <1>2, RulesStep, PTL DEF Spec, PreemptionRules

\* A task that preempts joins the queue only when nobody is left whom it may kill.
THEOREM GivesUpWithNobodyLeft == Spec => GivesUpLast
<1>1. Init => RulesInv
  BY InitType, IdleType DEF Init, RulesInv, RulesHold
<1>2. RulesInv /\ [Next]_vars =>
        (op.pc = "preempt" /\ op'.pc = "idle" /\ preemptConfig.policy = "kill"
           => Preemptable(op.task) = {})
  <2> SUFFICES ASSUME RulesInv, [Next]_vars, op.pc = "preempt", op'.pc = "idle",
                      preemptConfig.policy = "kill"
               PROVE  Preemptable(op.task) = {}
    OBVIOUS
  <2>1. op \in Ops
    BY DEF RulesInv, TypeInv, TypeOK
  <2>2. \A v \in TaskIds : ~PreemptKill(v) /\ ~PreemptOther(v)
    BY <2>1 DEF PreemptKill, PreemptOther, Ops
  <2>3. PreemptFails
    BY <2>2 DEF Next, Step, SubmitTask, ScheduleSucceeds, ScheduleFails, PreemptCheck,
           AccountTask, Execute, ReleaseTask, CompleteTask, AccountRelease, PromoteOne,
           PromoteEnd, CancelTask, UpdatePreemptConfig, RegisterGPU, UpdateGPUUsage,
           ExecutorWritesStatus, vars
  <2> QED BY <2>3 DEF PreemptFails, RulesInv, RulesHold
<1> QED BY <1>1, <1>2, RulesStep, PTL DEF Spec, GivesUpLast

(* Without a monitor nothing changes the GPUs under a method's eyes.       *)

\* No GPU takes the new task when the loop goes on.
NoRoom == op.pc = "preempt" => Eligible(Charge(op.task)) = {}

NoRoomInv == TypeInv /\ NoRoom

\* Only a method that has the mutex changes the GPUs when there is no monitor.
LEMMA NoRoomStep ==
    ASSUME Reports = {}, NoRoomInv, [Next]_vars
    PROVE  NoRoomInv'
<1> SUFFICES NoRoom'
  BY StepType DEF NoRoomInv
<1> USE DEF NoRoomInv
<1>1. op \in Ops
  BY DEF TypeInv, TypeOK
<1>2. CASE ScheduleFails /\ op'.pc = "preempt" /\ OnlyOp
  <2>1. op'.task = op.task
    BY <1>1, <1>2, IdleType DEF ScheduleFails, Enqueue, Ops
  <2> QED BY <1>2, <2>1 DEF ScheduleFails, OnlyOp, NoRoom, Eligible, FreeVRAM, Charge
<1>3. ASSUME NEW v \in TaskIds, PreemptKill(v) PROVE NoRoom'
  <2>1. op'.pc = "check"
    BY <1>1, <1>3 DEF PreemptKill, Ops
  <2> QED BY <2>1 DEF NoRoom
<1>4. ASSUME NEW v \in TaskIds, PreemptOther(v) PROVE NoRoom'
  <2>1. op.pc = "preempt" /\ op'.pc \in {"preempt", "check"} /\ op'.task = op.task
    BY <1>1, <1>4 DEF PreemptOther, Ops
  <2> QED BY <1>4, <2>1 DEF PreemptOther, OnlyOp, NoRoom, Eligible, FreeVRAM, Charge
<1>5. CASE PreemptCheck
  <2>1. /\ op'.task = op.task
        /\ op'.pc = "preempt" => ~hasEnoughResources(Charge(op.task))
    BY <1>1, <1>5 DEF PreemptCheck, Ops
  <2>2. op'.pc = "preempt" => Eligible(Charge(op.task)) = {}
    BY <2>1 DEF hasEnoughResources, Eligible
  <2> QED BY <1>5, <2>1, <2>2 DEF PreemptCheck, OnlyOp, NoRoom, Eligible, FreeVRAM, Charge
<1>6. CASE UNCHANGED op /\ UNCHANGED <<Settings, registered, gpus>>
  BY <1>6 DEF Settings, NoRoom, Eligible, FreeVRAM, Charge
<1>7. CASE op'.pc \notin {"preempt", "check"}
  BY <1>7 DEF NoRoom
<1> QED BY <1>2, <1>3, <1>4, <1>5, <1>6, <1>7, LoopSteps

LEMMA InitNoRoom == Init => NoRoomInv
BY InitType, IdleType DEF Init, NoRoomInv, NoRoom

\* Without a monitor a task is killed only while no GPU can take the new one.
THEOREM KillsOnlyWhenFull == ASSUME Reports = {} PROVE Spec => PreemptOnlyWhenFull
<1>1. NoRoomInv /\ [Next]_vars =>
        (preemptHistory' # preemptHistory =>
           Eligible(Charge(preemptHistory'[Len(preemptHistory')].preemptor)) = {})
  BY RecordedKill DEF NoRoomInv, NoRoom, PreemptKill
<1>2. NoRoomInv /\ [Next]_vars => NoRoomInv'
  BY NoRoomStep
<1> QED BY <1>1, <1>2, InitNoRoom, PTL DEF Spec, PreemptOnlyWhenFull

------------------------------------------------------------------------------
(* The ledger: a GPU's usage is what its running tasks were charged.       *)

\* The sum of c over the tasks in B.
TotalOf(c, B) == SumFunction([t \in B |-> c[t]])

LEMMA TasksFinite == ASSUME NEW B \in SUBSET TaskIds PROVE IsFiniteSet(B)
<1>1. MaxTasks \in Int /\ 1 \in Int
  BY SchedulerAssumption
<1>2. IsFiniteSet(1..MaxTasks)
  BY <1>1, FS_Interval
<1> QED BY <1>2, FS_Subset DEF TaskIds

LEMMA TotalNone == ASSUME NEW c PROVE TotalOf(c, {}) = 0 /\ Cardinality({}) = 0
<1> DEFINE f == [t \in {} |-> c[t]]
<1>1. DOMAIN f = {} /\ f \in [{} -> Int]
  OBVIOUS
<1> HIDE DEF f
<1>2. SumFunction(f) = 0
  BY <1>1, SumEmpty
<1> QED BY <1>2, FS_EmptySet DEF TotalOf, f

LEMMA TotalInsert ==
    ASSUME NEW c \in [TaskIds -> Nat], NEW B \in SUBSET TaskIds, NEW x \in TaskIds \ B
    PROVE  /\ TotalOf(c, B) \in Nat /\ TotalOf(c, B \cup {x}) = TotalOf(c, B) + c[x]
           /\ Cardinality(B) \in Nat /\ Cardinality(B \cup {x}) = Cardinality(B) + 1
<1> DEFINE e == [t \in B |-> c[t]]
           f == [t \in B \cup {x} |-> c[t]]
<1>1. /\ e \in [B -> Nat] /\ e \in [B -> Int] /\ f \in [B \cup {x} -> Int]
      /\ f[x] = c[x] /\ \A y \in B : e[y] = f[y]
  OBVIOUS
<1>2. IsFiniteSet(B) /\ x \notin B
  BY TasksFinite
<1> HIDE DEF e, f
<1>3. SumFunction(e) \in Nat
  BY <1>1, <1>2, SumNotNegative
<1>4. SumFunction(f) = SumFunction(e) + f[x]
  BY <1>1, <1>2, SumInsert
<1>5. Cardinality(B) \in Nat /\ Cardinality(B \cup {x}) = Cardinality(B) + 1
  BY <1>2, FS_AddElement, FS_CardinalityType
<1> QED BY <1>1, <1>3, <1>4, <1>5 DEF TotalOf, e, f

LEMMA TotalAgrees ==
    ASSUME NEW c, NEW d, NEW B, \A t \in B : c[t] = d[t]
    PROVE  TotalOf(c, B) = TotalOf(d, B)
<1>1. [t \in B |-> c[t]] = [t \in B |-> d[t]]
  OBVIOUS
<1> QED BY <1>1 DEF TotalOf

\* Recount touches one GPU.
LEMMA RecountAt ==
    ASSUME gpus \in [GPUs -> Usage], NEW g \in GPUs, NEW u, NEW n, NEW h \in GPUs
    PROVE  /\ h = g => Recount(g, u, n)[h].used = u /\ Recount(g, u, n)[h].running = n
           /\ h # g => Recount(g, u, n)[h] = gpus[h]
BY DEF Recount

\* A task that is not booked on a GPU still has the gpuReq of its request, and the
\* GPU that was chosen for a task is registered.
PlacedTasks ==
    /\ \A t \in Range(Waiting) : tasks[t].gpuReq \in GPUReqs
    /\ \A t \in runningTasks : tasks[t].gpuReq \in GPUReqs \cup registered

PlacedOp ==
    /\ InFlight => tasks[op.task].gpuReq \in GPUReqs
    /\ op.pc = "account" => op.gpu \in registered

\* The tasks in the books are admitted.
LEMMA BooksAdmitted ==
    ASSUME BooksInv
    PROVE  /\ Range(Waiting) \cup runningTasks \cup Preempted \subseteq 1..LastAdmitted
           /\ 1..LastAdmitted \subseteq TaskIds
<1>1. Range(Waiting) \cup runningTasks \cup Preempted \subseteq 1..LastAdmitted
  BY DEF BooksInv, LP!Books, LP!Admitted, LP!Range, Range
<1>2. taskCounter \in 0..MaxTasks /\ MaxTasks \in Nat
  BY SchedulerAssumption DEF BooksInv, LinkInv, TypeInv, TypeOK
<1>3. LastAdmitted <= taskCounter
  BY <1>2 DEF LastAdmitted
<1>4. LastAdmitted \in Int
  BY <1>2 DEF LastAdmitted
<1>5. 1..LastAdmitted \subseteq 1..MaxTasks
  BY <1>2, <1>3, <1>4
<1> QED BY <1>1, <1>5 DEF TaskIds

\* The step that submits a task and the one that books it are the only ones that
\* write a Task, and the task they write is in none of the books.
LEMMA AdmittedFixed ==
    ASSUME BooksInv, [Next]_vars
    PROVE  \A t \in 1..LastAdmitted : tasks'[t] = tasks[t]
<1> USE DEF BooksInv, LinkInv, TypeInv, TypeOK
<1>1. ASSUME NEW p \in Priorities, NEW v \in VRAMs, NEW q \in GPUReqs, SubmitTask(p, v, q)
      PROVE  \A t \in 1..LastAdmitted : tasks'[t] = tasks[t]
  <2>1. /\ op.pc = "idle" /\ taskCounter \in Int
        /\ tasks' = [tasks EXCEPT ![taskCounter + 1] =
                        [priority |-> p, vram |-> v, gpuReq |-> q]]
    BY <1>1 DEF SubmitTask
  <2>2. LastAdmitted = taskCounter
    BY <2>1 DEF LastAdmitted, InFlight
  <2>3. \A t \in 1..LastAdmitted : t # taskCounter + 1 /\ t \in TaskIds
    BY <2>1, <2>2, BooksAdmitted
  <2> QED BY <2>1, <2>3
<1>2. CASE AccountTask
  <2>1. /\ op.pc = "account" /\ op.task = taskCounter /\ taskCounter \in Int
        /\ tasks' = [tasks EXCEPT ![op.task] = [@ EXCEPT !.gpuReq = op.gpu]]
    BY <1>2 DEF AccountTask, OpMatches, InFlight
  <2>2. LastAdmitted = taskCounter - 1
    BY <2>1 DEF LastAdmitted, InFlight
  <2>3. \A t \in 1..LastAdmitted : t # op.task /\ t \in TaskIds
    BY <2>1, <2>2, BooksAdmitted
  <2> QED BY <2>1, <2>3
<1>3. CASE UNCHANGED tasks
  BY <1>3
<1> QED BY <1>1, <1>2, <1>3 DEF Next, Step, ScheduleSucceeds, ScheduleFails, Enqueue, OnlyOp,
        PreemptKill, PreemptOther, PreemptCheck, PreemptFails, Execute, ReleaseTask,
        CompleteTask, AccountRelease, PromoteOne, PromoteEnd, CancelTask,
        UpdatePreemptConfig, RegisterGPU, UpdateGPUUsage, ExecutorWritesStatus, vars

LEMMA PlacedOpStep == ASSUME BooksInv, PlacedOp, [Next]_vars PROVE PlacedOp'
<1> USE DEF BooksInv, LinkInv, TypeInv, TypeOK, Ops, PlacedOp, InFlight
<1>1. ASSUME NEW p \in Priorities, NEW v \in VRAMs, NEW q \in GPUReqs, SubmitTask(p, v, q)
      PROVE  PlacedOp'
  <2>1. op'.pc = "schedule" /\ op'.task = taskCounter + 1
    BY <1>1 DEF SubmitTask, Idle
  <2>2. taskCounter + 1 \in TaskIds
    <3>1. taskCounter < MaxTasks /\ taskCounter \in 0..MaxTasks /\ MaxTasks \in Nat
      BY <1>1, SchedulerAssumption DEF SubmitTask
    <3> HIDE DEF BooksInv, LinkInv, TypeInv, TypeOK, Ops, PlacedOp, InFlight
    <3> QED BY <3>1 DEF TaskIds
  <2>3. tasks'[taskCounter + 1].gpuReq = q
    BY <1>1, <2>2 DEF SubmitTask
  <2> QED BY <2>1, <2>3
<1>2. ASSUME op' = Idle \/ op'.pc \in {"execute", "release", "promote"} PROVE PlacedOp'
  BY <1>2, IdleType
<1>3. ASSUME NEW g \in GPUs, ScheduleSucceeds(g) PROVE PlacedOp'
  BY <1>3 DEF ScheduleSucceeds, OnlyOp, Eligible
<1>4. ASSUME InFlight, op'.task = op.task, op'.pc # "account", UNCHANGED tasks PROVE PlacedOp'
  BY <1>4
<1>5. CASE ScheduleFails
  <2>1. CASE Enqueue
    BY <1>2, <2>1 DEF Enqueue
  <2>2. CASE ~Enqueue
    BY <1>4, <1>5, <2>2 DEF ScheduleFails, OnlyOp
  <2> QED BY <2>1, <2>2
<1>6. ASSUME NEW v \in TaskIds, PreemptKill(v) \/ PreemptOther(v) PROVE PlacedOp'
  BY <1>4, <1>6 DEF PreemptKill, PreemptOther, OnlyOp
<1>7. CASE PreemptCheck
  BY <1>4, <1>7 DEF PreemptCheck, OnlyOp
<1>8. CASE PreemptFails \/ PromoteEnd \/ \E s \in {"running", "failed"} : Execute(s)
  BY <1>2, <1>8 DEF PreemptFails, Enqueue, PromoteEnd, Execute
<1>9. CASE AccountTask \/ AccountRelease \/ PromoteOne \/ \E t \in TaskIds : ReleaseTask(t)
  <2>1. op'.pc \in {"execute", "release", "promote"}
    BY <1>9 DEF AccountTask, AccountRelease, PromoteOne, ReleaseTask, Idle
  <2> QED BY <1>2, <2>1
<1>10. ASSUME UNCHANGED <<op, tasks>>, registered \subseteq registered' PROVE PlacedOp'
  BY <1>10
<1>11. CASE \/ \E t \in TaskIds : CancelTask(t)
            \/ \E c \in PreemptConfigs : UpdatePreemptConfig(c)
            \/ \E g \in Registrations : RegisterGPU(g)
            \/ \E g \in GPUs, r \in Reports : UpdateGPUUsage(g, r)
            \/ \E t \in TaskIds, s \in FinalStatuses : ExecutorWritesStatus(t, s)
            \/ UNCHANGED vars
  <2>1. UNCHANGED <<op, tasks>> /\ registered \subseteq registered'
    BY <1>11 DEF CancelTask, UpdatePreemptConfig, RegisterGPU, UpdateGPUUsage,
                 ExecutorWritesStatus, vars
  <2> QED BY <1>10, <2>1
<1> QED BY <1>1, <1>3, <1>5, <1>6, <1>7, <1>8, <1>9, <1>11 DEF Next, Step, CompleteTask

\* A preemption adds one task to those that were preempted.
LEMMA KillRemembers ==
    ASSUME LinkInv, NEW v \in TaskIds, PreemptKill(v)
    PROVE  v \in runningTasks /\ Preempted' = Preempted \cup {v}
BY KillPreempts DEF Lifecycle!Preempt

\* The steps that leave the running tasks alone, or add one that waited.
LEMMA OtherMoves ==
    ASSUME LinkInv, [Next]_vars,
           ~AccountTask, ~AccountRelease, \A v \in TaskIds : ~PreemptKill(v)
    PROVE  /\ Preempted' = Preempted
           /\ \/ /\ runningTasks' = runningTasks
                 /\ \/ Range(Waiting') \subseteq Range(Waiting)
                    \/ /\ InFlight /\ op.pc # "account"
                       /\ Range(Waiting') = Range(Waiting) \cup {op.task}
              \/ \E t \in Range(Waiting) : /\ runningTasks' = runningTasks \cup {t}
                                           /\ Range(Waiting') \subseteq Range(Waiting)
<1>0. Waiting \in Seq(TaskIds)
  BY ConcatProperties DEF Waiting, LinkInv, TypeInv, TypeOK, Ops
<1>1. CASE Unmoved
  BY <1>1 DEF Unmoved
<1>2. CASE Enqueue /\ op.pc \in {"schedule", "retry", "preempt"}
  <2>1. op'.pc = "idle" /\ op.task \in TaskIds
    BY <1>2, IdleType DEF Enqueue, LinkInv, TypeInv, OpOK
  <2>2. Waiting' = Append(Waiting, op.task)
    BY <1>2, <2>1 DEF Enqueue, Waiting
  <2>3. Range(Waiting') = Range(Waiting) \cup {op.task}
    BY <1>0, <2>1, <2>2, AppendRange
  <2> QED BY <1>2, <2>3 DEF Enqueue, Preempted, InFlight
<1>3. ASSUME NEW i \in DOMAIN Waiting
      PROVE  /\ Waiting[i] \in Range(Waiting)
             /\ Range(Lifecycle!Without(Waiting, i)) \subseteq Range(Waiting)
  <2>1. Lifecycle!Without(Waiting, i) = Drop(Waiting, i)
    BY DEF Lifecycle!Without, Drop
  <2>2. Range(Drop(Waiting, i)) \subseteq Range(Waiting)
    BY <1>0, DropRange
  <2>3. Waiting[i] \in Range(Waiting)
    BY DEF Range
  <2> QED BY <2>1, <2>2, <2>3
<1>4. CASE PromoteOne
  BY <1>1, <1>3, <1>4, ScanPromotes DEF Lifecycle!Promote
<1>5. ASSUME NEW t \in TaskIds, CancelTask(t)
      PROVE  /\ UNCHANGED <<runningTasks, Preempted>>
             /\ Range(Waiting') \subseteq Range(Waiting)
  BY <1>3, <1>5, CancelWithdraws DEF Lifecycle!Withdraw
<1> QED BY <1>1, <1>2, <1>4, <1>5, MoveSteps

LEMMA PlacedTasksStep ==
    ASSUME BooksInv, PlacedTasks, PlacedOp, [Next]_vars
    PROVE  PlacedTasks'
<1>1. \A t \in 1..LastAdmitted : tasks'[t] = tasks[t]
  BY AdmittedFixed
<1>2. Range(Waiting) \cup runningTasks \subseteq 1..LastAdmitted
  BY BooksAdmitted
<1>3. registered \subseteq registered'
  BY DEF Next, Step, ScheduleSucceeds, ScheduleFails, Enqueue, OnlyOp, AccountTask,
        PreemptKill, PreemptOther, PreemptCheck, PreemptFails, Execute, ReleaseTask,
        CompleteTask, AccountRelease, PromoteOne, PromoteEnd, CancelTask, SubmitTask,
        UpdatePreemptConfig, RegisterGPU, UpdateGPUUsage, ExecutorWritesStatus, vars
<1>4. /\ \A t \in Range(Waiting) : tasks'[t].gpuReq \in GPUReqs
      /\ \A t \in runningTasks : tasks'[t].gpuReq \in GPUReqs \cup registered'
  BY <1>1, <1>2, <1>3 DEF PlacedTasks
<1>5. CASE AccountTask
  <2>1. Waiting' = Waiting /\ runningTasks' = runningTasks \cup {op.task}
        /\ op.pc = "account" /\ op.task \in TaskIds
    BY <1>5 DEF AccountTask, Waiting, BooksInv, LinkInv, TypeInv, TypeOK, Ops, OpOK
  <2>2. tasks'[op.task].gpuReq = op.gpu
    BY <1>5, <2>1 DEF AccountTask, BooksInv, LinkInv, TypeInv, TypeOK, Request
  <2>3. op.gpu \in registered'
    BY <1>3, <2>1 DEF PlacedOp
  <2> QED BY <1>4, <2>1, <2>2, <2>3 DEF PlacedTasks
<1>6. CASE AccountRelease
  BY <1>4, <1>6, ReleaseFinishes DEF Lifecycle!Finish, PlacedTasks, BooksInv
<1>7. ASSUME NEW v \in TaskIds, PreemptKill(v) PROVE PlacedTasks'
  BY <1>4, <1>7, KillPreempts DEF Lifecycle!Preempt, PlacedTasks, BooksInv
<1>8. CASE ~AccountTask /\ ~AccountRelease /\ \A v \in TaskIds : ~PreemptKill(v)
  <2>1. InFlight /\ op.pc # "account" => tasks'[op.task].gpuReq \in GPUReqs
    <3>1. AccountTask \/ (\E p \in Priorities, v \in VRAMs, q \in GPUReqs : SubmitTask(p, v, q))
          \/ tasks' = tasks
      BY DEF Next, Step, ScheduleSucceeds, ScheduleFails, Enqueue, OnlyOp,
        PreemptKill, PreemptOther, PreemptCheck, PreemptFails, Execute, ReleaseTask,
        CompleteTask, AccountRelease, PromoteOne, PromoteEnd, CancelTask,
        UpdatePreemptConfig, RegisterGPU, UpdateGPUUsage, ExecutorWritesStatus, vars
    <3> QED BY <1>8, <3>1 DEF PlacedOp, InFlight, SubmitTask
  <2>2. /\ \/ /\ runningTasks' = runningTasks
              /\ \/ Range(Waiting') \subseteq Range(Waiting)
                 \/ /\ InFlight /\ op.pc # "account"
                    /\ Range(Waiting') = Range(Waiting) \cup {op.task}
           \/ \E t \in Range(Waiting) : /\ runningTasks' = runningTasks \cup {t}
                                        /\ Range(Waiting') \subseteq Range(Waiting)
    BY <1>8, OtherMoves DEF BooksInv
  <2> QED BY <1>4, <2>1, <2>2 DEF PlacedTasks
<1> QED BY <1>5, <1>6, <1>7, <1>8

\* What the tasks are charged, and which of them are booked on g.
Charges == [t \in TaskIds |-> Charge(t)]
BookedOn(g) == {t \in runningTasks : tasks[t].gpuReq = g}

\* No task of the default size was preempted on g.
Sized(g) == \A v \in Preempted : tasks[v].gpuReq = g => tasks[v].vram > 0

Balanced(g) ==
    \A c \in [TaskIds -> Nat], B \in SUBSET TaskIds :
        c = Charges /\ B = BookedOn(g) /\ Sized(g)
          => gpus[g].used = TotalOf(c, B) /\ gpus[g].running = Cardinality(B)

\* LedgerBalances is inductive together with the books, which say that a task is not
\* charged or given back twice, and with what they say of gpuReq.
LedgerInv == /\ BooksInv /\ AsksFrom(Nat) /\ PlacedTasks /\ PlacedOp
             /\ \A g \in GPUs \ GPUReqs : Balanced(g)

\* Whoever asks for no negative amount is given back what it was charged.
LEMMA ChargesNat ==
    ASSUME TypeInv, AsksFrom(Nat)
    PROVE  /\ Charges \in [TaskIds -> Nat]
           /\ \A t \in TaskIds : Charges[t] = Charge(t) /\ Refund(t) = Charge(t)
<1>1. \A t \in TaskIds : tasks[t].vram \in Nat
  BY DEF AsksFrom
<1>2. \A t \in TaskIds : Charge(t) \in Nat /\ Refund(t) = Charge(t)
  BY <1>1, SchedulerAssumption DEF Charge, Refund
<1> QED BY <1>2 DEF Charges

LEMMA BookedAreTasks ==
    ASSUME LedgerInv
    PROVE  /\ runningTasks \subseteq TaskIds /\ \A g : BookedOn(g) \subseteq TaskIds
           /\ gpus \in [GPUs -> Usage]
BY DEF LedgerInv, BooksInv, LinkInv, TypeInv, TypeOK, BookedOn

\* A step that changes neither the usage of g nor the tasks booked on it.
LEMMA StaysBalanced ==
    ASSUME TypeInv, TypeInv', AsksFrom(Nat), AsksFrom(Nat)', NEW g \in GPUs, Balanced(g),
           gpus'[g].used = gpus[g].used, gpus'[g].running = gpus[g].running,
           BookedOn(g)' = BookedOn(g), \A t \in BookedOn(g) : tasks'[t] = tasks[t],
           Sized(g)' => Sized(g)
    PROVE  Balanced(g)'
<1> SUFFICES ASSUME NEW c \in [TaskIds -> Nat], NEW B \in SUBSET TaskIds,
                    c = Charges', B = BookedOn(g)', Sized(g)'
             PROVE  gpus'[g].used = TotalOf(c, B) /\ gpus'[g].running = Cardinality(B)
  BY DEF Balanced
<1>1. PICK d \in [TaskIds -> Nat] : d = Charges
  BY ChargesNat
<1>2. gpus[g].used = TotalOf(d, B) /\ gpus[g].running = Cardinality(B)
  BY <1>1 DEF Balanced
<1>3. \A t \in B : c[t] = d[t]
  BY <1>1 DEF Charges, Charge
<1>4. TotalOf(c, B) = TotalOf(d, B)
  BY <1>3, TotalAgrees
<1> QED BY <1>2, <1>4

\* SubmitTask books its task.
LEMMA AccountBalances ==
    ASSUME LedgerInv, TypeInv', AsksFrom(Nat)', AccountTask,
           NEW g \in GPUs \ GPUReqs
    PROVE  Balanced(g)'
<1> USE DEF LedgerInv, BooksInv, LinkInv, TypeInv, TypeOK, OpOK
<1> DEFINE x == op.task
<1>1. /\ op.pc = "account" /\ x \in TaskIds /\ op.gpu \in GPUs /\ x = LastAdmitted + 1
      /\ runningTasks' = runningTasks \cup {x} /\ Preempted' = Preempted
  BY DEF AccountTask, OpMatches, InFlight, LastAdmitted, Preempted
<1>2. /\ x \notin runningTasks /\ x \notin Preempted /\ tasks[x].gpuReq # g
  BY <1>1, BooksAdmitted DEF PlacedOp, InFlight, LastAdmitted
<1>3. \A t \in TaskIds : /\ tasks'[t].vram = tasks[t].vram
                         /\ tasks'[t].gpuReq = IF t = x THEN op.gpu ELSE tasks[t].gpuReq
                         /\ t # x => tasks'[t] = tasks[t]
  BY <1>1 DEF AccountTask, Request
<1>4. Sized(g)' => Sized(g)
  <2>1. \A v \in Preempted : v \in TaskIds /\ v # x
    BY <1>2, BooksAdmitted
  <2> QED BY <1>1, <1>3, <2>1 DEF Sized
<1>5. gpus' = Recount(op.gpu, gpus[op.gpu].used + Charge(x), gpus[op.gpu].running + 1)
  BY DEF AccountTask
<1>6. CASE op.gpu # g
  <2>1. gpus'[g] = gpus[g]
    BY <1>1, <1>5, <1>6, RecountAt
  <2>2. BookedOn(g)' = BookedOn(g)
    BY <1>1, <1>2, <1>3, <1>6 DEF BookedOn
  <2>3. \A t \in BookedOn(g) : tasks'[t] = tasks[t]
    BY <1>2, <1>3 DEF BookedOn
  <2> QED BY <1>4, <2>1, <2>2, <2>3, StaysBalanced
<1>7. CASE op.gpu = g
  <2>1. gpus'[g].used = gpus[g].used + Charge(x) /\ gpus'[g].running = gpus[g].running + 1
    BY <1>1, <1>5, <1>7, RecountAt
  <2>2. BookedOn(g)' = BookedOn(g) \cup {x}
    BY <1>1, <1>2, <1>3, <1>7 DEF BookedOn
  <2>3. PICK d \in [TaskIds -> Nat] : d = Charges /\ d[x] = Charge(x)
    BY <1>1, ChargesNat
  <2>4. Charges' = Charges
    BY <1>3 DEF Charges, Charge
  <2>5. PICK A \in SUBSET TaskIds : A = BookedOn(g) /\ x \notin A
    <3>1. BookedOn(g) \in SUBSET TaskIds /\ x \notin BookedOn(g)
      BY <1>2 DEF BookedOn
    <3> QED BY <3>1
  <2>6. Sized(g) => gpus[g].used = TotalOf(d, A) /\ gpus[g].running = Cardinality(A)
    BY <2>3, <2>5 DEF Balanced
  <2>7. /\ TotalOf(d, A \cup {x}) = TotalOf(d, A) + d[x]
        /\ Cardinality(A \cup {x}) = Cardinality(A) + 1
    BY <1>1, <2>5, TotalInsert
  <2>8. Sized(g)' => /\ gpus'[g].used = TotalOf(d, A \cup {x})
                     /\ gpus'[g].running = Cardinality(A \cup {x})
    BY <1>4, <2>1, <2>3, <2>6, <2>7
  <2>9. \A c \in [TaskIds -> Nat], B \in SUBSET TaskIds :
           c = Charges' /\ B = BookedOn(g)' => c = d /\ B = A \cup {x}
    BY <2>2, <2>3, <2>4, <2>5
  <2> HIDE DEF LedgerInv, BooksInv, LinkInv, TypeInv, TypeOK, OpOK, x
  <2> SUFFICES ASSUME NEW c \in [TaskIds -> Nat], NEW B \in SUBSET TaskIds,
                      c = Charges', B = BookedOn(g)', Sized(g)'
               PROVE  gpus'[g].used = TotalOf(c, B) /\ gpus'[g].running = Cardinality(B)
    BY DEF Balanced
  <2>10. c = d /\ B = A \cup {x}
    BY <2>9
  <2> QED BY <2>8, <2>10
<1> QED BY <1>6, <1>7

\* What the ledger says of a GPU, with one of its tasks set apart.
LEMMA SetApart ==
    ASSUME LedgerInv, NEW g \in GPUs \ GPUReqs, NEW x \in BookedOn(g)
    PROVE  \E c \in [TaskIds -> Nat], A \in SUBSET TaskIds :
              /\ c = Charges /\ A = BookedOn(g) \ {x}
              /\ TotalOf(c, A) \in Nat /\ Cardinality(A) \in Nat /\ Charge(x) \in Nat
              /\ Sized(g) => /\ gpus[g].used = TotalOf(c, A) + Charge(x)
                             /\ gpus[g].running = Cardinality(A) + 1
<1>1. TypeInv /\ AsksFrom(Nat) /\ Balanced(g)
  BY DEF LedgerInv, BooksInv, LinkInv
<1>2. BookedOn(g) \in SUBSET TaskIds /\ x \in TaskIds
  BY BookedAreTasks
<1>3. PICK c \in [TaskIds -> Nat] : c = Charges /\ c[x] = Charge(x)
  BY <1>1, <1>2, ChargesNat
<1>4. PICK A \in SUBSET TaskIds : A = BookedOn(g) \ {x}
  BY <1>2
<1>5. A \cup {x} = BookedOn(g) /\ x \in TaskIds \ A /\ A \cup {x} \in SUBSET TaskIds
  BY <1>2, <1>4
<1>6. Sized(g) => /\ gpus[g].used = TotalOf(c, A \cup {x})
                  /\ gpus[g].running = Cardinality(A \cup {x})
  BY <1>1, <1>3, <1>5 DEF Balanced
<1>7. /\ TotalOf(c, A) \in Nat /\ TotalOf(c, A \cup {x}) = TotalOf(c, A) + c[x]
      /\ Cardinality(A) \in Nat /\ Cardinality(A \cup {x}) = Cardinality(A) + 1
  BY <1>5, TotalInsert
<1>8. Charge(x) \in Nat
  BY <1>2, <1>3
<1> QED BY <1>3, <1>4, <1>6, <1>7, <1>8

\* A running task leaves, and its GPU is given back what it was charged.
LEMMA GivesBack ==
    ASSUME LedgerInv, TypeInv', AsksFrom(Nat)', NEW x \in runningTasks,
           NEW g \in GPUs \ GPUReqs, tasks' = tasks, runningTasks' = runningTasks \ {x},
           Preempted \subseteq Preempted',
           tasks[x].gpuReq # g => gpus'[g] = gpus[g],
           tasks[x].gpuReq = g /\ Sized(g)'
             => /\ gpus'[g].used = gpus[g].used - Charge(x)
                /\ gpus'[g].running = gpus[g].running - 1
    PROVE  Balanced(g)'
<1>1. TypeInv /\ AsksFrom(Nat) /\ Balanced(g)
  BY DEF LedgerInv, BooksInv, LinkInv
<1>2. Sized(g)' => Sized(g)
  BY DEF Sized
<1>3. BookedOn(g)' = BookedOn(g) \ {x}
  BY DEF BookedOn
<1>4. CASE tasks[x].gpuReq # g
  <2>1. BookedOn(g)' = BookedOn(g)
    BY <1>3, <1>4 DEF BookedOn
  <2> QED BY <1>1, <1>2, <1>4, <2>1, StaysBalanced
<1>5. CASE tasks[x].gpuReq = g
  <2>1. x \in BookedOn(g)
    BY <1>5 DEF BookedOn
  <2>2. PICK c \in [TaskIds -> Nat], A \in SUBSET TaskIds :
              /\ c = Charges /\ A = BookedOn(g) \ {x}
              /\ TotalOf(c, A) \in Nat /\ Cardinality(A) \in Nat /\ Charge(x) \in Nat
              /\ Sized(g) => /\ gpus[g].used = TotalOf(c, A) + Charge(x)
                             /\ gpus[g].running = Cardinality(A) + 1
    BY <2>1, SetApart
  <2>3. Sized(g)' => gpus'[g].used = TotalOf(c, A) /\ gpus'[g].running = Cardinality(A)
    <3>1. \A a, n, k \in Nat : (a + k) - k = a /\ (n + 1) - 1 = n
      OBVIOUS
    <3>2. /\ (TotalOf(c, A) + Charge(x)) - Charge(x) = TotalOf(c, A)
          /\ (Cardinality(A) + 1) - 1 = Cardinality(A)
      BY <2>2, <3>1
    <3> QED BY <1>2, <1>5, <2>2, <3>2
  <2>4. Charges' = Charges
    BY DEF Charges, Charge
  <2> SUFFICES ASSUME NEW d \in [TaskIds -> Nat], NEW B \in SUBSET TaskIds,
                      d = Charges', B = BookedOn(g)', Sized(g)'
               PROVE  gpus'[g].used = TotalOf(d, B) /\ gpus'[g].running = Cardinality(B)
    BY DEF Balanced
  <2>5. d = c /\ B = A
    BY <1>3, <2>2, <2>4
  <2> QED BY <2>3, <2>5
<1> QED BY <1>4, <1>5

\* A preemption gives back the VRAM of the request, which is its charge if it is one.
LEMMA KillBalances ==
    ASSUME LedgerInv, TypeInv', AsksFrom(Nat)', NEW v \in TaskIds, PreemptKill(v),
           NEW g \in GPUs \ GPUReqs
    PROVE  Balanced(g)'
<1> DEFINE home == tasks[v].gpuReq
<1>1. v \in runningTasks /\ Preempted' = Preempted \cup {v}
  BY KillRemembers DEF LedgerInv, BooksInv
<1>2. tasks' = tasks /\ runningTasks' = runningTasks \ {v}
  BY DEF PreemptKill
<1>3. gpus \in [GPUs -> Usage]
  BY BookedAreTasks
<1>4. home = g => g \in registered
  BY <1>1 DEF LedgerInv, PlacedTasks
<1>5. registered \subseteq GPUs
  BY DEF LedgerInv, BooksInv, LinkInv, TypeInv, TypeOK
<1>6. gpus' = IF home \in registered
              THEN Recount(home, gpus[home].used - tasks[v].vram, gpus[home].running - 1)
              ELSE gpus
  BY DEF PreemptKill
<1> HIDE DEF home
<1>7. home # g => gpus'[g] = gpus[g]
  BY <1>3, <1>5, <1>6, RecountAt
<1>8. home = g => /\ gpus'[g].used = gpus[g].used - tasks[v].vram
                  /\ gpus'[g].running = gpus[g].running - 1
  BY <1>3, <1>4, <1>6, RecountAt
<1>9. home = g /\ Sized(g)' => tasks[v].vram = Charge(v)
  BY <1>1, <1>2 DEF Sized, Charge, home
<1> QED BY <1>1, <1>2, <1>7, <1>8, <1>9, GivesBack DEF home

\* A release gives back what the task was charged; the clamps at zero do nothing.
LEMMA ReleaseBalances ==
    ASSUME LedgerInv, TypeInv', AsksFrom(Nat)', AccountRelease, NEW g \in GPUs \ GPUReqs
    PROVE  Balanced(g)'
<1> DEFINE x == op.task
           home == tasks[x].gpuReq
<1>1. x \in runningTasks /\ x \in TaskIds
  BY ReleaseFinishes, BookedAreTasks DEF LedgerInv, BooksInv
<1>2. tasks' = tasks /\ runningTasks' = runningTasks \ {x} /\ Preempted' = Preempted
  BY DEF AccountRelease, Preempted
<1>3. gpus \in [GPUs -> Usage]
  BY BookedAreTasks
<1>4. home = g => g \in registered
  BY <1>1 DEF LedgerInv, PlacedTasks
<1>5. registered \subseteq GPUs
  BY DEF LedgerInv, BooksInv, LinkInv, TypeInv, TypeOK
<1>6. gpus' = IF home \in registered
              THEN Recount(home, AtLeastZero(gpus[home].used - Refund(x)),
                           AtLeastZero(gpus[home].running - 1))
              ELSE gpus
  BY DEF AccountRelease
<1>7. Refund(x) = Charge(x)
  BY <1>1, ChargesNat DEF LedgerInv, BooksInv, LinkInv
<1>8. home = g => x \in BookedOn(g)
  BY <1>1 DEF BookedOn
<1>9. Sized(g)' => Sized(g)
  BY <1>2 DEF Sized
<1> HIDE DEF home, x
<1>10. home # g => gpus'[g] = gpus[g]
  BY <1>3, <1>5, <1>6, RecountAt
<1>11. ASSUME home = g, Sized(g)'
       PROVE  /\ gpus'[g].used = gpus[g].used - Charge(x)
              /\ gpus'[g].running = gpus[g].running - 1
  <2>1. PICK c \in [TaskIds -> Nat], A \in SUBSET TaskIds :
           /\ TotalOf(c, A) \in Nat /\ Cardinality(A) \in Nat /\ Charge(x) \in Nat
           /\ Sized(g) => /\ gpus[g].used = TotalOf(c, A) + Charge(x)
                          /\ gpus[g].running = Cardinality(A) + 1
    BY <1>8, <1>11, SetApart
  <2>2. /\ AtLeastZero(gpus[g].used - Charge(x)) = gpus[g].used - Charge(x)
        /\ AtLeastZero(gpus[g].running - 1) = gpus[g].running - 1
    <3>1. gpus[g].used - Charge(x) >= 0 /\ gpus[g].running - 1 >= 0
      BY <1>9, <1>11, <2>1
    <3> QED BY <3>1, <1>9, <1>11, <2>1 DEF AtLeastZero
  <2>3. gpus' = Recount(g, AtLeastZero(gpus[g].used - Charge(x)),
                        AtLeastZero(gpus[g].running - 1))
    BY <1>4, <1>6, <1>7, <1>11
  <2> QED BY <1>3, <2>2, <2>3, RecountAt
<1> QED BY <1>1, <1>2, <1>10, <1>11, GivesBack DEF home

LEMMA LedgerStep ==
    ASSUME Reports = {}, Registrations = {}, VRAMs \subseteq Nat, LedgerInv, [Next]_vars
    PROVE  LedgerInv'
<1>1. BooksInv' /\ AsksFrom(Nat)' /\ PlacedTasks' /\ PlacedOp'
  <2>1. AsksFrom(Nat)'
    BY AsksStep DEF LedgerInv, BooksInv, LinkInv
  <2> QED BY <2>1, BooksStep, PlacedTasksStep, PlacedOpStep DEF LedgerInv
<1>2. TypeInv' /\ AsksFrom(Nat)'
  BY <1>1 DEF BooksInv, LinkInv
<1> SUFFICES ASSUME NEW g \in GPUs \ GPUReqs PROVE Balanced(g)'
  BY <1>1 DEF LedgerInv
<1>3. CASE AccountTask
  BY <1>2, <1>3, AccountBalances
<1>4. CASE AccountRelease
  BY <1>2, <1>4, ReleaseBalances
<1>5. ASSUME NEW v \in TaskIds, PreemptKill(v) PROVE Balanced(g)'
  BY <1>2, <1>5, KillBalances
<1>6. CASE ~AccountTask /\ ~AccountRelease /\ \A v \in TaskIds : ~PreemptKill(v)
  <2>1. gpus' = gpus
    BY <1>6, UsageSteps DEF Quiet, ScheduleSucceeds, OnlyOp, LedgerInv, BooksInv, LinkInv
  <2>2. /\ Preempted' = Preempted
        /\ \/ runningTasks' = runningTasks
           \/ \E t \in Range(Waiting) : runningTasks' = runningTasks \cup {t}
    BY <1>6, OtherMoves DEF LedgerInv, BooksInv
  <2>3. \A t \in Range(Waiting) \cup runningTasks \cup Preempted : tasks'[t] = tasks[t]
    BY AdmittedFixed, BooksAdmitted DEF LedgerInv
  <2>4. \A t \in Range(Waiting) : tasks[t].gpuReq # g
    BY DEF LedgerInv, PlacedTasks
  <2>5. BookedOn(g)' = BookedOn(g)
    BY <2>2, <2>3, <2>4 DEF BookedOn
  <2>6. \A t \in BookedOn(g) : tasks'[t] = tasks[t]
    BY <2>3 DEF BookedOn
  <2>7. Sized(g)' => Sized(g)
    BY <2>2, <2>3 DEF Sized
  <2>8. TypeInv /\ AsksFrom(Nat) /\ Balanced(g) /\ g \in GPUs
    BY DEF LedgerInv, BooksInv, LinkInv
  <2> QED BY <1>2, <2>1, <2>5, <2>6, <2>7, <2>8, StaysBalanced
<1> QED BY <1>3, <1>4, <1>5, <1>6

LEMMA InitLedger == Init => LedgerInv
<1> SUFFICES ASSUME Init PROVE LedgerInv
  OBVIOUS
<1>1. BooksInv
  BY InitBooksInv
<1>2. AsksFrom(Nat)
  BY DEF Init, AsksFrom
<1>3. op.pc = "idle" /\ Waiting = <<>> /\ runningTasks = {}
  BY IdleType DEF Init, Waiting
<1>4. PlacedTasks /\ PlacedOp
  <2>1. Range(<<>>) = {}
    BY DEF Range
  <2> QED BY <1>3, <2>1 DEF PlacedTasks, PlacedOp, InFlight
<1>5. ASSUME NEW g \in GPUs PROVE Balanced(g)
  <2>1. gpus[g].used = 0 /\ gpus[g].running = 0 /\ BookedOn(g) = {}
    BY <1>3 DEF Init, BookedOn
  <2>2. \A c \in [TaskIds -> Nat] : TotalOf(c, {}) = 0 /\ Cardinality({}) = 0
    BY TotalNone
  <2> QED BY <2>1, <2>2 DEF Balanced
<1> QED BY <1>1, <1>2, <1>4, <1>5 DEF LedgerInv

\* While no monitor reports, no GPU is registered anew and no request asks for a negative
\* amount, the usage of a GPU is what its running tasks were charged.
THEOREM LedgerKept ==
    ASSUME Reports = {}, Registrations = {}, VRAMs \subseteq Nat
    PROVE  Spec => []LedgerBalances
<1>1. LedgerInv => LedgerBalances
  <2> SUFFICES ASSUME LedgerInv, NEW g \in GPUs \ GPUReqs, Sized(g)
               PROVE  /\ gpus[g].used = SumFunction([t \in BookedOn(g) |-> Charge(t)])
                      /\ gpus[g].running = Cardinality(BookedOn(g))
    BY DEF LedgerBalances, Sized, BookedOn
  <2>1. Charges \in [TaskIds -> Nat] /\ BookedOn(g) \in SUBSET TaskIds
    BY ChargesNat, BookedAreTasks DEF LedgerInv, BooksInv, LinkInv
  <2>2. /\ gpus[g].used = TotalOf(Charges, BookedOn(g))
        /\ gpus[g].running = Cardinality(BookedOn(g))
    BY <2>1 DEF LedgerInv, Balanced
  <2>3. [t \in BookedOn(g) |-> Charges[t]] = [t \in BookedOn(g) |-> Charge(t)]
    BY <2>1 DEF Charges
  <2> QED BY <2>2, <2>3 DEF TotalOf
<1>2. LedgerInv /\ [Next]_vars => LedgerInv'
  BY LedgerStep
<1> QED BY InitLedger, <1>1, <1>2, PTL DEF Spec
==============================================================================
