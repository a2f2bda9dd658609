---------------------------- MODULE ExecutorProofs ----------------------------
(***************************************************************************)
(* What module Executor promises, proved for any number of tasks and of     *)
(* process ids, with and without timeouts, descendants and tree kills.      *)
(***************************************************************************)
EXTENDS Executor, TLAPS

\* A monitor that is past its waiting has seen cmd.Wait return.
Past == {"locking", "notifying", "releasing", "done"}
MonitorsPast == \A t \in Tasks : mon[t] \in Past => WaitReturns(t)

\* Only a monitor that has reported calls a task completed, which fixes its exit value.
CompletedIsTold == \A t \in started : status[t] = "completed" => Told(t)

\* A process has an exit value exactly when its main part has ended, and only a task
\* that was started has a process.
ExitsMatch == \A t \in Tasks : /\ (exit[t] = "none") = (proc[t] \in {"none", "alive"})
                               /\ (proc[t] = "none") = (t \notin started)

StatusType == status \in [Tasks -> {"new", "pending", "running", "completed", "failed",
                                    "timeout", "killed"}]

\* The inductive invariant: ToldAfterExit needs it from the moment a monitor goes to
\* take the mutex, StatusMatchesExit that an exit value which a status speaks of is kept.
IInv == /\ StatusType /\ TypeOK /\ MonitorsPast /\ ExitsMatch /\ CompletedIsTold
        /\ StatusMatchesExit

------------------------------------------------------------------------------
\* A kill ends only main processes that are alive.
LEMMA KillEnds ==
    ASSUME IInv, NEW pids, Kill(pids)
    PROVE  /\ proc' \in [Tasks -> {"none", "alive", "orphans", "detached", "exited"}]
           /\ exit' \in [Tasks -> {"none", "ok", "error", "output", "killed"}]
           /\ \A t \in Tasks :
                 \/ proc'[t] = proc[t] /\ exit'[t] = exit[t]
                 \/ /\ proc[t] = "alive" /\ exit[t] = "none"
                    /\ proc'[t] \in {"orphans", "detached", "exited"} /\ exit'[t] = "killed"
<1> USE DEF IInv
<1>1. PICK left \in [Hit(pids) -> {"orphans", "detached", "exited"}] :
         proc' = [u \in Tasks |-> IF u \in Hit(pids) THEN left[u] ELSE proc[u]]
  BY DEF Kill
<1>2. exit' = [u \in Tasks |-> IF u \in Hit(pids) THEN "killed" ELSE exit[u]]
  BY DEF Kill
<1>3. \A u \in Hit(pids) : u \in Tasks /\ proc[u] = "alive" /\ exit[u] = "none"
  BY DEF Hit, ExitsMatch
<1>4. proc \in [Tasks -> {"none", "alive", "orphans", "detached", "exited"}]
      /\ exit \in [Tasks -> {"none", "ok", "error", "output", "killed"}]
  BY DEF TypeOK
<1> QED BY <1>1, <1>2, <1>3, <1>4

LEMMA InitInv == Init => IInv
<1> SUFFICES ASSUME Init PROVE IInv
  OBVIOUS
<1> USE ExecutorAssumption DEF Init
<1>1. StatusType
  BY DEF StatusType
<1>2. TypeOK
  <2>1. \A t \in Tasks : emu # t /\ mon[t] = "none" /\ pid[t] = 0
    OBVIOUS
  <2>2. \A t \in Tasks : /\ (t \in started) = (pid[t] # 0) /\ (t \in started) = (mon[t] # "none")
                         /\ (emu = t) = (mon[t] \in {"notifying", "releasing"})
    BY <2>1
  <2>3. /\ started \subseteq Tasks /\ emu \in Tasks \cup {0} /\ down \in BOOLEAN
        /\ proc \in [Tasks -> {"none", "alive", "orphans", "detached", "exited"}]
        /\ pid \in [Tasks -> PIDs \cup {0}]
    OBVIOUS
  <2>4. /\ exit \in [Tasks -> {"none", "ok", "error", "output", "killed"}]
        /\ expired \in [Tasks -> BOOLEAN] /\ mon \in [Tasks -> MonitorPCs]
    BY DEF MonitorPCs
  <2> QED BY <2>2, <2>3, <2>4 DEF TypeOK
<1>3. MonitorsPast /\ ExitsMatch /\ CompletedIsTold /\ StatusMatchesExit
  BY DEF MonitorsPast, Past, ExitsMatch, CompletedIsTold, StatusMatchesExit
<1> QED BY <1>1, <1>2, <1>3 DEF IInv

\* What a kill does to processes breaks no part of the invariant, whatever status the
\* task t gets with it and wherever the monitor of t goes to wait.
LEMMA KillKeeps ==
    ASSUME IInv, NEW pids, Kill(pids), UNCHANGED started,
           \A t \in started : \/ status'[t] = status[t]
                              \/ status'[t] = "killed" /\ exit'[t] # "none",
           \A t \in Tasks : \/ mon'[t] = mon[t]
                            \/ mon[t] = "waiting" /\ mon'[t] = "reaping",
           UNCHANGED expired
    PROVE  MonitorsPast' /\ ExitsMatch' /\ CompletedIsTold' /\ StatusMatchesExit'
<1> USE DEF IInv
<1>1. \A t \in Tasks : \/ proc'[t] = proc[t] /\ exit'[t] = exit[t]
                       \/ /\ proc[t] = "alive" /\ exit[t] = "none"
                          /\ proc'[t] \in {"orphans", "detached", "exited"}
                          /\ exit'[t] = "killed"
  BY KillEnds
<1>2. MonitorsPast'
  BY <1>1 DEF MonitorsPast, Past, WaitReturns
<1>3. ExitsMatch'
  BY <1>1 DEF ExitsMatch
<1>4. started \subseteq Tasks
  BY DEF TypeOK
<1>5. CompletedIsTold'
  BY <1>4 DEF CompletedIsTold, Told
<1>6. \A t \in started : /\ exit[t] # "none" => exit'[t] = exit[t]
                         /\ Told(t)' => Told(t)
  BY <1>1, <1>4 DEF Told
<1>7. StatusMatchesExit'
  <2> SUFFICES ASSUME NEW t \in started
               PROVE  /\ status'[t] = "running" => ~Told(t)'
                      /\ status'[t] = "completed" => exit'[t] = "ok"
                      /\ status'[t] = "failed" => exit'[t] \notin {"none", "ok"}
                      /\ status'[t] = "timeout" => expired'[t] /\ exit'[t] # "none"
                      /\ status'[t] = "killed" => exit'[t] # "none"
    BY DEF StatusMatchesExit
  <2>1. CASE status'[t] = status[t]
    BY <1>1, <1>4, <1>6, <2>1 DEF StatusMatchesExit
  <2>2. CASE status'[t] = "killed" /\ exit'[t] # "none"
    BY <2>2
  <2> QED BY <2>1, <2>2
<1> QED BY <1>2, <1>3, <1>5, <1>7

LEMMA StopTaskInv == ASSUME IInv, NEW t \in Tasks, StopTask(t) PROVE IInv'
<1> USE DEF IInv
<1>1. Kill({pid[t]})
  BY DEF StopTask
<1>2. UNCHANGED <<started, pid, expired, mon, emu, down>>
      /\ status' = [status EXCEPT ![t] = "killed"] /\ t \in started
  BY DEF StopTask
<1>3. StatusType' /\ TypeOK'
  BY <1>1, <1>2, KillEnds DEF StatusType, TypeOK
<1>4. exit'[t] # "none"
  <2>1. CASE proc[t] = "alive"
    BY <1>1, <2>1 DEF Kill, Hit
  <2>2. CASE proc[t] # "alive"
    BY <1>1, <1>2, <2>2, KillEnds DEF ExitsMatch, TypeOK
  <2> QED BY <2>1, <2>2
<1>5. \A u \in started : status'[u] = status[u] \/ (status'[u] = "killed" /\ exit'[u] # "none")
  BY <1>2, <1>4 DEF StatusType, TypeOK
<1> QED BY <1>1, <1>2, <1>3, <1>5, KillKeeps

LEMMA ShutdownInv == ASSUME IInv, Shutdown PROVE IInv'
<1> USE DEF IInv
<1>1. PICK pids : Kill(pids)
  BY DEF Shutdown
<1>2. UNCHANGED <<status, started, pid, expired, mon, emu>> /\ down' \in BOOLEAN
  BY DEF Shutdown
<1>3. StatusType' /\ TypeOK'
  BY <1>1, <1>2, KillEnds DEF StatusType, TypeOK
<1> QED BY <1>1, <1>2, <1>3, KillKeeps

LEMMA SubmitTaskInv ==
    ASSUME IInv, NEW t \in Tasks, NEW p \in PIDs, SubmitTask(t, p)
    PROVE  IInv'
<1> USE ExecutorAssumption DEF IInv, SubmitTask, WaitReturns, Told
<1>1. StatusType' /\ TypeOK'
  BY DEF StatusType, TypeOK, MonitorPCs
<1>2. MonitorsPast' /\ ExitsMatch'
  BY DEF MonitorsPast, Past, ExitsMatch, TypeOK
<1>3. CompletedIsTold' /\ StatusMatchesExit'
  BY DEF CompletedIsTold, StatusMatchesExit, StatusType, TypeOK
<1> QED BY <1>1, <1>2, <1>3

------------------------------------------------------------------------------
LEMMA MonitorInv == ASSUME IInv, NEW t \in Tasks, Monitor(t) PROVE IInv'
<1> USE ExecutorAssumption DEF IInv, WaitReturns, Told
<1>1. CASE MonitorSeesExit(t) \/ MonitorReaps(t)
  <2>1. /\ mon[t] \in {"waiting", "reaping"} /\ mon' = [mon EXCEPT ![t] = "locking"]
        /\ WaitReturns(t)
        /\ UNCHANGED <<status, started, proc, pid, exit, expired, emu, down>>
    BY <1>1 DEF MonitorSeesExit, MonitorReaps
  <2>2. StatusType' /\ TypeOK'
    BY <2>1 DEF StatusType, TypeOK, MonitorPCs
  <2>3. MonitorsPast'
    BY <2>1 DEF MonitorsPast, Past, TypeOK
  <2>4. ExitsMatch' /\ CompletedIsTold' /\ StatusMatchesExit'
    BY <2>1 DEF ExitsMatch, CompletedIsTold, StatusMatchesExit, TypeOK
  <2> QED BY <2>2, <2>3, <2>4
<1>2. CASE MonitorSeesDeadline(t)
  <2>1. PICK pids : Kill(pids)
    BY <1>2 DEF MonitorSeesDeadline
  <2>2. /\ UNCHANGED <<status, started, pid, expired, emu, down>>
        /\ mon[t] = "waiting" /\ mon' = [mon EXCEPT ![t] = "reaping"]
    BY <1>2 DEF MonitorSeesDeadline
  <2>3. StatusType' /\ TypeOK'
    BY <2>1, <2>2, KillEnds DEF StatusType, TypeOK, MonitorPCs
  <2>4. \A u \in Tasks : mon'[u] = mon[u] \/ (mon[u] = "waiting" /\ mon'[u] = "reaping")
    BY <2>2 DEF TypeOK
  <2> QED BY <2>1, <2>2, <2>3, <2>4, KillKeeps
<1>3. CASE MonitorLocks(t)
  <2> USE <1>3 DEF MonitorLocks
  <2>1. WaitReturns(t) /\ exit[t] # "none"
    BY DEF MonitorsPast, Past, ExitsMatch
  <2>2. StatusType' /\ TypeOK'
    BY DEF StatusType, TypeOK, MonitorPCs
  <2>3. MonitorsPast' /\ ExitsMatch'
    BY <2>1 DEF MonitorsPast, Past, ExitsMatch, TypeOK
  <2>4. CompletedIsTold' /\ StatusMatchesExit'
    BY <2>1 DEF CompletedIsTold, StatusMatchesExit, StatusType, TypeOK
  <2> QED BY <2>2, <2>3, <2>4
<1>4. CASE MonitorNotifies(t) \/ MonitorReturns(t)
  <2>1. /\ mon[t] \in {"notifying", "releasing"}
        /\ mon' = [mon EXCEPT ![t] = "releasing"] \/ mon' = [mon EXCEPT ![t] = "done"]
        /\ UNCHANGED <<status, started, proc, pid, exit, expired, down>>
    BY <1>4 DEF MonitorNotifies, MonitorReturns
  <2>2. TypeOK'
    <3>1. emu = t /\ \A u \in Tasks : u # 0
      BY <2>1 DEF TypeOK
    <3>2. CASE MonitorNotifies(t)
      BY <3>2 DEF MonitorNotifies, TypeOK, MonitorPCs
    <3>3. CASE MonitorReturns(t)
      BY <3>1, <3>3 DEF MonitorReturns, TypeOK, MonitorPCs
    <3> QED BY <1>4, <3>2, <3>3
  <2>3. StatusType' /\ MonitorsPast' /\ ExitsMatch'
    BY <2>1 DEF StatusType, MonitorsPast, Past, ExitsMatch, TypeOK
  <2>4. CompletedIsTold' /\ StatusMatchesExit'
    BY <2>1 DEF CompletedIsTold, StatusMatchesExit, TypeOK
  <2> QED BY <2>2, <2>3, <2>4
<1> QED BY <1>1, <1>2, <1>3, <1>4 DEF Monitor

LEMMA OperatingSystemInv == ASSUME IInv, NEW t \in Tasks, OperatingSystem(t) PROVE IInv'
<1> USE DEF IInv, WaitReturns, Told
<1>1. ASSUME NEW code \in Exits, ProcessExits(t, code)
      PROVE  IInv'
  <2>0. code \in {"ok", "error", "output"}
    BY ExecutorAssumption
  <2>1. PICK p \in {"exited", "orphans", "detached"} : proc' = [proc EXCEPT ![t] = p]
    BY <1>1 DEF ProcessExits, Leftovers
  <2> USE <1>1, <2>0, <2>1 DEF ProcessExits
  <2>2. StatusType' /\ TypeOK'
    BY DEF StatusType, TypeOK
  <2>3. MonitorsPast' /\ ExitsMatch'
    BY DEF MonitorsPast, Past, ExitsMatch, TypeOK
  <2>4. CompletedIsTold' /\ StatusMatchesExit'
    BY DEF CompletedIsTold, StatusMatchesExit, ExitsMatch, TypeOK
  <2> QED BY <2>2, <2>3, <2>4
<1>2. CASE OutputEnds(t)
  <2>1. PICK p \in {"detached", "exited"}, code \in {exit[t]} \cup {"output"} :
           /\ proc' = [proc EXCEPT ![t] = p] /\ exit' = [exit EXCEPT ![t] = code]
           /\ code # exit[t] => exit[t] = "ok"
    BY <1>2 DEF OutputEnds
  <2>2. proc[t] = "orphans" /\ UNCHANGED <<status, started, pid, expired, mon, emu, down>>
    BY <1>2 DEF OutputEnds
  <2>3. StatusType' /\ TypeOK'
    BY <2>1, <2>2 DEF StatusType, TypeOK
  <2>4. MonitorsPast' /\ ExitsMatch' /\ CompletedIsTold'
    BY <2>1, <2>2 DEF MonitorsPast, ExitsMatch, CompletedIsTold, TypeOK
  <2>5. ~Told(t) /\ exit[t] # "none" /\ status[t] # "completed"
    BY <2>2 DEF MonitorsPast, Past, ExitsMatch, CompletedIsTold
  <2>6. StatusMatchesExit'
    BY <2>1, <2>2, <2>5 DEF StatusMatchesExit, TypeOK
  <2> QED BY <2>3, <2>4, <2>6
<1>3. CASE DescendantsExit(t)
  <2> USE <1>3 DEF DescendantsExit
  <2>1. StatusType' /\ TypeOK'
    BY DEF StatusType, TypeOK
  <2>2. MonitorsPast' /\ ExitsMatch'
    BY DEF MonitorsPast, ExitsMatch, TypeOK
  <2>3. CompletedIsTold' /\ StatusMatchesExit'
    BY DEF CompletedIsTold, StatusMatchesExit
  <2> QED BY <2>1, <2>2, <2>3
<1>4. CASE DeadlinePasses(t)
  <2> USE <1>4 DEF DeadlinePasses
  <2>1. StatusType' /\ TypeOK'
    BY DEF StatusType, TypeOK
  <2>2. MonitorsPast' /\ ExitsMatch' /\ CompletedIsTold'
    BY DEF MonitorsPast, ExitsMatch, CompletedIsTold
  <2>3. StatusMatchesExit'
    BY DEF StatusMatchesExit, TypeOK
  <2> QED BY <2>1, <2>2, <2>3
<1> QED BY <1>1, <1>2, <1>3, <1>4 DEF OperatingSystem

LEMMA StepInv == IInv /\ [Next]_vars => IInv'
<1> SUFFICES ASSUME IInv, [Next]_vars PROVE IInv'
  OBVIOUS
<1> USE DEF WaitReturns, Told
<1>1. CASE UNCHANGED vars
  BY <1>1 DEF vars, evars, IInv, StatusType, TypeOK, MonitorsPast, ExitsMatch, CompletedIsTold,
              StatusMatchesExit
<1>2. ASSUME NEW t \in Tasks, RefuseTask(t) /\ UNCHANGED status PROVE IInv'
  BY <1>2 DEF RefuseTask, evars, IInv, StatusType, TypeOK, MonitorsPast, ExitsMatch,
              CompletedIsTold, StatusMatchesExit
<1>3. ASSUME NEW t \in Tasks, NEW s \in {"pending", "running", "failed", "killed"},
             SchedulerWritesStatus(t, s)
      PROVE  IInv'
  <2>1. UNCHANGED evars /\ status' = [status EXCEPT ![t] = s] /\ t \notin started
    BY <1>3 DEF SchedulerWritesStatus
  <2> QED BY <2>1 DEF evars, IInv, StatusType, TypeOK, MonitorsPast, ExitsMatch,
                      CompletedIsTold, StatusMatchesExit
<1> QED BY <1>1, <1>2, <1>3, SubmitTaskInv, StopTaskInv, ShutdownInv, MonitorInv,
           OperatingSystemInv DEF Next

\* Type correctness, and with it that a task has a process id and a monitor exactly
\* when it was started, and that Executor.mu has one holder.
THEOREM TypeCorrect == Spec => []TypeOK
<1>1. IInv => TypeOK
  BY DEF IInv
<1> QED BY InitInv, StepInv, <1>1, PTL DEF Spec

\* monitorTask tells the scheduler that a task is done only after its main process has
\* exited and nobody holds output of it that is still copied.
THEOREM ToldOnlyAfterExit == Spec => []ToldAfterExit
<1>1. IInv => ToldAfterExit
  BY DEF IInv, MonitorsPast, Past, Told, ToldAfterExit
<1> QED BY InitInv, StepInv, <1>1, PTL DEF Spec

\* Whatever order monitorTask and StopTask write it in, the status of a started task is
\* one that its process's end allows; killed says only that the main process is over.
THEOREM StatusFollowsExit == Spec => []StatusMatchesExit
<1>1. IInv => StatusMatchesExit
  BY DEF IInv
<1> QED BY InitInv, StepInv, <1>1, PTL DEF Spec
==============================================================================
