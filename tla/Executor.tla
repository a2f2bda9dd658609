------------------------------- MODULE Executor -------------------------------
(***************************************************************************)
(* internal/executor: one process and one monitor goroutine per task.       *)
(*                                                                          *)
(* Every method holds Executor.mu for its whole length; only a monitor      *)
(* keeps it across another component's code, the callback that releases the *)
(* task in the scheduler.  emu is that monitor.  A task is a shell command: *)
(* its main process may leave descendants behind.  cmd.Wait waits for the   *)
(* main process, and then for those descendants only that hold the pipe in  *)
(* which the task's output is copied; one whose output was redirected, or   *)
(* whose output is copied no more, lives on unseen.                         *)
(***************************************************************************)
EXTENDS Integers, FiniteSets

CONSTANTS
    Tasks,      \* task ids
    PIDs,       \* the process ids of the host, which are reused
    Timed,      \* tasks submitted with a Timeout
    Forking,    \* tasks whose command starts further processes
    Exits,      \* how a process may end by itself (see exit)
    KillsTree   \* TRUE: taskkill /T (Windows); FALSE: kill of the PID (Linux)

ASSUME ExecutorAssumption ==
    /\ Tasks \subseteq Nat \ {0} /\ PIDs \subseteq Nat \ {0}
    /\ Timed \subseteq Tasks /\ Forking \subseteq Tasks
    /\ Exits \subseteq {"ok", "error", "output"}
    /\ KillsTree \in BOOLEAN

VARIABLES
    status,     \* Task.Status, shared with the scheduler
    started,    \* keys of the running map, which never shrinks
    proc,       \* none or alive; without main process: orphans, when descendants hold
                \* the output pipe; detached, when some live that do not; or exited
    pid,        \* RunningTask.PID
    exit,       \* how the process ended: ok, error, killed, or output: with exit
                \* code 0, but its output could not be copied, an error for cmd.Wait
    expired,    \* the task's context has passed its deadline
    mon,        \* where the task's monitorTask goroutine is
    emu,        \* the monitor holding Executor.mu, or 0
    down        \* Shutdown was called

evars == <<started, proc, pid, exit, expired, mon, emu, down>>
vars == <<status, evars>>

MonitorPCs == {"none", "waiting", "reaping", "locking", "notifying", "releasing", "done"}

\* Every variable has its type (status is the scheduler's to type); a task has a
\* process id and a monitor once it is started, and not before; Executor.mu is held
\* by the one monitor that is calling back.
TypeOK ==
    /\ started \subseteq Tasks
    /\ proc \in [Tasks -> {"none", "alive", "orphans", "detached", "exited"}]
    /\ pid \in [Tasks -> PIDs \cup {0}]
    /\ exit \in [Tasks -> {"none", "ok", "error", "output", "killed"}]
    /\ expired \in [Tasks -> BOOLEAN]
    /\ mon \in [Tasks -> MonitorPCs]
    /\ emu \in Tasks \cup {0}
    /\ down \in BOOLEAN
    /\ \A t \in Tasks : (t \in started) = (pid[t] # 0) /\ (t \in started) = (mon[t] # "none")
    /\ \A t \in Tasks : (emu = t) = (mon[t] \in {"notifying", "releasing"})

Init ==
    /\ status = [t \in Tasks |-> "new"]
    /\ started = {}
    /\ proc = [t \in Tasks |-> "none"]
    /\ pid = [t \in Tasks |-> 0]
    /\ exit = [t \in Tasks |-> "none"]
    /\ expired = [t \in Tasks |-> FALSE]
    /\ mon = [t \in Tasks |-> "none"]
    /\ emu = 0
    /\ down = FALSE

------------------------------------------------------------------------------
(* The operating system.                                                   *)

\* A process id is in use until the main process has exited and been reaped.
FreePIDs == PIDs \ {pid[u] : u \in {v \in Tasks : proc[v] = "alive"}}

\* What may be left of a task when its main process has ended.
Leftovers(t) == {"exited"} \cup (IF t \in Forking THEN {"orphans", "detached"} ELSE {})

\* cmd.Wait has returned, or is about to.
WaitReturns(t) == proc[t] \in {"detached", "exited"}

\* killProcessTree(pid): whichever main process has that id now is killed; its
\* descendants die with it only where the whole tree is killed.
Hit(pids) == {u \in Tasks : proc[u] = "alive" /\ pid[u] \in pids}
Kill(pids) ==
    /\ \E left \in [Hit(pids) -> {"orphans", "detached", "exited"}] :
          /\ \A u \in Hit(pids) : left[u] \in IF KillsTree THEN {"exited"} ELSE Leftovers(u)
          /\ proc' = [u \in Tasks |-> IF u \in Hit(pids) THEN left[u] ELSE proc[u]]
    /\ exit' = [u \in Tasks |-> IF u \in Hit(pids) THEN "killed" ELSE exit[u]]

\* The main process ends by itself; it may leave descendants behind.  Nobody waits for
\* those when the copying of the output has failed.
ProcessExits(t, code) ==
    /\ proc[t] = "alive"
    /\ exit' = [exit EXCEPT ![t] = code]
    /\ \E p \in Leftovers(t) : /\ code = "output" => p # "orphans"
                              /\ proc' = [proc EXCEPT ![t] = p]
    /\ UNCHANGED <<status, started, pid, expired, mon, emu, down>>

\* The last holder of the output exits or closes it, or the copying fails, which is an
\* error for cmd.Wait of a process that ended well; descendants may live on.
OutputEnds(t) ==
    /\ proc[t] = "orphans"
    /\ \E p \in {"detached", "exited"} : proc' = [proc EXCEPT ![t] = p]
    /\ \E code \in {exit[t]} \cup (IF exit[t] = "ok" THEN Exits \cap {"output"} ELSE {}) :
          exit' = [exit EXCEPT ![t] = code]
    /\ UNCHANGED <<status, started, pid, expired, mon, emu, down>>

\* The descendants that nobody waits for exit.
DescendantsExit(t) ==
    /\ proc[t] = "detached"
    /\ proc' = [proc EXCEPT ![t] = "exited"]
    /\ UNCHANGED <<status, started, pid, exit, expired, mon, emu, down>>

\* The deadline of context.WithTimeout passes; cancel() ends it with the monitor.
DeadlinePasses(t) ==
    /\ t \in Timed \cap started
    /\ mon[t] # "done"
    /\ ~expired[t]
    /\ expired' = [expired EXCEPT ![t] = TRUE]
    /\ UNCHANGED <<status, started, proc, pid, exit, mon, emu, down>>

------------------------------------------------------------------------------
(* SubmitTask starts the process and its monitor.                          *)
SubmitTask(t, p) ==
    /\ emu = 0
    /\ t \notin started
    /\ p \in FreePIDs
    /\ started' = started \cup {t}
    /\ proc' = [proc EXCEPT ![t] = "alive"]
    /\ pid' = [pid EXCEPT ![t] = p]
    /\ mon' = [mon EXCEPT ![t] = "waiting"]
    /\ status' = [status EXCEPT ![t] = "running"]
    /\ UNCHANGED <<exit, expired, emu, down>>

\* SubmitTask returns an error (already in the map, no log file, no process) and
\* leaves the task's status to its caller.
RefuseTask(t) ==
    /\ emu = 0
    /\ UNCHANGED evars

\* Mutant of StopTask: the running map is not consulted.
StopUnknownTask(t) ==
    /\ emu = 0
    /\ Kill({pid[t]})
    /\ status' = [status EXCEPT ![t] = "killed"]
    /\ UNCHANGED <<started, pid, expired, mon, emu, down>>

(* StopTask kills by process id, whatever became of the task since.        *)
StopTask(t) ==
    /\ emu = 0
    /\ t \in started
    /\ Kill({pid[t]})
    /\ status' = [status EXCEPT ![t] = "killed"]
    /\ UNCHANGED <<started, pid, expired, mon, emu, down>>

Shutdown ==
    /\ emu = 0
    /\ down' = TRUE
    /\ Kill({pid[t] : t \in started})
    /\ UNCHANGED <<status, started, pid, expired, mon, emu>>

------------------------------------------------------------------------------
(* monitorTask.                                                            *)

\* Mutant of MonitorSeesExit: it waits for the main process only.
MonitorSeesMainExit(t) ==
    /\ mon[t] = "waiting"
    /\ proc[t] = "orphans" \/ WaitReturns(t)
    /\ mon' = [mon EXCEPT ![t] = "locking"]
    /\ UNCHANGED <<status, started, proc, pid, exit, expired, emu, down>>

\* The select: cmd.Wait returned, or the deadline passed; if both, either.
MonitorSeesExit(t) ==
    /\ mon[t] = "waiting"
    /\ WaitReturns(t)
    /\ mon' = [mon EXCEPT ![t] = "locking"]
    /\ UNCHANGED <<status, started, proc, pid, exit, expired, emu, down>>

\* Mutant of MonitorSeesDeadline: the process is not killed.
MonitorOnlyCancels(t) ==
    /\ mon[t] = "waiting"
    /\ expired[t]
    /\ mon' = [mon EXCEPT ![t] = "reaping"]
    /\ UNCHANGED <<status, started, proc, pid, exit, expired, emu, down>>

MonitorSeesDeadline(t) ==
    /\ mon[t] = "waiting"
    /\ expired[t]
    /\ Kill({pid[t]})
    /\ mon' = [mon EXCEPT ![t] = "reaping"]
    /\ UNCHANGED <<status, started, pid, expired, emu, down>>

\* Mutant of MonitorReaps: it does not wait after the kill.
MonitorDoesNotReap(t) ==
    /\ mon[t] = "reaping"
    /\ mon' = [mon EXCEPT ![t] = "locking"]
    /\ UNCHANGED <<status, started, proc, pid, exit, expired, emu, down>>

\* After the kill it waits for cmd.Wait to return.
MonitorReaps(t) ==
    /\ mon[t] = "reaping"
    /\ WaitReturns(t)
    /\ mon' = [mon EXCEPT ![t] = "locking"]
    /\ UNCHANGED <<status, started, proc, pid, exit, expired, emu, down>>

\* Mutants of MonitorLocks: it does not wait for the mutex; it calls any process
\* that was killed a completed one.
MonitorDoesNotLock(t) ==
    /\ mon[t] = "locking"
    /\ emu' = t
    /\ mon' = [mon EXCEPT ![t] = "notifying"]
    /\ status' = [status EXCEPT ![t] = IF expired[t] THEN "timeout"
                                       ELSE IF exit[t] = "ok" THEN "completed"
                                       ELSE "failed"]
    /\ UNCHANGED <<started, proc, pid, exit, expired, down>>

MonitorMistakesKill(t) ==
    /\ mon[t] = "locking"
    /\ emu = 0
    /\ emu' = t
    /\ mon' = [mon EXCEPT ![t] = "notifying"]
    /\ status' = [status EXCEPT ![t] = IF expired[t] THEN "timeout"
                                       ELSE IF exit[t] = "error" THEN "failed"
                                       ELSE "completed"]
    /\ UNCHANGED <<started, proc, pid, exit, expired, down>>

\* Takes the mutex and sets the final status: the context is asked again, so a
\* deadline that passed meanwhile counts, and a status of killed is replaced.
MonitorLocks(t) ==
    /\ mon[t] = "locking"
    /\ emu = 0
    /\ emu' = t
    /\ mon' = [mon EXCEPT ![t] = "notifying"]
    /\ status' = [status EXCEPT ![t] = IF expired[t] THEN "timeout"
                                       ELSE IF exit[t] = "ok" THEN "completed"
                                       ELSE "failed"]
    /\ UNCHANGED <<started, proc, pid, exit, expired, down>>

\* Calls onTaskDone with the mutex held ...
MonitorNotifies(t) ==
    /\ mon[t] = "notifying"
    /\ mon' = [mon EXCEPT ![t] = "releasing"]
    /\ UNCHANGED <<status, started, proc, pid, exit, expired, emu, down>>

\* Mutant of MonitorReturns: the mutex is not given back.
MonitorKeepsMutex(t) ==
    /\ mon[t] = "releasing"
    /\ mon' = [mon EXCEPT ![t] = "done"]
    /\ UNCHANGED <<status, started, proc, pid, exit, expired, emu, down>>

\* ... and gives it back when that returns.
MonitorReturns(t) ==
    /\ mon[t] = "releasing"
    /\ mon' = [mon EXCEPT ![t] = "done"]
    /\ emu' = 0
    /\ UNCHANGED <<status, started, proc, pid, exit, expired, down>>

\* The scheduler writes the status of a task that it has not handed over yet.
SchedulerWritesStatus(t, s) ==
    /\ t \notin started
    /\ status' = [status EXCEPT ![t] = s]
    /\ UNCHANGED evars

------------------------------------------------------------------------------
Monitor(t) == \/ MonitorSeesExit(t) \/ MonitorSeesDeadline(t) \/ MonitorReaps(t)
              \/ MonitorLocks(t) \/ MonitorNotifies(t) \/ MonitorReturns(t)

OperatingSystem(t) == \/ \E code \in Exits : ProcessExits(t, code)
                      \/ OutputEnds(t)
                      \/ DescendantsExit(t)
                      \/ DeadlinePasses(t)

Next ==
    \/ \E t \in Tasks :
          \/ \E p \in PIDs : SubmitTask(t, p)
          \/ RefuseTask(t) /\ UNCHANGED status
          \/ StopTask(t)
          \/ Monitor(t)
          \/ OperatingSystem(t)
          \/ \E s \in {"pending", "running", "failed", "killed"} : SchedulerWritesStatus(t, s)
    \/ Shutdown

Spec == Init /\ [][Next]_vars

\* Goroutines run and clocks advance; processes need not end.  Go's mutex is
\* starvation free, so a monitor that waits for it gets it when it is free again and
\* again.  Nothing is assumed of the callback: whether the scheduler takes it and
\* returns is not the executor's to say.
Fairness == \A t \in Tasks :
               /\ WF_vars(MonitorSeesExit(t) \/ MonitorSeesDeadline(t) \/ MonitorReaps(t))
               /\ SF_vars(MonitorLocks(t))
               /\ WF_vars(DeadlinePasses(t))
FairSpec == Spec /\ Fairness

------------------------------------------------------------------------------
(* What the executor promises.                                             *)

\* The monitor calls back, or has.
Told(t) == mon[t] \in {"notifying", "releasing", "done"}

\* The scheduler is told that a task is done only after its main process has exited and
\* no descendant holds output that is still copied: on the deadline branch the monitor
\* waits for cmd.Wait again after the kill.
ToldAfterExit == \A t \in Tasks : Told(t) => WaitReturns(t)

\* What the status of a started task says of its process, whichever of StopTask and the
\* monitor wrote it last.  running: its end was not reported yet.  completed: cmd.Wait
\* reported no error.  failed: it reported one, which a stop is, and output that could
\* not be copied, whatever the exit code.  timeout: the deadline passed before the report,
\* though the process may have ended before it.  killed: somebody stopped the task and
\* its main process has ended, though not always by that: StopTask writes killed over a
\* completed task as well.
StatusMatchesExit ==
    \A t \in started :
        /\ status[t] = "running" => ~Told(t)
        /\ status[t] = "completed" => exit[t] = "ok"
        /\ status[t] = "failed" => exit[t] \notin {"none", "ok"}
        /\ status[t] = "timeout" => expired[t] /\ exit[t] # "none"
        /\ status[t] = "killed" => exit[t] # "none"

\* The monitor of a task with a timeout comes to its callback, whether or not the process
\* ever ends by itself, but for two cases: descendants that the kill spared hold the
\* output for ever (USAGE.md:584-589 has the whole tree killed); or another monitor's
\* callback, under which Executor.mu is held, never returns.
TimedTaskReported ==
    \A t \in Timed : (t \in started) ~> \/ Told(t)
                                        \/ [](proc[t] = "orphans")
                                        \/ \E u \in Tasks \ {t} : [](emu = u)

------------------------------------------------------------------------------
(* What the documents say of it and the code does not do.                  *)

\* executor.go:301: a process is killed for its own task's sake: the task was
\* stopped, ran out of time, or everything is shut down.
KillsOwnProcess ==
    [][\A t \in Tasks : exit[t] # "killed" /\ exit'[t] = "killed"
          => status'[t] = "killed" \/ mon'[t] = "reaping" \/ down']_vars
==============================================================================
