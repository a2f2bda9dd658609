# A TLA+ model of the GPU scheduler

This directory models the single-node scheduler of this repository: the program
`cmd/server`, which takes GPU tasks over HTTP, puts each on one of the GPUs of the machine,
runs it as a process, and streams its output. TLC model-checks small instances of the
modules; TLAPS proves all that the runs check, but for liveness, for every value of the constants.

The source is the reference. `PROJECT.json` maps every definition to the lines it models.

```
tlc -workers 2 -config scheduler.cfg MCScheduler.tla     # one run; see "The runs"
tlapm SchedulerProofs.tla                                # the proofs
```

## 1. Inventory of the system

| component | source | state | operations | in this project |
|---|---|---|---|---|
| scheduler | `internal/scheduler/scheduler.go` | pending slice, running map, completed slice, GPU snapshots, policy, `mu` | SubmitTask, ReleaseTask, CompleteTask, CancelTask, trySchedulePendingLocked, RegisterGPU, SetDefaultPolicy, score and list queries | `Scheduler`, `TaskLifecycle`, `Scoring` |
| preemption | `internal/scheduler/preempt.go` | configuration, history | tryPreempt, UpdatePreemptConfig | `Scheduler` |
| GPU usage updates | `internal/scheduler/gpu_update.go` | the snapshots, *without* `mu` | UpdateGPUUsage | `Scheduler` |
| executor | `internal/executor/executor.go`, `executor_linux.go`, `executor_windows.go` | map of started tasks, `mu`, one monitor goroutine and one process per task | SubmitTask, StopTask, Shutdown, monitorTask, killProcessTree | `Executor` |
| task log writer | `internal/executor/sse_writer.go` | pipe, scanner goroutine, log file | Write, scanLines | `TaskLogWriter` |
| SSE manager | `pkg/sse/sse.go` | clients, three channels, goroutine `run` | Register, Unregister, Broadcast | `SSEManager` |
| server | `cmd/server/main.go` | none of its own | HTTP handlers, callbacks between the parts | `Server`, `LogStream` |
| hybrid scheduler | `internal/scheduler/hybrid_scheduler.go` | GPUs and their number | CalculateScore, Schedule, PrintScoreBreakdown | `Scoring` |
| GPU monitor | `internal/gpumonitor/monitor.go` | running flag, stop channel | Start, Stop, pollAll and its parsers, callback | `GPUMonitor` (what a poll delivers), used by `Server` |
| WebSocket manager | `pkg/websocket/manager.go` | clients map, three channels, one Send channel per client, `mu` | HandleWebSocket, readPump, writePump, run, Broadcast, BroadcastToDashboards, SendToClient | `WebSocket`, `PubSub` |
| cluster master, agent | `pkg/master`, `pkg/agent` | nodes, cluster tasks | heartbeats, dispatch | no: they do not compile (section 6) |
| the rest | metrics, preemption API, GPU stubs, statistics, pages, charts | none or constants | | no |

### How the parts interact

* An HTTP handler calls `Scheduler.SubmitTask`, which **with `Scheduler.mu` held** chooses a
  GPU, may stop other tasks through `Executor.StopTask`, books the task and calls
  `Executor.SubmitTask`, which takes `Executor.mu`.
* Each task has a goroutine `monitorTask`. When the process has ended or the deadline has
  passed it takes **`Executor.mu`**, writes the final status and calls `onTaskDone`, that is
  `Scheduler.ReleaseTask`, which takes `Scheduler.mu` and promotes pending tasks.
* The `Task` structs are shared: scheduler, `StopTask` and monitors write `Task.Status` under
  different mutexes.
* The GPU monitor replaces a GPU's whole usage every five seconds and takes no mutex at all.
  Whatever the tools do not print is delivered as 0.
* The WebSocket manager has one goroutine `run` and two goroutines per client; broadcasts to
  dashboards and messages to one client are sent by the goroutine of the caller, beside `run`.
* A process's output is copied by os/exec into a pipe, scanned into lines by a goroutine,
  announced to the SSE manager and written to the log file.

### What is hard, and what must be right

Two mutexes taken in both orders; usage counters written without a mutex; status written by
three parties; books (pending, running, finished, preempted) that must partition the tasks
whatever is cancelled, completed through the API, preempted or promoted; deadlines racing
ends of processes; process ids used after the process has gone; bounded channels that drop;
a `select` that may serve an unregistration before the registration. For each component:

* *scheduler*: a task is in one book, waiting tasks keep their order, no GPU is overbooked,
  usage is what the running tasks were charged, a release promotes all that it can;
* *preemption*: only what the configuration allows, the least important first, no more than
  needed, and no giving up while somebody is left who might have made room;
* *scoring*: the choice is the best one and does not depend on the order of a Go map, and
  preferring a type of GPU helps that type;
* *executor*: the end of a task is reported after cmd.Wait has returned, a status says what it
  says of the process whoever wrote it last, a deadline brings the report about;
* *server*: a started task gives its GPU up for a known reason only, and does so when its end is
  seen; a method that takes `Scheduler.mu` gives it back, but for the one lock cycle;
* *log stream*: order, no duplicates, no complete line lost without an error, no leaked client,
  nobody waits for a slow reader;
* *WebSocket manager*: nobody sends on a closed channel although three goroutines send on it,
  broadcasts keep their order, `run` outlives dead clients, lost clients are removed;
* *GPU monitor*: an update is about the GPU it names, and what it does not know is not zero
  (neither holds; see section 5).

`PROJECT.json` lists the hazards one by one, each at its line.

## 2. The modules

```
TaskLifecycle  <-refines-  Scheduler ----\
                                          Server (cmd/server)      SSEManager ----\
GPUMonitor (what a poll delivers) -------/                                         LogStream
                              Executor -/                          TaskLogWriter -/

Scoring (which GPU)                              PubSub  <-refines-  WebSocket

DataLemmas  <-  TaskLifecycleProofs  <-  SchedulerProofs  <-  ServerProofs  ->  ExecutorProofs
            <-  LogStreamProofs, WebSocketProofs                 ScoringProofs
```

A module `XProofs` extends module `X` and holds the theorems about it; `ServerProofs` takes those
about the two components by INSTANCE. `DataLemmas` has what the proofs need about sequences
(append, head and tail, an entry dropped, the last n) and about sums over finite sets.

**`Scheduler`** has one variable per field of the Go struct, one for the tasks' fields, one
for the statuses, and `op`: the method that holds `Scheduler.mu` and how far it is. A method
is cut into steps only where another goroutine can come between: at calls of the executor and
at reads and writes of GPU usage. `SubmitTask` is `SubmitTask`, `ScheduleSucceeds` or
`ScheduleFails` (a whole call of scheduleLocked), `PreemptKill`/`PreemptOther`/`PreemptCheck`/
`PreemptFails` (tryPreempt's loop), `AccountTask` (the booking), `Execute` (the executor's
answer) or `Enqueue`. `ReleaseTask` and `CompleteTask` continue with `AccountRelease` and
`PromoteOne` for each pending task. `UpdateGPUUsage` is possible at any moment; where it hits a
read-modify-write, either value may survive. Which eligible GPU is chosen is left open: every
result about the books holds for every choice.
A pass of scheduleLocked over the GPUs is one step; reading one GPU before and the other after
a monitor's report is not distinguished.

**`TaskLifecycle`** is the abstract specification of the books: ids in order, a queue that keeps
its order, running tasks that finish or are preempted once and never return, the latest
finished ones remembered. `Scheduler` is checked to implement it.

**`Scoring`** is what `Scheduler` leaves open: the visit of the GPUs in map order, the weighted
score, the exchange sort, the choice; beside it the second implementation in
`hybrid_scheduler.go`, whose score and choice depend on a preferred type, and the two printed
breakdowns. Scores are scaled to integers. `Scheduler`
allows every choice that `Scoring` makes, because a chosen GPU is eligible (`BestIsChosen`).

**`Executor`** has one process and one monitor per task and an operating system that ends
processes and hands out process ids again. `emu` is the monitor that keeps `Executor.mu` across
the callback; every other method holds it for one step only. `cmd.Wait` waits for the main process
and then for whoever holds the pipe in which the output is copied, which is not the same as
for all descendants. So `proc` tells apart, once the main process has gone, whether descendants
are left that hold the output (`orphans`; `cmd.Wait` goes on), descendants are left but none of
them holds it, or it is copied no more (`detached`; `cmd.Wait` returns, and nobody ever waits for
them), or nothing (`exited`). `KillsTree` is the difference between `executor_windows.go` and
`executor_linux.go`, where a kill may leave any of the three, as no process group of its own is
made for a task; the code drops the kill commands' errors, and the model has them succeed.
`Exits` says how a process may end by itself: well, with an error, or with output that could not
be copied.

**`Server`** joins the two: a step of the scheduler that calls the executor is one joint step,
possible only when `emu` is free; the callback is one that is possible only when `op` is idle.
`Completable` are the tasks that a client may complete through the API, at any moment. Reports
come from **`GPUMonitor`**: its constants are what the tools print, each field the set of the
numbers that can be read from it, and `pollAll` is what the parsers make of that.

**`TaskLogWriter`** has the process's output as numbered lines, what has been copied, announced
and written, and how `cmd.Wait` returned. **`SSEManager`** has the handlers, the three channels
and `run`. **`LogStream`** joins them by the call of `BroadcastTaskLog`, and is where a crash of
the server is seen.

**`WebSocket`** has a reader and a writer per client, the manager's three channels, the number of
messages in each client's own channel, and two sweeps over the clients map that interleave: `run`
passing on a broadcast (`serving`) and a caller in BroadcastToDashboards (`direct`). `mu` is not a
variable: the map is written only when nobody sweeps it (`MapFree`). A reader that replies to a
ping waits; all other senders drop. The connection may be lost at any moment after it was
accepted. **`PubSub`** is the abstract specification: members join once, leave once, and are given
published messages in order while they are members.

## 3. The runs

One unit of VRAM stands for 4096 MB, the default request.

| run | asks | instance |
|---|---|---|
| `scheduler` | PendingFIFO, OneBook, BookedWithinCapacity, LedgerBalances, PreemptionRules, PreemptOnlyWhenFull, GivesUpLast, QueueDrains, ImplementsLifecycle | 3 tasks, 2 GPUs of 2 and 3 units, 3 priorities (below, between and above the thresholds), sizes default/2/4, 1 or 2 GPUs asked for, 2 finished tasks kept; 1.1 million states |
| `scheduler_runtime` | TypeOK, OvershootBounded, PreemptionRules | 2 tasks, reports that wipe or fill a GPU or make it unhealthy, a GPU registered later, three other preemption configurations; 283 000 states |
| `executor` | TypeOK, ToldAfterExit, StatusMatchesExit, TimedTaskReported | 2 tasks, one with a timeout, both fork, Linux kill; 102 000 states |
| `server` | StartedNotWaiting, ImplementsScheduler, ImplementsExecutor, ReleasedAfterEnd, CycleIsFinal, ReturnsUnlessCycle, ExitFreesGPU | 2 tasks on one GPU, fair: preemption, timeout, refusal, a client that completes task 1, polls of both GPU tools; 160 000 states |
| `log_stream` | DeliveredInOrder, RegisteredAreOpen, LineLossReported, GoneIsRemoved, LogCatchesUp | 2 clients, 2 lines, every channel of capacity 1; 81 000 states |
| `websocket` | NeverPanics, ImplementsPubSub, BroadcastGoesOn, GoneIsRemoved | 2 clients with the same id, one a dashboard that pings, 2 broadcasts, every channel of capacity 1; 74 000 states |
| `scoring` | BestIsChosen, NoneDominated, PreferenceHelps, BreakdownExplains | 3 GPUs in 5 loads each, 4 task types, 4 policies, 2 priorities; 66 000 states |
| `server_deadlock` | SubmitReturns fails | the two mutexes, each waited for by the holder of the other |
| `server_promoted` | RunningIsStarted fails | a promoted task that nobody starts |
| `server_oom` | FitOnGPU fails | a report that wipes a booking |
| `executor_pid_reuse` | KillsOwnProcess fails | a stop that kills another task's process |
| `log_stream_crash` | StreamSurvives fails | unregistered before registered: a send on a closed channel |

**Why the bounds are enough.** Two tasks give every pair of a holder and a waiter, of a
preemptor and a victim, of a task that stops and one that starts with its process id; the third
one in `scheduler` gives a queue whose order can be wrong and a list of finished tasks that
overflows. One GPU makes contention, two make a choice. The channels' real capacities (64 and
256) differ from 1 only in how many events it takes to fill them. Task ids end at `MaxTasks`,
lines at `MaxLines`: counters that only grow. `CHECK_DEADLOCK` is off because all tasks may have
ended and all clients left, when a model with bounded tasks and lines stops; that methods do
return is asked by the liveness properties instead. In `server` processes end well (`Exits`) and
one task only can be completed by a client: none of its properties tells the ways to end apart,
which `executor` does with all of them, and a second completion would meet the first only in the
list of finished tasks, which `scheduler_runtime` covers.

**What the ledger needs.** `LedgerBalances` compares a GPU's usage with the sum over its running
tasks. It leaves out two ways in which the code is known to lose the balance: a promoted task
keeps the number of GPUs it asked for where the others have the id of their GPU, so that its
release refunds the GPU of that id (in the run the numbers are 1 and 2 and the ledger is that of
GPU 0); and a preempted task of the default size gets nothing back. Both are in section 5.

**Fairness.** Every goroutine that can run does. Go's mutexes are starvation free, so a goroutine
waiting for one that is free again and again gets it, and `select` takes at random one of the
ready cases, so none is passed over for ever: strong fairness. A goroutine is sequential, hence
in `Server` one condition for the handler or monitor that is inside the scheduler, as a whole, and
one for each monitor; in `WebSocket` one for each pump, and one for each case of `run`'s `select`.
Deadlines pass: a task's timeout, the minute after which a silent connection cannot be read,
the next ping that cannot be written. Clients need not call and processes need not end.

No component's fairness takes another component's call for granted. `Executor` assumes nothing of
the callback, neither that it is taken nor that it returns: `TimedTaskReported` ends with
the monitor at its callback, and lists a mutex that another callback keeps for ever among the two
cases in which it does not come to that. Whether calls do return is a question for `Server`, where
both sides are: there `ReturnsUnlessCycle` and `ExitFreesGPU` say that they do unless the two mutexes
are in the cycle, and `server_deadlock` that they may be. `Scheduler`, whose calls of the executor
may wait for ever, has no liveness property of its own.

## 4. What is proved

Every invariant and every action property that a run checks, and the four refinements, are
theorems, for any number of tasks, GPUs, process ids, clients and lines, any requests and any
capacities of the channels. Each follows from an inductive invariant: the property as it stands
is hardly ever inductive, because a method is cut into steps and the property speaks of the
moment between them. The invariant says what a method that is under way relies on.

**Scheduler** (`SchedulerProofs`)

* `TypeCorrect`: `TypeOK`. `TypeInv` adds which fields of `op` are in use at each step.
* `CapacityRespected`: `BookedWithinCapacity`, without monitor reports and for non-negative
  requests. Booking adds the charge of a task that was compared with the free VRAM in an earlier
  step. `BookedInv` adds that between the check and the booking the task still fits
  (`CheckHolds`), which every step in between preserves because only the holder of the mutex
  books; and that no task asked for less than nothing, so that a refund never books (`AsksFrom`).
* `OvershootIsBounded`: `OvershootBounded`, with the monitor racing at will and reporting no more
  than a GPU has: the check may be stale when the task is booked, but usage was within capacity
  when it was made or was replaced by a report since, so that it is passed by at most one request.
* `ReleaseDrainsQueue`: `QueueDrains`, without monitor reports. In the middle of
  trySchedulePendingLocked a task that was passed over means that no GPU has room for the default
  size (`KeptForWantOfRoom`): promoting books nothing, so that the usage the first one was refused
  for is the usage at the end of the scan.
* `LifecycleImplemented`: the refinement of `TaskLifecycle`. `LinkInv` adds that the submitted task
  is the last one, the released one runs, and so do all that may still be killed (`OpMatches`).
* `QueueInOrder` and `InOneBook`: `PendingFIFO` and `OneBook`. They are proved of the abstract
  specification (`TaskLifecycleProofs!BooksKept`, invariant `Books`: only admitted tasks, an
  ascending queue, disjoint books) and read through the refinement mapping.
* `LedgerKept`: `LedgerBalances`, without monitor reports, without GPUs replaced at runtime and for
  non-negative requests. `LedgerInv` joins the books, which say that a task is neither charged nor
  given back twice, with what is known of the field gpuReq (`PlacedTasks`, `PlacedOp`): a task that
  was booked on no GPU still has the number its request gave, and a running task with another
  number has that of a registered GPU. That the clamps at zero of a release never act follows from
  the sum of the other charges not being negative (`SetApart`).
* `PreemptionFollowsRules`: `PreemptionRules`. `RulesInv`: while the loop runs, the configuration
  still permits every victim that is left, and no task outside the list that still runs is less
  important than one in it, since victims are taken from its least important end.
* `KillsOnlyWhenFull`: `PreemptOnlyWhenFull`, without monitor reports: at the head of the loop no GPU
  is eligible (`NoRoom`), which the resource check re-establishes after each kill: it does not ask
  for health, so that when it fails no GPU has the room, healthy or not.
* `GivesUpWithNobodyLeft`: `GivesUpLast`, with reports and configurations as they like: `RulesInv` has
  under the policy kill that whoever may still be killed is in the list of victims that are left.

**Executor** (`ExecutorProofs`): `TypeCorrect`, `ToldOnlyAfterExit` and `StatusFollowsExit`. A monitor
that goes to take the mutex has seen cmd.Wait return (`MonitorsPast`), which stays so because only
processes that are alive are killed (`KillEnds`); an exit value is set when the main process ends
(`ExitsMatch`) and changes later only if copying the output fails, before any monitor calls the
task completed (`CompletedIsTold`). `StatusMatchesExit` says of each status what it means, which is
less than the documents say: killed means that the main process has ended, no more, since
StopTask writes it over a completed task as well (section 5).

**Server** (`ServerProofs`): `ServerInv` is the conjunction of the two components' invariants and of
`StartInv`, which joins them: a started task was submitted, does not wait, and has a status that
only the executor changes. From it

* `IsScheduler` and `IsExecutor`: each component sees of the other only what its own module
  lets its environment do, so that what is proved of it alone holds in the composition;
  `ComponentsKeepPromises` draws that conclusion;
* `StartedTasksDoNotWait` and `NobodyLeavesCycle`: `StartedNotWaiting`, and `CycleIsFinal`, that no
  step ends the deadlock of the two mutexes;
* `BookedUntilEnd`: `ReleasedAfterEnd`. A release that is under way was called by the task's monitor,
  which holds `Executor.mu` until it returns, or by a client (`ReleaseOwner`). It is no promise that
  the GPU is idle: descendants that do not hold the output live on after a release, all of them
  may after a preemption, and the whole task after CompleteTask (section 5).

**Scoring** (`ScoringProofs`): `BestGPUChosen`, `PreferenceFollowed`, `BreakdownsExplain`, `NoDominatedChoice`.
`ChoiceInv`: the slice holds the eligible GPUs visited so far with their scores; in the first pass
of the exchange sort its first entry is the best of those it was compared with, and the later
passes do not touch it. That a dominated GPU has the lower score is shown part by part, through
the integer divisions (`ShareOrder`, `DominatesScoresMore`). A preference helps because the type of
a task tells two GPUs apart by less (`TypeSpread`).

**Log stream** (`LogStreamProofs`): `NoLineLostSilently` (`WaitInv`: the copier is done only after
the process ended and all it wrote was copied, no line too long was, and cmd.Wait reports success
only after the copier; it is about complete lines, a last one without a newline is lost, see section 5);
`LinesInOrder` (`StreamInv`: what a client got followed by what is in its channel ascends, and is
below all that waits to be broadcast); `BroadcastMeetsOpen`.

**WebSocket manager** (`WebSocketProofs`): `NobodyPanics` (`SafeInv`: a client is in one place on its
way from accepted to closed, who asked to be removed answers no more pings, and nobody who goes
through the map loses a client of it meanwhile) and `PubSubImplemented` (`OrderInv`: what waits to be
passed on is later than what anybody was given).

**Assumptions.** Those named in the modules (`SchedulerAssumption`, `ExecutorAssumption`,
`ServerAssumption`, which is the two others for the values that the server gives the constants, and
the like), which TLC evaluates in every run of the module, and those that a theorem states.
"Without monitor reports" is `Reports = {}`: the server runs so on a machine that has neither
of the GPU tools, and with reports these properties are false (`server_oom`).
"Non-negative requests" is `VRAMs \subseteq Nat`: the API does not enforce it and a negative size
does break the ledger (section 5).

**Sums and induction.** No prover here can use an induction rule, whose parameter is an operator.
`DataLemmas` does without: the sizes of the sets for which a statement about sums fails form a set
of natural numbers, and one without a least member is empty (`LeastNumber`). So `SumInsert` says
that a sum over one element more is the sum plus its value.

**Only model-checked**: liveness, which needs ENABLED (TimedTaskReported, ReturnsUnlessCycle,
ExitFreesGPU, BroadcastGoesOn, GoneIsRemoved, LogCatchesUp); and the five
counterexamples, which are behaviours.

## 5. Known divergences

Five runs end in a counterexample, because the code does not do what its documents say; they
are the *findings* of `PROJECT.json`. While modelling, more of them were met that have no run:

* `scheduler.go:483` — a promoted task is booked on no GPU, so RunningTasks (`types/gpu.go:42`)
  does not count it; it is promoted if 4096 MB are free, whatever it asked for.
* `preempt.go:106` — a victim's refund is neither defaulted nor clamped, unlike a release's
  (`scheduler.go:405-408`): UsedVRAMMB can fall below zero, or keep a default request's 4096 MB.
* `scheduler.go:400` — a negative size is booked as 4096 MB and refunded as it is, so that its
  release books more (`scheduler.go:389`: "releases a task and frees GPU resources").
* `preempt.go:86` — victims are killed one by one although the task may end up waiting all the
  same (`preempt.go:137`), for example because the free GPU is unhealthy.
* `scheduler.go:185` — a pending task is looked at only when another one is released: with no
  task running it waits for ever (`requirements/PRD.md:75`).
* `executor_linux.go:48` — descendants survive a kill (`USAGE.md:584-589` has the whole tree ended and
  the GPU released). Those that hold the output keep the monitor from ever reporting the task;
  others use the GPU on after it was released, as they do after an end that nobody caused.
* `scheduler.go:440` and `preempt.go:104` — CompleteTask gives the GPU back while the process lives, and
  preemption while descendants of the killed process do.
* `executor.go:251` — a stopped task ends as failed or timeout, not killed (`USAGE.md:805`), a
  process that ended by itself just before the deadline as timeout (`USAGE.md:806`), and one that
  exited with code 0 as failed if its output could not be copied (`USAGE.md:804`).
* `executor.go:317` — StopTask turns a completed task into a killed one.
* `executor.go:326` — finished tasks stay in the list of running ones for ever.
* `scheduler.go:440` — CompleteTask leaves the status at running (`scheduler.go:20`).
* `preempt.go:110` — a preempted task is in none of the lists that ListTasks returns
  (`scheduler.go:375`).
* `scheduler.go:177` — a task that the executor refuses keeps its GPU for ever.
* `scheduler.go:403` — the field GPUReq is a number of GPUs before the booking and the id of the GPU after
  it: the release of a promoted task lowers the usage of a GPU on which it never was.
* `sse_writer.go:48` — a line of more than 1 MB makes a task that exits with code 0 fail
  (`USAGE.md:804`), and `Close` is never called, so that a
  last line without a newline is never logged, and nothing reports it.
* `scheduler.go:297` — under binpack a task that takes more than a sixth of its GPU's VRAM lowers
  that GPU's score: 30 points times its share, against the 5 its load part gives. Two such tasks
  are spread over idle GPUs (`README.md:139`, `USAGE.md:208`). gpu_type gives every GPU the same ten
  points, so that it chooses as an unknown policy does (`USAGE.md:217`); and the breakdown of
  `scheduler.go:353` shows binpack's load whatever the policy.
* `websocket/manager.go:84` — a client stays in the map for ever in two ways: its unregistration is
  served before its registration; or its reader waits to answer a ping after its writer has left.
  ClientCount (`manager.go:259`) counts it, and every broadcast tries it. `GoneIsRemoved` says that
  there is no third way.
* `websocket/manager.go:238` — ids are given by clients and need not differ: SendToClient takes the
  first in map order and the others never get the message.
* `gpumonitor/monitor.go:206` — the text fallback calls GPU 1 the AMD card, but the JSON of
  rocm-smi numbers its cards from 0, and a line of nvidia-smi whose index cannot be read is GPU 0
  as well: the report overwrites another GPU's usage. A figure of VRAM that a tool does not print
  is delivered as 0 (run `server_oom`).
* `gpumonitor/monitor.go:75` — a monitor that is started again after Stop polls once and ends, and
  stopping it again closes a closed channel. No program in the repository restarts one.
* `cmd/server/main.go:120` — the policy a request names becomes the default of all later requests,
  and another request may come between setting it and the submission.

## 6. Not modelled, and why

The cluster packages do not compile: `types.NodeInfo`, `types.HeartbeatRequest`,
`types.AgentConfig` and others that they use are defined nowhere in the repository, so half of
what they do has no source; the agent's only counterpart is that master, whose handler of the
first heartbeat locks a mutex that it holds (`master.go:58`, `:98`). Start, Stop and
SimulateChanges of the GPU monitor are not modelled: `main` starts it once, and from then on it
only polls. Metrics, pages, charts and configuration carry no logic. The preemption API is a
placeholder that changes nothing. The construction of commands and environments, parsing of
requests, and the text of logs and messages are data that no property tells apart. Readers that
are handed pointers to live structs (ListTasks, ListGPUs) change no state.

## 7. Plan

The order was: scheduler (the core: every other part calls it), its abstract specification and
proofs, executor, their composition, the log stream, the scores, then the WebSocket manager, the
GPU monitor and the scheduler's ledger and queue, then the proofs. What is left:

1. Proofs: the ledger of a GPU that was registered at runtime; the counters of the tasks on a GPU
   under monitor reports, between two reports.
2. Binpack's preference as a run of `Scoring` over a sequence of tasks.
