------------------------------- MODULE LogStream -------------------------------
(***************************************************************************)
(* The live log of a task: a TaskLogWriter whose onLine is BroadcastTaskLog *)
(* of the SSE manager (executor.go:121-124, cmd/server/main.go:31-33), and  *)
(* the clients of GET /api/tasks/stream.  Event e is line e of the task.    *)
(***************************************************************************)
EXTENDS Naturals, Sequences, FiniteSets, Functions

CONSTANTS Clients, ClientCap, RequestCap, BroadcastCap, MaxLines

\* Every channel is buffered.
ASSUME LogStreamAssumption ==
    /\ ClientCap \in Nat \ {0} /\ RequestCap \in Nat \ {0} /\ BroadcastCap \in Nat \ {0}
    /\ MaxLines \in Nat

VARIABLES
    handler, register, unregister, broadcast, clients, channel, closed, got, crashed,
    process, output, copied, announced, logged, copier, wait

M == INSTANCE SSEManager WITH MaxEvents <- MaxLines
W == INSTANCE TaskLogWriter

mvars == <<handler, register, unregister, broadcast, clients, channel, closed, got, crashed>>
wvars == <<process, output, copied, announced, logged, copier, wait>>
vars == <<mvars, wvars>>

Init == M!Init /\ W!Init

\* A step of the manager or of a handler, and one of the writer, while the server
\* process lives; the task's own process does not depend on it.
ManagerStep == (\E c \in Clients : M!Handler(c)) \/ M!Run
Streams == ManagerStep /\ UNCHANGED wvars

TaskProcess == /\ \/ \E kind \in {"line", "too long", "partial"} : W!WriteLine(kind)
                  \/ \E code \in {"ok", "error"} : W!ProcessExits(code)
               /\ UNCHANGED mvars

Copies == ~crashed /\ W!Copier /\ UNCHANGED mvars
Logs == ~crashed /\ W!LogLine /\ UNCHANGED mvars
Waits == ~crashed /\ W!WaitReturns /\ UNCHANGED mvars

\* The scanner calls BroadcastTaskLog, which does not wait for anybody.
Announces == W!Announce /\ M!Broadcast(announced + 1)

Next == Streams \/ TaskProcess \/ Copies \/ Announces \/ Logs \/ Waits

Spec == Init /\ [][Next]_vars

\* Goroutines run; select picks at random among the channels that are ready, so
\* none of them is passed over for ever; a blocked send is served in its turn.
Fairness ==
    /\ SF_vars(M!RunRegister /\ UNCHANGED wvars)
    /\ SF_vars(M!RunUnregister /\ UNCHANGED wvars)
    /\ SF_vars(M!RunBroadcast /\ UNCHANGED wvars)
    /\ \A c \in Clients : SF_vars(M!Unregister(c) /\ UNCHANGED wvars)
    /\ WF_vars(Copies) /\ WF_vars(Announces) /\ WF_vars(Logs) /\ WF_vars(Waits)
FairSpec == Spec /\ Fairness

------------------------------------------------------------------------------
(* What the parts promise, of the composition.                             *)

\* Clients get the lines of the log in their order, each at most once.
DeliveredInOrder == M!DeliveredInOrder

\* A broadcast never meets a closed channel.
RegisteredAreOpen == M!RegisteredAreOpen

\* A client that has gone is removed, unless the process has crashed.
GoneIsRemoved == M!GoneIsRemoved

\* A line with a newline that the scanner does not take makes cmd.Wait, and with it the
\* task, fail; nobody reports the loss of a last line without one.
LineLossReported == W!LineLossReported

\* Whatever clients do, the log file is completed, unless the process has crashed.
LogCatchesUp == (wait # "none") ~> (crashed \/ logged = W!Terminated(copied))

------------------------------------------------------------------------------
(* What the documents say of it and the code does not do.                  *)

\* PRD.md:163: the failure of one component does not affect running tasks, so a
\* client of the stream that comes and goes does not bring the server down.
StreamSurvives == ~crashed
==============================================================================
