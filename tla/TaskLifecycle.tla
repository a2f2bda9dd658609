---------------------------- MODULE TaskLifecycle ----------------------------
(***************************************************************************)
(* What a client may rely on about the life of the tasks it submits, with   *)
(* nothing said of GPUs, priorities, processes or locks: ids are handed out *)
(* in order; a task is admitted to the queue or straight to the running     *)
(* tasks; the queue keeps its order; a task that left the running tasks     *)
(* never comes back, and of the finished ones the latest are remembered.    *)
(***************************************************************************)
EXTENDS Integers, Sequences, Functions

CONSTANT MaxCompleted  \* how many finished tasks are remembered

VARIABLES
    last,       \* the last task admitted
    queue,      \* the waiting tasks, oldest first
    running,    \* the tasks that hold a GPU
    finished,   \* the latest finished tasks, oldest first
    preempted   \* the tasks that lost their GPU to a more important one

vars == <<last, queue, running, finished, preempted>>

Without(s, i) == SubSeq(s, 1, i - 1) \o SubSeq(s, i + 1, Len(s))

Latest(s) == IF Len(s) > MaxCompleted
             THEN SubSeq(s, Len(s) - MaxCompleted + 1, Len(s)) ELSE s

Init == /\ last = 0
        /\ queue = <<>>
        /\ running = {}
        /\ finished = <<>>
        /\ preempted = {}

\* The next task is admitted, to the end of the queue or to a GPU.
Admit == /\ last' = last + 1
         /\ \/ queue' = Append(queue, last + 1) /\ UNCHANGED running
            \/ running' = running \cup {last + 1} /\ UNCHANGED queue
         /\ UNCHANGED <<finished, preempted>>

\* A waiting task gets its turn.
Promote(i) == /\ running' = running \cup {queue[i]}
              /\ queue' = Without(queue, i)
              /\ UNCHANGED <<last, finished, preempted>>

\* A client withdraws a waiting task.
Withdraw(i) == /\ queue' = Without(queue, i)
               /\ UNCHANGED <<last, running, finished, preempted>>

Finish(t) == /\ running' = running \ {t}
             /\ finished' = Latest(Append(finished, t))
             /\ UNCHANGED <<last, queue, preempted>>

Preempt(t) == /\ running' = running \ {t}
              /\ preempted' = preempted \cup {t}
              /\ UNCHANGED <<last, queue, finished>>

Next == \/ Admit
        \/ \E i \in DOMAIN queue : Promote(i) \/ Withdraw(i)
        \/ \E t \in running : Finish(t) \/ Preempt(t)

Spec == Init /\ [][Next]_vars
==============================================================================
