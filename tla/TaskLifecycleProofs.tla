------------------------- MODULE TaskLifecycleProofs -------------------------
(***************************************************************************)
(* What follows from module TaskLifecycle alone, for any number of tasks:   *)
(* the books partition the tasks, and waiting tasks keep their order.       *)
(***************************************************************************)
EXTENDS TaskLifecycle, DataLemmas

\* Only tasks that were admitted are in the books.
Admitted ==
    /\ last \in Nat
    /\ queue \in Seq(Int) /\ finished \in Seq(Int)
    /\ Range(queue) \cup running \cup Range(finished) \cup preempted \subseteq 1..last

\* A task is in at most one of the books, and once; the queue is in order of admission.
Partition ==
    /\ Range(queue) \cap (running \cup Range(finished) \cup preempted) = {}
    /\ running \cap (Range(finished) \cup preempted) = {}
    /\ Range(finished) \cap preempted = {}
    /\ Distinct(finished)

Books == Admitted /\ Partition /\ Ascending(queue)

LEMMA InitBooks == Init => Books
<1> SUFFICES ASSUME Init PROVE Books
  OBVIOUS
<1>1. Range(<<>>) = {} /\ <<>> \in Seq(Int)
  BY DEF Range
<1> QED BY <1>1 DEF Init, Books, Admitted, Partition, Ascending, Distinct

LEMMA AdmitBooks == ASSUME Books, Admit PROVE Books'
<1> USE DEF Books, Admitted
<1> DEFINE t == last + 1
           all == Range(queue) \cup running \cup Range(finished) \cup preempted
<1>1. last' = t /\ t \in Nat /\ t \in Int /\ UNCHANGED <<finished, preempted>>
  BY DEF Admit
<1>2. 1..last \subseteq 1..t /\ t \in 1..t /\ \A u \in 1..last : u < t
  OBVIOUS
<1>3. t \notin all /\ all \subseteq 1..t
  BY <1>2
<1> HIDE DEF t
<1>4. CASE queue' = Append(queue, t) /\ UNCHANGED running
  <2>1. queue' \in Seq(Int) /\ Range(queue') = Range(queue) \cup {t}
    BY <1>1, <1>4, AppendRange
  <2>2. Ascending(queue')
    BY <1>1, <1>2, <1>4, AppendAscending
  <2>3. Partition'
    BY <1>1, <1>3, <1>4, <2>1 DEF Partition
  <2>4. Admitted'
    BY <1>1, <1>2, <1>3, <1>4, <2>1
  <2> QED BY <2>2, <2>3, <2>4
<1>5. CASE running' = running \cup {t} /\ UNCHANGED queue
  <2>1. Partition'
    BY <1>1, <1>3, <1>5 DEF Partition
  <2>2. Admitted'
    BY <1>1, <1>2, <1>3, <1>5
  <2> QED BY <1>5, <2>1, <2>2
<1> QED BY <1>4, <1>5 DEF Admit, t

\* A promoted or withdrawn task leaves the queue altogether.
LEMMA LeaveQueue ==
    ASSUME Books, NEW i \in DOMAIN queue
    PROVE  /\ Without(queue, i) \in Seq(Int) /\ Ascending(Without(queue, i))
           /\ queue[i] \in Range(queue)
           /\ Range(Without(queue, i)) \subseteq Range(queue) \ {queue[i]}
<1> USE DEF Books, Admitted
<1>1. Without(queue, i) = Drop(queue, i)
  BY DEF Without, Drop
<1>2. Distinct(queue)
  BY AscendingDistinct
<1>3. Drop(queue, i) \in Seq(Int) /\ Ascending(Drop(queue, i))
  BY DropEntries, DropAscending
<1>4. Range(Drop(queue, i)) \subseteq Range(queue) /\ queue[i] \notin Range(Drop(queue, i))
  BY <1>2, DropRange
<1>5. queue[i] \in Range(queue)
  BY DEF Range
<1> QED BY <1>1, <1>3, <1>4, <1>5

LEMMA FinishBooks == ASSUME MaxCompleted \in Nat, Books, NEW t \in running, Finish(t) PROVE Books'
<1> USE DEF Books, Admitted
<1> DEFINE longer == Append(finished, t)
<1>1. running' = running \ {t} /\ UNCHANGED <<last, queue, preempted>> /\ t \in Int
  BY DEF Finish
<1>2. longer \in Seq(Int) /\ Range(longer) = Range(finished) \cup {t}
  BY <1>1, AppendRange
<1>3. Distinct(longer)
  BY <1>1, AppendDistinct DEF Partition
<1>4. finished' = LastOf(longer, MaxCompleted)
  BY DEF Finish, Latest, LastOf
<1> HIDE DEF longer
<1>5. finished' \in Seq(Int) /\ Range(finished') \subseteq Range(finished) \cup {t}
      /\ Distinct(finished')
  BY <1>2, <1>3, <1>4, LastOfRange
<1>6. Partition'
  BY <1>1, <1>5 DEF Partition
<1> QED BY <1>1, <1>5, <1>6

LEMMA StepBooks == MaxCompleted \in Nat /\ Books /\ [Next]_vars => Books'
<1> SUFFICES ASSUME MaxCompleted \in Nat, Books, [Next]_vars PROVE Books'
  OBVIOUS
<1>1. CASE Admit
  BY <1>1, AdmitBooks
<1>2. ASSUME NEW i \in DOMAIN queue, Promote(i) PROVE Books'
  <2>1. running' = running \cup {queue[i]} /\ queue' = Without(queue, i)
        /\ UNCHANGED <<last, finished, preempted>>
    BY <1>2 DEF Promote
  <2> QED BY <2>1, LeaveQueue DEF Books, Admitted, Partition
<1>3. ASSUME NEW i \in DOMAIN queue, Withdraw(i) PROVE Books'
  <2>1. queue' = Without(queue, i) /\ UNCHANGED <<last, running, finished, preempted>>
    BY <1>3 DEF Withdraw
  <2> QED BY <2>1, LeaveQueue DEF Books, Admitted, Partition
<1>4. ASSUME NEW t \in running, Finish(t) PROVE Books'
  BY <1>4, FinishBooks
<1>5. ASSUME NEW t \in running, Preempt(t) PROVE Books'
  <2>1. running' = running \ {t} /\ preempted' = preempted \cup {t}
        /\ UNCHANGED <<last, queue, finished>>
    BY <1>5 DEF Preempt
  <2> QED BY <2>1 DEF Books, Admitted, Partition
<1>6. CASE UNCHANGED vars
  BY <1>6 DEF vars, Books, Admitted, Partition
<1> QED BY <1>1, <1>2, <1>3, <1>4, <1>5, <1>6 DEF Next

\* Whatever implements TaskLifecycle has its tasks in at most one book, each once, and
\* its queue in the order of submission.
THEOREM BooksKept ==
    ASSUME MaxCompleted \in Nat
    PROVE  Spec => []Books
<1>1. Books /\ [Next]_vars => Books'
  BY StepBooks
<1> QED BY <1>1, InitBooks, PTL DEF Spec
==============================================================================
