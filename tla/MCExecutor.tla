----------------------------- MODULE MCExecutor ------------------------------
(* Instances of Executor for TLC: two tasks, so that one can be stopped or  *)
(* time out while the other starts, ends or holds the mutex.                *)
EXTENDS Executor

TwoTasks == {1, 2}
==============================================================================
