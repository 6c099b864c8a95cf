--------------------------- MODULE WorkerPoolState ---------------------------
(***************************************************************************)
(* The state of the worker pool and of the queue that brings its results   *)
(* back to the UI thread, and what is promised of them.  WorkerPool has    *)
(* the operations.                                                         *)
(***************************************************************************)
EXTENDS Integers, Sequences, FiniteSets

CONSTANTS
  Worker,       \* the worker threads
  Owner,        \* the holders of WorkerTask handles on the UI thread
  MaxTasks      \* bound on the calls of compute

VARIABLES
  jobs, closing,           \* Impl, under its mutex
  alive,                   \* alive_
  canceled,                \* the canceled flag of each task
  made,                    \* calls of compute so far
  uiTasks,                 \* g_tasks, under g_taskMutex: <<task, outcome>>
  pc, job,                 \* of each worker: where it is, the task it has
  uiAt,                    \* where the UI thread is
  back,                    \* where the call it is in returns to
  drained,                 \* what drainUiTasks swapped out and has not run yet
  held,                    \* the task in each owner's handle
  assigning,               \* <<owner, task>> of the compute call under way
  answer                   \* the callback each task got: "none", "result", "error"

workerPoolVars == <<jobs, closing, alive, pc, job, canceled, held, assigning, made,
                    uiAt, back, drained, uiTasks, answer>>

Task == 1 .. MaxTasks
Waiting == {w \in Worker : pc[w] = "waiting"}

\* A callback runs only for a task whose handle is still held, and only while the
\* pool lives: a result that was canceled, replaced by a newer compute, or
\* overtaken by the pool's destruction is never delivered, at whatever point of
\* its way it was (worker_pool.h lines 15-16).
OnlyHeldAnswered ==
  [][\A t \in Task : answer'[t] # answer[t] =>
       answer[t] = "none" /\ alive /\ \E o \in Owner : held[o] = t]_workerPoolVars

\* No worker sleeps while a job waits that nobody is on the way to take: enqueue
\* wakes one worker per job, and a worker that stays awake took no other's wake-up.
NoIdleWorker ==
  Waiting # {} /\ ~closing =>
    Len(jobs) <= Cardinality({w \in Worker : pc[w] = "loop"})
                   + (IF uiAt = "notify" THEN 1 ELSE 0)
==============================================================================
