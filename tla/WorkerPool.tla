----------------------------- MODULE WorkerPool -----------------------------
(***************************************************************************)
(* evk::WorkerPool and WorkerTask (core/src/worker_pool.cpp, core/include/ *)
(* evk/worker_pool.h) with the queue that brings results back to the UI    *)
(* thread, postUi and drainUiTasks (core/src/ui/event_bus.cpp).            *)
(*                                                                         *)
(* The UI thread computes, cancels and destroys, from its event loop and   *)
(* from completion callbacks; each owner (a State) keeps one WorkerTask    *)
(* handle, and assigning a new one cancels the old.  Worker threads run    *)
(* the jobs.  Neither a job nor a callback is interrupted by a cancel: the *)
(* flags are only tested where the code tests them.                        *)
(***************************************************************************)
EXTENDS WorkerPoolState

CONSTANTS
  MaxPending,   \* maxPending: jobs that may wait in the queue
  Handled       \* the tasks that are given an onError

PoolAssumption ==
  /\ MaxPending \in Nat \ {0} /\ MaxTasks \in Nat /\ Handled \subseteq 1 .. MaxTasks
  /\ IsFiniteSet(Worker) /\ Worker # {}

NoTask == 0

poolVars == <<jobs, closing, alive>>
workerVars == <<pc, job>>
handleVars == <<canceled, held, assigning, made>>
uiVars == <<uiAt, back, drained>>
vars == workerPoolVars

Init ==
  /\ jobs = << >>
  /\ closing = FALSE
  /\ alive = TRUE
  /\ canceled = [t \in Task |-> FALSE]
  /\ made = 0
  /\ uiTasks = << >>
  /\ pc = [w \in Worker |-> "loop"]
  /\ job = [w \in Worker |-> NoTask]
  /\ uiAt = "loop"
  /\ back = "loop"
  /\ drained = << >>
  /\ held = [o \in Owner |-> NoTask]
  /\ assigning = << >>
  /\ answer = [t \in Task |-> "none"]

Dropped(t) == canceled[t] \/ ~alive

-----------------------------------------------------------------------------
(* The UI thread *)

\* Application code runs in the event loop or inside a completion callback.
InUserCode == uiAt \in {"loop", "callback"}

\* Slip: the limit is off by one.
ComputeUnbounded(o) ==
  /\ InUserCode
  /\ alive
  /\ made < MaxTasks
  /\ made' = made + 1
  /\ ~closing /\ Len(jobs) <= MaxPending
  /\ assigning' = <<o, made'>>
  /\ jobs' = Append(jobs, made')
  /\ uiAt' = "notify"
  /\ back' = uiAt
  /\ UNCHANGED <<closing, alive, workerVars, canceled, held, drained, uiTasks, answer>>

\* compute -> enqueue.  A full queue yields an empty handle; the assignment of
\* the handle follows either way.
Compute(o) ==
  /\ InUserCode
  /\ alive
  /\ made < MaxTasks
  /\ made' = made + 1
  /\ IF closing \/ Len(jobs) >= MaxPending
       THEN /\ assigning' = <<o, NoTask>>
            /\ uiAt' = "assign"
            /\ UNCHANGED jobs
       ELSE /\ assigning' = <<o, made'>>
            /\ jobs' = Append(jobs, made')
            /\ uiAt' = "notify"
  /\ back' = uiAt
  /\ UNCHANGED <<closing, alive, workerVars, canceled, held, drained, uiTasks, answer>>

\* Slip: the notification is only given when every worker sleeps.
NotifyAllAsleep ==
  /\ uiAt = "notify"
  /\ IF Waiting # Worker
       THEN UNCHANGED pc
       ELSE \E w \in Waiting : pc' = [pc EXCEPT ![w] = "loop"]
  /\ uiAt' = "assign"
  /\ UNCHANGED <<poolVars, job, handleVars, back, drained, uiTasks, answer>>

NotifyOne ==
  /\ uiAt = "notify"
  /\ IF Waiting = {}
       THEN UNCHANGED pc
       ELSE \E w \in Waiting : pc' = [pc EXCEPT ![w] = "loop"]
  /\ uiAt' = "assign"
  /\ UNCHANGED <<poolVars, job, handleVars, back, drained, uiTasks, answer>>

\* What a WorkerTask::cancel of owner o's handle sets.
CancelHandle(o) ==
  canceled' = [t \in Task |-> canceled[t] \/ t = held[o]]

\* Slip: the new handle overwrites the old one without canceling its task.
AssignOverwrites ==
  /\ uiAt = "assign"
  /\ held' = [held EXCEPT ![assigning[1]] = assigning[2]]
  /\ assigning' = << >>
  /\ uiAt' = back
  /\ UNCHANGED <<poolVars, workerVars, canceled, made, back, drained, uiTasks, answer>>

\* WorkerTask::operator=: cancel what the handle held, then take the new task.
Assign ==
  /\ uiAt = "assign"
  /\ CancelHandle(assigning[1])
  /\ held' = [held EXCEPT ![assigning[1]] = assigning[2]]
  /\ assigning' = << >>
  /\ uiAt' = back
  /\ UNCHANGED <<poolVars, workerVars, made, back, drained, uiTasks, answer>>

\* WorkerTask::cancel, or the destruction of the handle.
Cancel(o) ==
  /\ InUserCode
  /\ held[o] # NoTask
  /\ CancelHandle(o)
  /\ held' = [held EXCEPT ![o] = NoTask]
  /\ UNCHANGED <<poolVars, workerVars, assigning, made, uiVars, uiTasks, answer>>

\* beginFrame -> drainUiTasks: everything posted so far is swapped out.
DrainUiTasks ==
  /\ uiAt = "loop"
  /\ drained' = uiTasks
  /\ uiTasks' = << >>
  /\ uiAt' = "drain"
  /\ UNCHANGED <<poolVars, workerVars, handleVars, back, answer>>

\* Slip: the posted closure trusts the test the worker made before posting.
RunTaskUnchecked ==
  /\ uiAt = "drain"
  /\ drained # << >>
  /\ drained' = Tail(drained)
  /\ answer' = [answer EXCEPT ![Head(drained)[1]] = Head(drained)[2]]
  /\ uiAt' = "callback"
  /\ UNCHANGED <<poolVars, workerVars, handleVars, back, uiTasks>>

\* The posted closure tests the flags once more, then calls back.
RunTask ==
  /\ uiAt = "drain"
  /\ drained # << >>
  /\ drained' = Tail(drained)
  /\ IF Dropped(Head(drained)[1])
       THEN UNCHANGED <<answer, uiAt>>
       ELSE /\ answer' = [answer EXCEPT ![Head(drained)[1]] = Head(drained)[2]]
            /\ uiAt' = "callback"
  /\ UNCHANGED <<poolVars, workerVars, handleVars, back, uiTasks>>

CallbackReturns ==
  /\ uiAt = "callback"
  /\ uiAt' = "drain"
  /\ UNCHANGED <<poolVars, workerVars, handleVars, back, drained, uiTasks, answer>>

DrainEnds ==
  /\ uiAt = "drain"
  /\ drained = << >>
  /\ uiAt' = "loop"
  /\ UNCHANGED <<poolVars, workerVars, handleVars, back, drained, uiTasks, answer>>

\* ~WorkerPool: first the flag, then stop().
DestroyPool ==
  /\ InUserCode
  /\ alive
  /\ alive' = FALSE
  /\ uiAt' = "stop"
  /\ back' = uiAt
  /\ UNCHANGED <<jobs, closing, workerVars, handleVars, drained, uiTasks, answer>>

Stop ==
  /\ uiAt = "stop"
  /\ closing' = TRUE
  /\ jobs' = << >>
  /\ uiAt' = "notifyAll"
  /\ UNCHANGED <<alive, workerVars, handleVars, back, drained, uiTasks, answer>>

\* Slip: notify_one instead of notify_all.
NotifyAllWakesOne ==
  /\ uiAt = "notifyAll"
  /\ IF Waiting = {}
       THEN UNCHANGED pc
       ELSE \E w \in Waiting : pc' = [pc EXCEPT ![w] = "loop"]
  /\ uiAt' = "join"
  /\ UNCHANGED <<poolVars, job, handleVars, back, drained, uiTasks, answer>>

NotifyAll ==
  /\ uiAt = "notifyAll"
  /\ pc' = [w \in Worker |-> IF pc[w] = "waiting" THEN "loop" ELSE pc[w]]
  /\ uiAt' = "join"
  /\ UNCHANGED <<poolVars, job, handleVars, back, drained, uiTasks, answer>>

Join ==
  /\ uiAt = "join"
  /\ \A w \in Worker : pc[w] = "exited"
  /\ uiAt' = back
  /\ UNCHANGED <<poolVars, workerVars, handleVars, back, drained, uiTasks, answer>>

-----------------------------------------------------------------------------
(* A worker thread *)

workerLeaves == <<poolVars, handleVars, uiVars, answer>>

Move(w, from, to) == pc[w] = from /\ pc' = [pc EXCEPT ![w] = to]

Sleep(w) ==
  /\ ~closing /\ jobs = << >>
  /\ Move(w, "loop", "waiting")
  /\ UNCHANGED <<workerLeaves, job, uiTasks>>

SpuriousWakeup(w) ==
  /\ Move(w, "waiting", "loop")
  /\ UNCHANGED <<workerLeaves, job, uiTasks>>

Exit(w) ==
  /\ closing
  /\ Move(w, "loop", "exited")
  /\ UNCHANGED <<workerLeaves, job, uiTasks>>

TakeJob(w) ==
  /\ ~closing /\ jobs # << >>
  /\ Move(w, "loop", "start")
  /\ job' = [job EXCEPT ![w] = Head(jobs)]
  /\ jobs' = Tail(jobs)
  /\ UNCHANGED <<closing, alive, handleVars, uiVars, uiTasks, answer>>

\* The first statement of the job, and the test after work returned.
TestFlags(w, at, next) ==
  /\ Move(w, at, IF Dropped(job[w]) THEN "loop" ELSE next)
  /\ UNCHANGED <<workerLeaves, job, uiTasks>>

BeforeWork(w) == TestFlags(w, "start", "work")
AfterWork(w) == TestFlags(w, "check", "postResult")

WorkReturns(w) ==
  /\ Move(w, "work", "check")
  /\ UNCHANGED <<workerLeaves, job, uiTasks>>

\* Slip: an exception of work ends the job, onError or not.
WorkThrowsSwallowed(w) ==
  /\ Move(w, "work", "loop")
  /\ UNCHANGED <<workerLeaves, job, uiTasks>>

\* Without an onError the exception is swallowed.
WorkThrows(w) ==
  /\ Move(w, "work", IF job[w] \in Handled THEN "postError" ELSE "loop")
  /\ UNCHANGED <<workerLeaves, job, uiTasks>>

\* postUi; an error is posted without another test of the flags.
Post(w) ==
  /\ \/ Move(w, "postResult", "loop") /\ uiTasks' = Append(uiTasks, <<job[w], "result">>)
     \/ Move(w, "postError", "loop") /\ uiTasks' = Append(uiTasks, <<job[w], "error">>)
  /\ UNCHANGED <<workerLeaves, job>>

-----------------------------------------------------------------------------
UiCallReturns ==
  \/ NotifyOne \/ Assign
  \/ RunTask \/ CallbackReturns \/ DrainEnds
  \/ Stop \/ NotifyAll \/ Join

WorkerReturns(w) ==
  \/ Sleep(w) \/ Exit(w) \/ TakeJob(w)
  \/ BeforeWork(w) \/ AfterWork(w)
  \/ WorkReturns(w) \/ WorkThrows(w) \/ Post(w)

Next ==
  \/ \E o \in Owner : Compute(o) \/ Cancel(o)
  \/ DestroyPool
  \/ DrainUiTasks
  \/ UiCallReturns
  \/ \E w \in Worker : WorkerReturns(w) \/ SpuriousWakeup(w)

(***************************************************************************)
(* Every thread is scheduled, work and callbacks end, and the platform     *)
(* delivers VSync, which drains the tasks whether or not a frame was asked *)
(* for.  Nothing makes a sleeping worker wake up by itself.                *)
(***************************************************************************)
Fairness ==
  /\ WF_vars(DrainUiTasks)
  /\ WF_vars(UiCallReturns)
  /\ \A w \in Worker : WF_vars(WorkerReturns(w))

Spec == Init /\ [][Next]_vars
FairSpec == Spec /\ Fairness

-----------------------------------------------------------------------------
(* Properties *)

Outcome == Task \X {"result", "error"}

TypeOK ==
  /\ jobs \in Seq(Task) /\ Len(jobs) <= MaxPending
  /\ closing \in BOOLEAN /\ alive \in BOOLEAN
  /\ canceled \in [Task -> BOOLEAN]
  /\ made \in 0 .. MaxTasks
  /\ uiTasks \in Seq(Outcome) /\ drained \in Seq(Outcome)
  /\ pc \in [Worker -> {"loop", "waiting", "start", "work", "check", "postResult",
                        "postError", "exited"}]
  /\ job \in [Worker -> Task \cup {NoTask}]
  /\ uiAt \in {"loop", "drain", "callback", "notify", "assign", "stop", "notifyAll", "join"}
  /\ back \in {"loop", "callback"}
  /\ held \in [Owner -> Task \cup {NoTask}]
  /\ assigning \in {<< >>} \cup (Owner \X (Task \cup {NoTask}))
  /\ answer \in [Task -> {"none", "result", "error"}]

\* Every accepted task that was given an onError gets one of its two callbacks,
\* unless it is canceled or the pool is destroyed.
EveryTaskAnswered ==
  \A t \in Handled :
    (\E o \in Owner : held[o] = t) ~> answer[t] # "none" \/ Dropped(t)

\* The destructor returns: stop() wakes every sleeping worker and waits for work
\* that is running, none of which waits for the UI thread.
DestructorReturns == uiAt \in {"stop", "notifyAll", "join"} ~> InUserCode
=============================================================================
