-------------------------- MODULE WorkerPoolProofs --------------------------
(* Theorems about WorkerPool, for any number of workers, owners and tasks  *)
(* and any length of the queue.                                            *)
EXTENDS WorkerPool, SequenceTheorems, FiniteSetTheorems, TLAPS

(***************************************************************************)
(* A task is in one place at a time: in the queue, with a worker, posted   *)
(* to the UI thread, swapped out by the drain, or answered.  Wherever it   *)
(* is short of its answer, either it is canceled or somebody holds it.     *)
(***************************************************************************)

Working == {w \in Worker : pc[w] \in {"start", "work", "check", "postResult", "postError"}}

JobsOf(s) == {s[i] : i \in 1 .. Len(s)}
TasksOf(s) == {s[i][1] : i \in 1 .. Len(s)}

Queued == JobsOf(jobs)
InWork == {job[w] : w \in Working}
Posted == TasksOf(uiTasks)
Drained == TasksOf(drained)
Answered == {t \in Task : answer[t] # "none"}
UnderWay == Queued \cup InWork \cup Posted \cup Drained

Once ==
  /\ \A i, j \in 1 .. Len(jobs) : jobs[i] = jobs[j] => i = j
  /\ \A w, v \in Working : job[w] = job[v] => w = v
  /\ \A i, j \in 1 .. Len(uiTasks) : uiTasks[i][1] = uiTasks[j][1] => i = j
  /\ \A i, j \in 1 .. Len(drained) : drained[i][1] = drained[j][1] => i = j

OnePlace ==
  /\ UnderWay \cup Answered \subseteq 1 .. made
  /\ Queued \cap InWork = {} /\ Queued \cap Posted = {} /\ Queued \cap Drained = {}
  /\ InWork \cap Posted = {} /\ InWork \cap Drained = {} /\ Posted \cap Drained = {}
  /\ UnderWay \cap Answered = {}

AssigningInCompute == assigning = << >> <=> uiAt \notin {"notify", "assign"}

HeldOrCanceled ==
  \A t \in UnderWay :
    canceled[t] \/ (\E o \in Owner : held[o] = t) \/ (assigning # << >> /\ assigning[2] = t)


IInv == TypeOK /\ Once /\ OnePlace /\ AssigningInCompute /\ HeldOrCanceled

LEMMA Initially == PoolAssumption /\ Init => IInv
<1> SUFFICES ASSUME PoolAssumption, Init PROVE IInv
  OBVIOUS
<1>1. TypeOK
  <2>1. jobs \in Seq(Task) /\ uiTasks \in Seq(Outcome) /\ drained \in Seq(Outcome)
    BY EmptySeq DEF Init
  <2>2. Len(jobs) <= MaxPending /\ made \in 0 .. MaxTasks
    BY DEF Init, PoolAssumption
  <2> QED
    BY <2>1, <2>2 DEF Init, TypeOK, NoTask
<1>2. Len(jobs) = 0 /\ Len(uiTasks) = 0 /\ Len(drained) = 0 /\ Working = {} /\ Answered = {}
  BY DEF Init, Working, Answered
<1>3. UnderWay = {}
  BY <1>2 DEF UnderWay, Queued, InWork, Posted, Drained, JobsOf, TasksOf
<1>4. Once
  BY <1>2 DEF Once
<1>5. OnePlace
  BY <1>2, <1>3 DEF OnePlace, UnderWay
<1>6. AssigningInCompute
  BY DEF Init, AssigningInCompute
<1> QED
  BY <1>1, <1>3, <1>4, <1>5, <1>6 DEF IInv, HeldOrCanceled

(***************************************************************************)
(* Queues that grow and shrink by one.                                     *)
(***************************************************************************)

LEMMA JobsGrow ==
  ASSUME NEW s \in Seq(Task), NEW t \in Task, t \notin JobsOf(s),
         \A i, j \in 1 .. Len(s) : s[i] = s[j] => i = j
  PROVE  /\ Append(s, t) \in Seq(Task)
         /\ Len(Append(s, t)) = Len(s) + 1
         /\ JobsOf(Append(s, t)) = JobsOf(s) \cup {t}
         /\ \A i, j \in 1 .. Len(Append(s, t)) : Append(s, t)[i] = Append(s, t)[j] => i = j
<1>1. /\ Append(s, t) \in Seq(Task) /\ Len(s) \in Nat
      /\ Len(Append(s, t)) = Len(s) + 1
      /\ \A i \in 1 .. Len(s) : Append(s, t)[i] = s[i]
      /\ Append(s, t)[Len(s) + 1] = t
  BY AppendProperties, LenProperties
<1>2. \A i \in 1 .. Len(s) : s[i] # t
  BY DEF JobsOf
<1> HIDE DEF JobsOf
<1> DEFINE a == Append(s, t)
<1>3. \A i \in 1 .. Len(a) : i \in 1 .. Len(s) \/ i = Len(s) + 1
  BY <1>1
<1>4. JobsOf(a) = JobsOf(s) \cup {t}
  BY <1>1, <1>3 DEF JobsOf
<1> QED
  BY <1>1, <1>2, <1>3, <1>4

LEMMA JobsShrink ==
  ASSUME NEW s \in Seq(Task), s # << >>,
         \A i, j \in 1 .. Len(s) : s[i] = s[j] => i = j
  PROVE  /\ Tail(s) \in Seq(Task) /\ Head(s) \in Task
         /\ Len(Tail(s)) = Len(s) - 1 /\ Len(s) \in Nat \ {0}
         /\ JobsOf(Tail(s)) = JobsOf(s) \ {Head(s)} /\ Head(s) \in JobsOf(s)
         /\ \A i, j \in 1 .. Len(Tail(s)) : Tail(s)[i] = Tail(s)[j] => i = j
<1>1. /\ Tail(s) \in Seq(Task) /\ Head(s) \in Task
      /\ Len(s) \in Nat \ {0}
      /\ Len(Tail(s)) = Len(s) - 1
      /\ \A i \in 1 .. Len(Tail(s)) : Tail(s)[i] = s[i + 1]
      /\ Head(s) = s[1]
  BY HeadTailProperties, EmptySeq, LenProperties
<1> DEFINE r == Tail(s)
<1>2. \A i \in 1 .. Len(r) : i + 1 \in 1 .. Len(s) /\ i + 1 # 1 /\ r[i] = s[i + 1]
  BY <1>1
<1>3. \A i \in 1 .. Len(s) : i = 1 \/ (i - 1 \in 1 .. Len(r) /\ s[i] = r[i - 1])
  <2> TAKE i \in 1 .. Len(s)
  <2> SUFFICES ASSUME i # 1 PROVE i - 1 \in 1 .. Len(r) /\ s[i] = r[i - 1]
    OBVIOUS
  <2>1. i - 1 \in 1 .. Len(r)
    BY <1>1
  <2>2. r[i - 1] = s[(i - 1) + 1]
    BY <1>2, <2>1
  <2> QED
    BY <2>1, <2>2
<1>4. 1 \in 1 .. Len(s)
  BY <1>1
<1>5. JobsOf(r) \subseteq JobsOf(s) \ {Head(s)}
  BY <1>1, <1>2, <1>4 DEF JobsOf
<1>6. JobsOf(s) \ {Head(s)} \subseteq JobsOf(r)
  BY <1>1, <1>3 DEF JobsOf
<1>7. \A i, j \in 1 .. Len(r) : r[i] = r[j] => i = j
  BY <1>1, <1>2
<1>8. Head(s) \in JobsOf(s)
  BY <1>1, <1>4 DEF JobsOf
<1> QED
  BY <1>1, <1>5, <1>6, <1>7, <1>8

LEMMA TasksGrow ==
  ASSUME NEW s \in Seq(Outcome), NEW e \in Outcome, e[1] \notin TasksOf(s),
         \A i, j \in 1 .. Len(s) : s[i][1] = s[j][1] => i = j
  PROVE  /\ Append(s, e) \in Seq(Outcome)
         /\ TasksOf(Append(s, e)) = TasksOf(s) \cup {e[1]}
         /\ \A i, j \in 1 .. Len(Append(s, e)) :
              Append(s, e)[i][1] = Append(s, e)[j][1] => i = j
<1>1. /\ Append(s, e) \in Seq(Outcome) /\ Len(s) \in Nat
      /\ Len(Append(s, e)) = Len(s) + 1
      /\ \A i \in 1 .. Len(s) : Append(s, e)[i] = s[i]
      /\ Append(s, e)[Len(s) + 1] = e
  BY AppendProperties, LenProperties
<1>2. \A i \in 1 .. Len(s) : s[i][1] # e[1]
  BY DEF TasksOf
<1> DEFINE a == Append(s, e)
<1>3. \A i \in 1 .. Len(a) : i \in 1 .. Len(s) \/ i = Len(s) + 1
  BY <1>1
<1>4. TasksOf(a) = TasksOf(s) \cup {e[1]}
  BY <1>1, <1>3 DEF TasksOf
<1> QED
  BY <1>1, <1>2, <1>3, <1>4

LEMMA TasksShrink ==
  ASSUME NEW s \in Seq(Outcome), s # << >>,
         \A i, j \in 1 .. Len(s) : s[i][1] = s[j][1] => i = j
  PROVE  /\ Tail(s) \in Seq(Outcome) /\ Head(s) \in Outcome
         /\ TasksOf(Tail(s)) = TasksOf(s) \ {Head(s)[1]} /\ Head(s)[1] \in TasksOf(s)
         /\ \A i, j \in 1 .. Len(Tail(s)) : Tail(s)[i][1] = Tail(s)[j][1] => i = j
<1>1. /\ Tail(s) \in Seq(Outcome) /\ Head(s) \in Outcome
      /\ Len(s) \in Nat \ {0}
      /\ Len(Tail(s)) = Len(s) - 1
      /\ \A i \in 1 .. Len(Tail(s)) : Tail(s)[i] = s[i + 1]
      /\ Head(s) = s[1]
  BY HeadTailProperties, EmptySeq, LenProperties
<1> DEFINE r == Tail(s)
<1>2. \A i \in 1 .. Len(r) : i + 1 \in 1 .. Len(s) /\ i + 1 # 1 /\ r[i] = s[i + 1]
  BY <1>1
<1>3. \A i \in 1 .. Len(s) : i = 1 \/ (i - 1 \in 1 .. Len(r) /\ s[i] = r[i - 1])
  <2> TAKE i \in 1 .. Len(s)
  <2> SUFFICES ASSUME i # 1 PROVE i - 1 \in 1 .. Len(r) /\ s[i] = r[i - 1]
    OBVIOUS
  <2>1. i - 1 \in 1 .. Len(r)
    BY <1>1
  <2>2. r[i - 1] = s[(i - 1) + 1]
    BY <1>2, <2>1
  <2> QED
    BY <2>1, <2>2
<1>4. 1 \in 1 .. Len(s)
  BY <1>1
<1>5. TasksOf(r) \subseteq TasksOf(s) \ {Head(s)[1]}
  BY <1>1, <1>2, <1>4 DEF TasksOf
<1>6. TasksOf(s) \ {Head(s)[1]} \subseteq TasksOf(r)
  BY <1>1, <1>3 DEF TasksOf
<1>7. \A i, j \in 1 .. Len(r) : r[i][1] = r[j][1] => i = j
  BY <1>1, <1>2
<1>8. Head(s)[1] \in TasksOf(s)
  BY <1>1, <1>4 DEF TasksOf
<1> QED
  BY <1>1, <1>5, <1>6, <1>7, <1>8

(***************************************************************************)
(* The types.                                                              *)
(***************************************************************************)

PcSet == {"loop", "waiting", "start", "work", "check", "postResult", "postError", "exited"}
UiSet == {"loop", "drain", "callback", "notify", "assign", "stop", "notifyAll", "join"}

\* A step of a worker from one place to another that leaves the rest alone.
LEMMA WorkerMoves ==
  ASSUME TypeOK, NEW w \in Worker, NEW from \in PcSet, NEW to \in PcSet, Move(w, from, to),
         UNCHANGED <<workerLeaves, job, uiTasks>>
  PROVE  TypeOK'
BY DEF TypeOK, Move, workerLeaves, poolVars, handleVars, uiVars, PcSet

LEMMA TasksUnderWay == PoolAssumption /\ TypeOK /\ OnePlace => UnderWay \subseteq Task
<1> SUFFICES ASSUME PoolAssumption, TypeOK, OnePlace, NEW t \in UnderWay PROVE t \in Task
  OBVIOUS
<1>1. t \in 1 .. made
  BY DEF OnePlace
<1> QED
  BY <1>1 DEF TypeOK, Task, PoolAssumption

LEMMA StepTypeOK ==
  PoolAssumption /\ TypeOK /\ OnePlace /\ AssigningInCompute /\ [Next]_vars => TypeOK'
<1> SUFFICES ASSUME PoolAssumption, TypeOK, OnePlace, AssigningInCompute, [Next]_vars
             PROVE  TypeOK'
  OBVIOUS
<1>work. InWork \subseteq Task
  BY TasksUnderWay DEF UnderWay
<1> USE DEF poolVars, workerVars, handleVars, uiVars
<1>1. ASSUME NEW o \in Owner, Compute(o) PROVE TypeOK'
  <2>1. made' \in Task /\ made' \in 0 .. MaxTasks
    BY <1>1 DEF Compute, TypeOK, Task, PoolAssumption
  <2>2. Append(jobs, made') \in Seq(Task) /\ Len(Append(jobs, made')) = Len(jobs) + 1
        /\ Len(jobs) \in Nat
    BY <2>1, AppendProperties, LenProperties DEF TypeOK
  <2>3. jobs' \in Seq(Task) /\ Len(jobs') <= MaxPending
    <3>1. CASE closing \/ Len(jobs) >= MaxPending
      BY <1>1, <3>1 DEF Compute, TypeOK
    <3>2. CASE ~(closing \/ Len(jobs) >= MaxPending)
      <4>1. jobs' = Append(jobs, made') /\ Len(jobs) < MaxPending
        BY <1>1, <2>2, <3>2 DEF Compute, PoolAssumption
      <4> QED
        BY <4>1, <2>2 DEF PoolAssumption
    <3> QED
      BY <3>1, <3>2
  <2>4. assigning' \in Owner \X (Task \cup {NoTask}) /\ uiAt' \in UiSet /\ back' \in {"loop", "callback"}
    BY <1>1, <2>1 DEF Compute, InUserCode, UiSet
  <2> QED
    BY <1>1, <2>1, <2>3, <2>4 DEF Compute, TypeOK, UiSet
<1>2. ASSUME NEW o \in Owner, Cancel(o) PROVE TypeOK'
  BY <1>2 DEF Cancel, CancelHandle, TypeOK
<1>3. CASE DestroyPool
  BY <1>3 DEF DestroyPool, InUserCode, TypeOK
<1>4. CASE DrainUiTasks
  BY <1>4, EmptySeq DEF DrainUiTasks, TypeOK
<1>5. CASE NotifyOne
  BY <1>5 DEF NotifyOne, Waiting, TypeOK
<1>6. CASE Assign
  <2>1. held' \in [Owner -> Task \cup {NoTask}] /\ canceled' \in [Task -> BOOLEAN]
    <3>1. assigning \in Owner \X (Task \cup {NoTask})
      BY <1>6 DEF Assign, AssigningInCompute, TypeOK
    <3> QED
      BY <1>6, <3>1 DEF Assign, CancelHandle, TypeOK
  <2> QED
    BY <1>6, <2>1 DEF Assign, TypeOK
<1>7. CASE RunTask
  <2>1. Head(drained) \in Outcome /\ Tail(drained) \in Seq(Outcome)
    BY <1>7, HeadTailProperties DEF RunTask, TypeOK
  <2>2. Head(drained)[1] \in Task /\ Head(drained)[2] \in {"result", "error"}
    BY <2>1 DEF Outcome
  <2> QED
    BY <1>7, <2>1, <2>2 DEF RunTask, TypeOK
<1>8. CASE CallbackReturns
  BY <1>8 DEF CallbackReturns, TypeOK
<1>9. CASE DrainEnds
  BY <1>9 DEF DrainEnds, TypeOK
<1>10. CASE Stop
  <2>1. jobs' \in Seq(Task) /\ Len(jobs') <= MaxPending
    BY <1>10, EmptySeq DEF Stop, PoolAssumption
  <2> QED
    BY <1>10, <2>1 DEF Stop, TypeOK
<1>11. CASE NotifyAll
  BY <1>11 DEF NotifyAll, TypeOK
<1>12. CASE Join
  BY <1>12 DEF Join, TypeOK
<1>13. ASSUME NEW w \in Worker, TakeJob(w) PROVE TypeOK'
  <2>1. /\ Tail(jobs) \in Seq(Task) /\ Head(jobs) \in Task
        /\ Len(Tail(jobs)) = Len(jobs) - 1 /\ Len(jobs) \in Nat
    BY <1>13, HeadTailProperties, LenProperties DEF TakeJob, TypeOK
  <2>2. jobs' \in Seq(Task) /\ Len(jobs') <= MaxPending
    BY <1>13, <2>1 DEF TakeJob, TypeOK, PoolAssumption
  <2> QED
    BY <1>13, <2>1, <2>2 DEF TakeJob, Move, TypeOK
<1>14. ASSUME NEW w \in Worker, Post(w) PROVE TypeOK'
  <2>1. job[w] \in Task
    BY <1>14, <1>work DEF Post, Move, InWork, Working
  <2>2. uiTasks' \in Seq(Outcome)
    <3>1. <<job[w], "result">> \in Outcome /\ <<job[w], "error">> \in Outcome
      BY <2>1 DEF Outcome
    <3>2. /\ Append(uiTasks, <<job[w], "result">>) \in Seq(Outcome)
          /\ Append(uiTasks, <<job[w], "error">>) \in Seq(Outcome)
      BY <3>1, AppendProperties DEF TypeOK
    <3> QED
      BY <1>14, <3>2 DEF Post
  <2> QED
    BY <1>14, <2>2 DEF Post, Move, workerLeaves, TypeOK
<1>15. ASSUME NEW w \in Worker,
              Sleep(w) \/ Exit(w) \/ BeforeWork(w) \/ AfterWork(w) \/ WorkReturns(w)
                \/ WorkThrows(w) \/ SpuriousWakeup(w)
       PROVE  TypeOK'
  BY <1>15, WorkerMoves
  DEF Sleep, Exit, BeforeWork, AfterWork, TestFlags, WorkReturns, WorkThrows, SpuriousWakeup,
      PcSet
<1>16. CASE UNCHANGED vars
  BY <1>16 DEF vars, workerPoolVars, TypeOK
<1> QED
  BY <1>1, <1>2, <1>3, <1>4, <1>5, <1>6, <1>7, <1>8, <1>9, <1>10, <1>11, <1>12, <1>13,
     <1>14, <1>15, <1>16 DEF Next, UiCallReturns, WorkerReturns

(***************************************************************************)
(* The inductive step, action by action.                                   *)
(***************************************************************************)

\* Steps that take no task anywhere but out of a worker's hands.
LEMMA QuietStep ==
  ASSUME IInv, TypeOK', AssigningInCompute', assigning' = assigning,
         UNCHANGED <<jobs, uiTasks, drained, answer, made, canceled, held, job>>,
         Working' \subseteq Working
  PROVE  IInv'
<1>1. InWork' \subseteq InWork
  BY DEF InWork, Working
<1>2. Queued' = Queued /\ Posted' = Posted /\ Drained' = Drained /\ Answered' = Answered
  BY DEF Queued, Posted, Drained, Answered
<1>3. UnderWay' \subseteq UnderWay
  BY <1>1, <1>2 DEF UnderWay
<1>4. Once'
  BY DEF IInv, Once
<1>5. OnePlace'
  BY <1>1, <1>2, <1>3 DEF IInv, OnePlace
<1>6. HeldOrCanceled'
  BY <1>3 DEF IInv, HeldOrCanceled
<1> QED
  BY <1>4, <1>5, <1>6 DEF IInv

LEMMA ComputeStep ==
  ASSUME PoolAssumption, IInv, TypeOK', NEW o \in Owner, Compute(o)
  PROVE  IInv'
<1> USE DEF poolVars, workerVars, handleVars, uiVars
<1>1. /\ made' \in Task /\ made' \notin 1 .. made /\ 1 .. made \subseteq 1 .. made'
      /\ made' \in 1 .. made'
  BY DEF Compute, IInv, TypeOK, Task, PoolAssumption
<1>2. InWork' = InWork /\ Posted' = Posted /\ Drained' = Drained /\ Answered' = Answered
      /\ Working' = Working
  BY DEF Compute, InWork, Posted, Drained, Answered, Working
<1>3. UNCHANGED <<job, uiTasks, drained, canceled, held>>
  BY DEF Compute
<1>4. AssigningInCompute' /\ assigning = << >> /\ assigning' # << >>
  BY DEF Compute, InUserCode, IInv, AssigningInCompute
<1>5. CASE jobs' = jobs
  <2>1. Queued' = Queued
    BY <1>5 DEF Queued
  <2>2. UnderWay' = UnderWay
    BY <1>2, <2>1 DEF UnderWay
  <2>3. Once'
    BY <1>2, <1>3, <1>5 DEF IInv, Once
  <2>4. OnePlace'
    BY <1>1, <1>2, <2>1, <2>2 DEF IInv, OnePlace
  <2>5. HeldOrCanceled'
    BY <1>3, <1>4, <2>2 DEF IInv, HeldOrCanceled
  <2> QED
    BY <1>4, <2>3, <2>4, <2>5 DEF IInv
<1>6. CASE jobs' = Append(jobs, made') /\ assigning' = <<o, made'>>
  <2>1. made' \notin UnderWay \cup Answered
    BY <1>1 DEF IInv, OnePlace
  <2>2. made' \notin JobsOf(jobs) /\ \A i, j \in 1 .. Len(jobs) : jobs[i] = jobs[j] => i = j
    BY <2>1 DEF UnderWay, Queued, IInv, Once
  <2>3. /\ Queued' = Queued \cup {made'}
        /\ \A i, j \in 1 .. Len(jobs') : jobs'[i] = jobs'[j] => i = j
    BY <1>1, <1>6, <2>2, JobsGrow DEF Queued, IInv, TypeOK
  <2>4. UnderWay' = UnderWay \cup {made'}
    BY <1>2, <2>3 DEF UnderWay
  <2>5. Once'
    BY <1>2, <1>3, <2>3 DEF IInv, Once
  <2>6. OnePlace'
    BY <1>1, <1>2, <2>1, <2>3, <2>4 DEF IInv, OnePlace, UnderWay
  <2>7. HeldOrCanceled'
    BY <1>3, <1>4, <1>6, <2>4 DEF IInv, HeldOrCanceled
  <2> QED
    BY <1>4, <2>5, <2>6, <2>7 DEF IInv
<1> QED
  BY <1>5, <1>6 DEF Compute

\* Canceling and assigning: no task moves, and a handle that gives its task up
\* cancels it.
LEMMA HandleStep ==
  ASSUME PoolAssumption, IInv, TypeOK', AssigningInCompute',
         UNCHANGED <<jobs, uiTasks, drained, answer, made, pc, job>>,
         \A t \in Task : canceled[t] => canceled'[t],
         \A t \in Task : \A o \in Owner :
           held[o] = t => canceled'[t] \/ held'[o] = t,
         assigning # << >> =>
           assigning' = assigning \/ (\E o \in Owner : held'[o] = assigning[2]),
         assigning = << >> => assigning' = << >>
  PROVE  IInv'
<1>1. /\ Queued' = Queued /\ Posted' = Posted /\ Drained' = Drained /\ Answered' = Answered
      /\ InWork' = InWork /\ Working' = Working
  BY DEF Queued, Posted, Drained, Answered, InWork, Working
<1>2. UnderWay' = UnderWay
  BY <1>1 DEF UnderWay
<1>3. Once'
  BY <1>1 DEF IInv, Once
<1>4. OnePlace'
  BY <1>1, <1>2 DEF IInv, OnePlace
<1>5. HeldOrCanceled'
  <2> SUFFICES ASSUME NEW t \in UnderWay
               PROVE  canceled'[t] \/ (\E o \in Owner : held'[o] = t)
                        \/ (assigning' # << >> /\ assigning'[2] = t)
    BY <1>2 DEF HeldOrCanceled
  <2>1. t \in Task
    BY TasksUnderWay DEF IInv
  <2>2. CASE canceled[t]
    BY <2>1, <2>2
  <2>3. CASE \E o \in Owner : held[o] = t
    BY <2>1, <2>3
  <2>4. CASE assigning # << >> /\ assigning[2] = t
    BY <2>4
  <2> QED
    BY <2>2, <2>3, <2>4 DEF IInv, HeldOrCanceled
<1> QED
  BY <1>3, <1>4, <1>5 DEF IInv

LEMMA AssignStep == PoolAssumption /\ IInv /\ TypeOK' /\ Assign => IInv'
<1> SUFFICES ASSUME PoolAssumption, IInv, TypeOK', Assign PROVE IInv'
  OBVIOUS
<1>1. assigning \in Owner \X (Task \cup {NoTask})
  BY DEF Assign, IInv, AssigningInCompute, TypeOK
<1>2. AssigningInCompute'
  BY DEF Assign, AssigningInCompute, IInv, TypeOK
<1>3. /\ canceled' = [t \in Task |-> canceled[t] \/ t = held[assigning[1]]]
      /\ held' = [held EXCEPT ![assigning[1]] = assigning[2]]
  BY DEF Assign, CancelHandle
<1>4. held \in [Owner -> Task \cup {NoTask}] /\ assigning[1] \in Owner
  BY <1>1 DEF IInv, TypeOK
<1>5. held'[assigning[1]] = assigning[2]
  BY <1>3, <1>4
<1>6. \A t \in Task : canceled[t] => canceled'[t]
  BY <1>3
<1>7. \A t \in Task : \A o \in Owner : held[o] = t => canceled'[t] \/ held'[o] = t
  BY <1>3, <1>4
<1>8. UNCHANGED <<jobs, uiTasks, drained, answer, made, pc, job>> /\ assigning' = << >>
  BY DEF Assign, poolVars, workerVars
<1> QED
  BY <1>2, <1>4, <1>5, <1>6, <1>7, <1>8, HandleStep

LEMMA CancelStep ==
  ASSUME PoolAssumption, IInv, TypeOK', NEW o \in Owner, Cancel(o) PROVE IInv'
<1>1. AssigningInCompute'
  BY DEF Cancel, AssigningInCompute, IInv, uiVars
<1>2. /\ canceled' = [t \in Task |-> canceled[t] \/ t = held[o]]
      /\ held' = [held EXCEPT ![o] = NoTask]
      /\ held \in [Owner -> Task \cup {NoTask}]
  BY DEF Cancel, CancelHandle, IInv, TypeOK
<1>3. \A t \in Task : canceled[t] => canceled'[t]
  BY <1>2
<1>4. \A t \in Task : \A p \in Owner : held[p] = t => canceled'[t] \/ held'[p] = t
  BY <1>2
<1>5. UNCHANGED <<jobs, uiTasks, drained, answer, made, pc, job, assigning>>
  BY DEF Cancel, poolVars, workerVars, uiVars
<1> QED
  BY <1>1, <1>3, <1>4, <1>5, HandleStep

LEMMA DrainStep == IInv /\ TypeOK' /\ DrainUiTasks => IInv'
<1> SUFFICES ASSUME IInv, TypeOK', DrainUiTasks PROVE IInv'
  OBVIOUS
<1>1. drained' = uiTasks /\ uiTasks' = << >> /\ Len(uiTasks') = 0
      /\ UNCHANGED <<jobs, pc, job, canceled, held, assigning, made, answer>>
  BY DEF DrainUiTasks, poolVars, workerVars, handleVars
<1>2. Drained' = Posted /\ Posted' = {} /\ Queued' = Queued /\ InWork' = InWork
      /\ Answered' = Answered /\ Working' = Working
  BY <1>1 DEF Drained, Posted, TasksOf, Queued, InWork, Answered, Working
<1>3. UnderWay' \subseteq UnderWay
  BY <1>2 DEF UnderWay
<1>4. Once'
  BY <1>1, <1>2 DEF IInv, Once
<1>5. OnePlace'
  BY <1>1, <1>2, <1>3 DEF IInv, OnePlace
<1>6. AssigningInCompute'
  BY DEF DrainUiTasks, handleVars, IInv, AssigningInCompute
<1>7. HeldOrCanceled'
  BY <1>1, <1>3 DEF IInv, HeldOrCanceled
<1> QED
  BY <1>4, <1>5, <1>6, <1>7 DEF IInv

LEMMA RunTaskStep == PoolAssumption /\ IInv /\ TypeOK' /\ RunTask => IInv'
<1> SUFFICES ASSUME PoolAssumption, IInv, TypeOK', RunTask PROVE IInv'
  OBVIOUS
<1> DEFINE t == Head(drained)[1]
<1>1. /\ drained' = Tail(drained)
      /\ UNCHANGED <<jobs, pc, job, canceled, held, assigning, made, uiTasks>>
      /\ answer' = answer \/ answer' = [answer EXCEPT ![t] = Head(drained)[2]]
      /\ uiAt = "drain" /\ uiAt' \in {"drain", "callback"}
  BY DEF RunTask, poolVars, workerVars, handleVars
<1>2. /\ Drained' = Drained \ {t} /\ t \in Drained
      /\ \A i, j \in 1 .. Len(drained') : drained'[i][1] = drained'[j][1] => i = j
  BY <1>1, TasksShrink DEF Drained, RunTask, IInv, TypeOK, Once
<1>3. Posted' = Posted /\ Queued' = Queued /\ InWork' = InWork /\ Working' = Working
  BY <1>1 DEF Posted, Queued, InWork, Working
<1>4. UnderWay' \subseteq UnderWay /\ t \in UnderWay
  BY <1>2, <1>3 DEF UnderWay
<1>5. Answered' \subseteq Answered \cup {t}
  BY <1>1 DEF Answered, IInv, TypeOK
<1>6. Once'
  BY <1>1, <1>2, <1>3 DEF IInv, Once
<1>7. OnePlace'
  <2>1. UnderWay' = Queued \cup InWork \cup Posted \cup (Drained \ {t})
    BY <1>2, <1>3 DEF UnderWay
  <2>2. t \notin Queued /\ t \notin InWork /\ t \notin Posted
    BY <1>2 DEF IInv, OnePlace
  <2>3. UnderWay' \cap Answered' = {}
    BY <1>4, <1>5, <2>1, <2>2 DEF IInv, OnePlace
  <2>4. UnderWay' \cup Answered' \subseteq 1 .. made'
    BY <1>1, <1>4, <1>5 DEF IInv, OnePlace
  <2> QED
    BY <1>2, <1>3, <2>3, <2>4 DEF IInv, OnePlace
<1>8. AssigningInCompute'
  BY <1>1 DEF IInv, AssigningInCompute
<1>9. HeldOrCanceled'
  BY <1>1, <1>4 DEF IInv, HeldOrCanceled
<1> QED
  BY <1>6, <1>7, <1>8, <1>9 DEF IInv

LEMMA StopStep == IInv /\ TypeOK' /\ Stop => IInv'
<1> SUFFICES ASSUME IInv, TypeOK', Stop PROVE IInv'
  OBVIOUS
<1>1. jobs' = << >> /\ Len(jobs') = 0
      /\ UNCHANGED <<uiTasks, drained, pc, job, canceled, held, assigning, made, answer>>
  BY DEF Stop, workerVars, handleVars
<1>2. Queued' = {} /\ Posted' = Posted /\ Drained' = Drained /\ InWork' = InWork
      /\ Answered' = Answered /\ Working' = Working
  BY <1>1 DEF Drained, Posted, Queued, JobsOf, InWork, Answered, Working
<1>3. UnderWay' \subseteq UnderWay
  BY <1>2 DEF UnderWay
<1>4. Once'
  BY <1>1, <1>2 DEF IInv, Once
<1>5. OnePlace'
  BY <1>1, <1>2, <1>3 DEF IInv, OnePlace
<1>6. AssigningInCompute'
  BY <1>1 DEF Stop, IInv, AssigningInCompute
<1>7. HeldOrCanceled'
  BY <1>1, <1>3 DEF IInv, HeldOrCanceled
<1> QED
  BY <1>4, <1>5, <1>6, <1>7 DEF IInv

LEMMA TakeJobStep ==
  ASSUME PoolAssumption, IInv, TypeOK', NEW w \in Worker, TakeJob(w) PROVE IInv'
<1>1. /\ jobs # << >> /\ jobs' = Tail(jobs) /\ job' = [job EXCEPT ![w] = Head(jobs)]
      /\ pc[w] = "loop" /\ pc' = [pc EXCEPT ![w] = "start"]
      /\ UNCHANGED <<uiTasks, drained, canceled, held, assigning, made, answer, uiAt>>
  BY DEF TakeJob, Move, handleVars, uiVars
<1>2. Working' = Working \cup {w} /\ w \notin Working
  BY <1>1 DEF Working, IInv, TypeOK
<1>3. job'[w] = Head(jobs) /\ \A v \in Working : job'[v] = job[v]
  BY <1>1, <1>2 DEF IInv, TypeOK, Working
<1>4. /\ Queued' = Queued \ {Head(jobs)} /\ Head(jobs) \in Queued
      /\ \A i, j \in 1 .. Len(jobs') : jobs'[i] = jobs'[j] => i = j
  BY <1>1, JobsShrink DEF Queued, IInv, TypeOK, Once
<1>5. InWork' = InWork \cup {Head(jobs)}
  BY <1>2, <1>3 DEF InWork
<1>6. Posted' = Posted /\ Drained' = Drained /\ Answered' = Answered
  BY <1>1 DEF Posted, Drained, Answered
<1>7. UnderWay' = UnderWay
  BY <1>4, <1>5, <1>6 DEF UnderWay
<1>8. \A v \in Working : job[v] # Head(jobs)
  BY <1>4 DEF InWork, IInv, OnePlace
<1>9. Once'
  BY <1>1, <1>2, <1>3, <1>4, <1>8 DEF IInv, Once
<1>10. OnePlace'
  BY <1>1, <1>4, <1>5, <1>6, <1>7 DEF IInv, OnePlace
<1>11. AssigningInCompute'
  BY <1>1 DEF IInv, AssigningInCompute
<1>12. HeldOrCanceled'
  BY <1>1, <1>7 DEF IInv, HeldOrCanceled
<1> QED
  BY <1>9, <1>10, <1>11, <1>12 DEF IInv

LEMMA PostStep ==
  ASSUME PoolAssumption, IInv, TypeOK', NEW w \in Worker, Post(w) PROVE IInv'
<1>1. /\ pc[w] \in {"postResult", "postError"} /\ pc' = [pc EXCEPT ![w] = "loop"]
      /\ UNCHANGED <<jobs, job, drained, canceled, held, assigning, made, answer, uiAt>>
  BY DEF Post, Move, workerLeaves, poolVars, handleVars, uiVars
<1>2. w \in Working /\ Working' = Working \ {w} /\ job[w] \in InWork
  BY <1>1 DEF Working, InWork, IInv, TypeOK
<1>3. job[w] \in Task
  BY <1>2, TasksUnderWay DEF UnderWay, IInv
<1>4. PICK e \in Outcome : e[1] = job[w] /\ uiTasks' = Append(uiTasks, e)
  <2>1. <<job[w], "result">> \in Outcome /\ <<job[w], "error">> \in Outcome
    BY <1>3 DEF Outcome
  <2> QED
    BY <2>1 DEF Post
<1>5. job[w] \notin Posted /\ job[w] \notin Queued /\ job[w] \notin Drained
      /\ job[w] \notin Answered
  BY <1>2 DEF IInv, OnePlace, UnderWay
<1>6. /\ Posted' = Posted \cup {job[w]}
      /\ \A i, j \in 1 .. Len(uiTasks') : uiTasks'[i][1] = uiTasks'[j][1] => i = j
  BY <1>4, <1>5, TasksGrow DEF Posted, IInv, TypeOK, Once
<1>7. InWork' = InWork \ {job[w]}
  BY <1>1, <1>2 DEF InWork, IInv, Once
<1>8. Queued' = Queued /\ Drained' = Drained /\ Answered' = Answered
  BY <1>1 DEF Queued, Drained, Answered
<1>9. UnderWay' = UnderWay
  BY <1>2, <1>6, <1>7, <1>8 DEF UnderWay
<1>10. Once'
  BY <1>1, <1>2, <1>6 DEF IInv, Once
<1>11. OnePlace'
  BY <1>1, <1>5, <1>6, <1>7, <1>8, <1>9 DEF IInv, OnePlace
<1>12. AssigningInCompute'
  BY <1>1 DEF IInv, AssigningInCompute
<1>13. HeldOrCanceled'
  BY <1>1, <1>9 DEF IInv, HeldOrCanceled
<1> QED
  BY <1>10, <1>11, <1>12, <1>13 DEF IInv

LEMMA Steps == PoolAssumption /\ IInv /\ [Next]_vars => IInv'
<1> SUFFICES ASSUME PoolAssumption, IInv, [Next]_vars PROVE IInv'
  OBVIOUS
<1> USE DEF poolVars, workerVars, handleVars, uiVars
<1>t. TypeOK'
  BY StepTypeOK DEF IInv
<1>a. assigning = << >> <=> uiAt \notin {"notify", "assign"}
  BY DEF IInv, AssigningInCompute
<1>1. ASSUME NEW o \in Owner, Compute(o) PROVE IInv'
  BY <1>1, <1>t, ComputeStep
<1>2. ASSUME NEW o \in Owner, Cancel(o) PROVE IInv'
  BY <1>2, <1>t, CancelStep
<1>3. CASE DestroyPool
  BY <1>3, <1>t, <1>a, QuietStep DEF DestroyPool, InUserCode, Working, AssigningInCompute
<1>4. CASE DrainUiTasks
  BY <1>4, <1>t, DrainStep
<1>5. CASE NotifyOne
  <2>1. Working' \subseteq Working
    BY <1>5 DEF NotifyOne, Waiting, Working, IInv, TypeOK
  <2> QED
    BY <1>5, <2>1, <1>t, <1>a, QuietStep DEF NotifyOne, AssigningInCompute
<1>6. CASE Assign
  BY <1>6, <1>t, AssignStep
<1>7. CASE RunTask
  BY <1>7, <1>t, RunTaskStep
<1>8. CASE CallbackReturns \/ DrainEnds
  BY <1>8, <1>t, <1>a, QuietStep DEF CallbackReturns, DrainEnds, Working, AssigningInCompute
<1>9. CASE Stop
  BY <1>9, <1>t, StopStep
<1>10. CASE NotifyAll
  <2>1. Working' \subseteq Working
    BY <1>10 DEF NotifyAll, Working, IInv, TypeOK
  <2> QED
    BY <1>10, <2>1, <1>t, <1>a, QuietStep DEF NotifyAll, AssigningInCompute
<1>11. CASE Join
  <2>1. AssigningInCompute'
    BY <1>11, <1>a DEF Join, AssigningInCompute, IInv, TypeOK
  <2> QED
    BY <1>11, <2>1, <1>t, QuietStep DEF Join, Working
<1>12. ASSUME NEW w \in Worker, TakeJob(w) PROVE IInv'
  BY <1>12, <1>t, TakeJobStep
<1>13. ASSUME NEW w \in Worker, Post(w) PROVE IInv'
  BY <1>13, <1>t, PostStep
<1>14. ASSUME NEW w \in Worker,
              Sleep(w) \/ Exit(w) \/ BeforeWork(w) \/ AfterWork(w) \/ WorkReturns(w)
                \/ WorkThrows(w) \/ SpuriousWakeup(w)
       PROVE  IInv'
  <2>1. Working' \subseteq Working
    BY <1>14 DEF Sleep, Exit, BeforeWork, AfterWork, TestFlags, WorkReturns, WorkThrows,
                 SpuriousWakeup, Move, Working, IInv, TypeOK
  <2>2. UNCHANGED <<jobs, uiTasks, drained, answer, made, canceled, held, job, assigning, uiAt>>
    BY <1>14 DEF Sleep, Exit, BeforeWork, AfterWork, TestFlags, WorkReturns, WorkThrows,
                 SpuriousWakeup, workerLeaves
  <2>3. AssigningInCompute'
    BY <2>2, <1>a DEF AssigningInCompute
  <2> QED
    BY <2>1, <2>2, <2>3, <1>t, QuietStep
<1>15. CASE UNCHANGED vars
  BY <1>15, <1>t, <1>a, QuietStep DEF vars, workerPoolVars, Working, AssigningInCompute
<1> QED
  BY <1>1, <1>2, <1>3, <1>4, <1>5, <1>6, <1>7, <1>8, <1>9, <1>10, <1>11, <1>12, <1>13,
     <1>14, <1>15 DEF Next, UiCallReturns, WorkerReturns

\* The inductive invariant: every task is in one place, and is held or canceled
\* until it is answered.
THEOREM TasksAreAccountedFor == PoolAssumption => (Spec => []IInv)
<1> SUFFICES ASSUME PoolAssumption PROVE Spec => []IInv
  OBVIOUS
<1>1. Init => IInv
  BY Initially
<1>2. IInv /\ [Next]_vars => IInv'
  BY Steps
<1> QED
  BY <1>1, <1>2, PTL DEF Spec

\* A callback runs for a task at most once, only while some owner holds its handle
\* and only while the pool lives, wherever the cancel or the destruction met it.
THEOREM AnsweredOnlyIfHeld == PoolAssumption => (Spec => OnlyHeldAnswered)
<1> SUFFICES ASSUME PoolAssumption PROVE Spec => OnlyHeldAnswered
  OBVIOUS
<1>1. IInv /\ [Next]_vars =>
        (\A t \in Task : answer'[t] # answer[t] =>
           answer[t] = "none" /\ alive /\ \E o \in Owner : held[o] = t)
  <2> SUFFICES ASSUME IInv, [Next]_vars, NEW t \in Task, answer'[t] # answer[t]
               PROVE  answer[t] = "none" /\ alive /\ \E o \in Owner : held[o] = t
    OBVIOUS
  <2> USE DEF poolVars, workerVars, handleVars, uiVars
  <2>1. RunTask
    BY DEF Next, UiCallReturns, WorkerReturns, Compute, Cancel, DestroyPool, DrainUiTasks,
           NotifyOne, Assign, CallbackReturns, DrainEnds, Stop, NotifyAll, Join, Sleep, Exit,
           TakeJob, BeforeWork, AfterWork, TestFlags, WorkReturns, WorkThrows, Post,
           SpuriousWakeup, workerLeaves, vars, workerPoolVars
  <2>2. /\ ~Dropped(Head(drained)[1]) /\ drained # << >> /\ uiAt = "drain"
        /\ answer' = [answer EXCEPT ![Head(drained)[1]] = Head(drained)[2]]
    BY <2>1 DEF RunTask
  <2>3. t = Head(drained)[1]
    BY <2>2 DEF IInv, TypeOK
  <2>4. t \in Drained
    BY <2>2, <2>3, TasksShrink DEF Drained, IInv, TypeOK, Once
  <2>5. answer[t] = "none"
    BY <2>4 DEF IInv, OnePlace, UnderWay, Answered
  <2>6. \E o \in Owner : held[o] = t
    BY <2>2, <2>3, <2>4 DEF IInv, HeldOrCanceled, UnderWay, AssigningInCompute, Dropped
  <2> QED
    BY <2>2, <2>3, <2>5, <2>6 DEF Dropped
<1> QED
  BY <1>1, TasksAreAccountedFor, PTL DEF Spec, OnlyHeldAnswered


(***************************************************************************)
(* Sleeping workers.                                                       *)
(***************************************************************************)

Awake == {w \in Worker : pc[w] = "loop"}

\* Steps that leave the queue alone and send no worker away from its loop.
LEMMA AwakeStay ==
  ASSUME PoolAssumption, TypeOK, TypeOK', NoIdleWorker, jobs' = jobs,
         uiAt = "notify" => uiAt' = "notify", closing => closing',
         Awake \subseteq Awake', Waiting' \subseteq Waiting
  PROVE  NoIdleWorker'
<1>1. IsFiniteSet(Awake') /\ IsFiniteSet(Awake)
  BY FS_Subset DEF Awake, PoolAssumption
<1>2. Cardinality(Awake) <= Cardinality(Awake') /\ Cardinality(Awake) \in Nat
      /\ Cardinality(Awake') \in Nat
  BY <1>1, FS_Subset, FS_CardinalityType
<1>3. SUFFICES ASSUME Waiting' # {}, ~closing'
               PROVE  Len(jobs') <= Cardinality(Awake') + (IF uiAt' = "notify" THEN 1 ELSE 0)
  BY DEF NoIdleWorker, Awake
<1>4. Len(jobs) <= Cardinality(Awake) + (IF uiAt = "notify" THEN 1 ELSE 0)
  BY <1>3 DEF NoIdleWorker, Awake
<1>5. Len(jobs) \in Nat
  BY LenProperties DEF TypeOK
<1> QED
  BY <1>2, <1>4, <1>5

\* enqueue: one job more, and one notification on its way.
LEMMA ComputeKeepsAwake ==
  ASSUME PoolAssumption, TypeOK, TypeOK', NoIdleWorker, NEW o \in Owner, Compute(o)
  PROVE  NoIdleWorker'
<1>1. Awake' = Awake /\ Waiting' = Waiting /\ closing' = closing
  BY DEF Compute, workerVars, Awake, Waiting
<1>2. uiAt # "notify"
  BY DEF Compute, InUserCode
<1>3. CASE jobs' = jobs
  BY <1>1, <1>2, <1>3, AwakeStay
<1>4. CASE jobs' = Append(jobs, made') /\ uiAt' = "notify"
  <2>1. made' \in Task
    BY DEF Compute, TypeOK, PoolAssumption, Task
  <2>2. Len(jobs') = Len(jobs) + 1 /\ Len(jobs) \in Nat
    BY <1>4, <2>1, AppendProperties, LenProperties DEF TypeOK
  <2>3. Cardinality(Awake) \in Nat
    BY FS_Subset, FS_CardinalityType DEF Awake, PoolAssumption
  <2>4. SUFFICES ASSUME Waiting # {}, ~closing PROVE Len(jobs') <= Cardinality(Awake) + 1
    BY <1>1, <1>4 DEF NoIdleWorker, Awake
  <2>5. Len(jobs) <= Cardinality(Awake) + 0
    BY <1>2, <2>4 DEF NoIdleWorker, Awake
  <2> QED
    BY <2>2, <2>3, <2>5
<1> QED
  BY <1>3, <1>4 DEF Compute

\* The notification: it wakes a worker, or nobody sleeps.
LEMMA NotifyKeepsAwake ==
  ASSUME PoolAssumption, TypeOK, TypeOK', NoIdleWorker, NotifyOne PROVE NoIdleWorker'
<1>1. jobs' = jobs /\ closing' = closing /\ uiAt = "notify" /\ uiAt' = "assign"
  BY DEF NotifyOne, poolVars
<1>2. CASE Waiting = {}
  BY <1>2 DEF NotifyOne, NoIdleWorker, Waiting
<1>3. CASE Waiting # {}
  <2>1. PICK w \in Waiting : pc' = [pc EXCEPT ![w] = "loop"]
    BY <1>3 DEF NotifyOne
  <2>2. w \in Worker /\ w \notin Awake /\ Awake' = Awake \cup {w}
    BY <2>1 DEF Waiting, Awake, TypeOK
  <2>3. IsFiniteSet(Awake)
    BY FS_Subset DEF Awake, PoolAssumption
  <2>4. Cardinality(Awake') = Cardinality(Awake) + 1 /\ Cardinality(Awake) \in Nat
    BY <2>2, <2>3, FS_AddElement, FS_CardinalityType
  <2>5. SUFFICES ASSUME ~closing PROVE Len(jobs) <= Cardinality(Awake') + 0
    BY <1>1 DEF NoIdleWorker, Awake
  <2>6. Len(jobs) <= Cardinality(Awake) + 1
    BY <1>1, <1>3, <2>5 DEF NoIdleWorker, Awake
  <2> QED
    BY <2>4, <2>6
<1> QED
  BY <1>2, <1>3

\* A worker takes a job: one job less, and one worker less awake.
LEMMA TakeJobKeepsAwake ==
  ASSUME PoolAssumption, TypeOK, TypeOK', NoIdleWorker, NEW w \in Worker, TakeJob(w)
  PROVE  NoIdleWorker'
<1>1. Waiting' = Waiting /\ Awake' = Awake \ {w} /\ w \in Awake
  BY DEF TakeJob, Move, Waiting, Awake, TypeOK
<1>2. closing' = closing /\ uiAt' = uiAt
  BY DEF TakeJob, uiVars
<1>3. Len(jobs') = Len(jobs) - 1 /\ Len(jobs) \in Nat
  BY HeadTailProperties, LenProperties DEF TakeJob, TypeOK
<1>4. IsFiniteSet(Awake)
  BY FS_Subset DEF Awake, PoolAssumption
<1>5. Cardinality(Awake') = Cardinality(Awake) - 1 /\ Cardinality(Awake) \in Nat
  BY <1>1, <1>4, FS_RemoveElement, FS_CardinalityType
<1>6. SUFFICES ASSUME Waiting # {}, ~closing
               PROVE  Len(jobs') <= Cardinality(Awake') + (IF uiAt = "notify" THEN 1 ELSE 0)
  BY <1>1, <1>2 DEF NoIdleWorker, Awake
<1>7. Len(jobs) <= Cardinality(Awake) + (IF uiAt = "notify" THEN 1 ELSE 0)
  BY <1>6 DEF NoIdleWorker, Awake
<1> QED
  BY <1>3, <1>5, <1>7

LEMMA StepKeepsAwake ==
  PoolAssumption /\ TypeOK /\ TypeOK' /\ NoIdleWorker /\ [Next]_vars => NoIdleWorker'
<1> SUFFICES ASSUME PoolAssumption, TypeOK, TypeOK', NoIdleWorker, [Next]_vars
             PROVE  NoIdleWorker'
  OBVIOUS
<1> USE DEF poolVars, workerVars, handleVars, uiVars
<1>1. ASSUME NEW o \in Owner, Compute(o) PROVE NoIdleWorker'
  BY <1>1, ComputeKeepsAwake
<1>2. ASSUME NEW o \in Owner, Cancel(o) PROVE NoIdleWorker'
  BY <1>2, AwakeStay DEF Cancel, Awake, Waiting
<1>3. CASE DestroyPool \/ DrainUiTasks \/ Assign \/ RunTask \/ CallbackReturns \/ DrainEnds
  BY <1>3, AwakeStay
  DEF DestroyPool, InUserCode, DrainUiTasks, Assign, RunTask, CallbackReturns, DrainEnds, Awake,
      Waiting
<1>4. CASE NotifyOne
  BY <1>4, NotifyKeepsAwake
<1>5. CASE Stop
  BY <1>5 DEF Stop, NoIdleWorker
<1>6. CASE NotifyAll
  <2>1. Waiting' = {}
    BY <1>6 DEF NotifyAll, Waiting, TypeOK
  <2> QED
    BY <2>1 DEF NoIdleWorker
<1>7. CASE Join
  BY <1>7, AwakeStay DEF Join, Awake, Waiting
<1>8. ASSUME NEW w \in Worker, Sleep(w) PROVE NoIdleWorker'
  <2>1. jobs' = << >> /\ Len(jobs') = 0
    BY <1>8 DEF Sleep, workerLeaves
  <2>2. Cardinality(Awake') \in Nat
    BY FS_Subset, FS_CardinalityType DEF Awake, PoolAssumption
  <2> QED
    BY <2>1, <2>2 DEF NoIdleWorker, Awake
<1>9. ASSUME NEW w \in Worker, Exit(w) PROVE NoIdleWorker'
  BY <1>9 DEF Exit, workerLeaves, NoIdleWorker
<1>10. ASSUME NEW w \in Worker, TakeJob(w) PROVE NoIdleWorker'
  BY <1>10, TakeJobKeepsAwake
<1>11. ASSUME NEW w \in Worker,
              BeforeWork(w) \/ AfterWork(w) \/ WorkReturns(w) \/ WorkThrows(w) \/ Post(w)
                \/ SpuriousWakeup(w)
       PROVE  NoIdleWorker'
  <2>1. UNCHANGED <<jobs, closing, uiAt>>
    BY <1>11 DEF BeforeWork, AfterWork, TestFlags, WorkReturns, WorkThrows, Post,
                 SpuriousWakeup, workerLeaves
  <2>2. Awake \subseteq Awake' /\ Waiting' \subseteq Waiting
    BY <1>11 DEF BeforeWork, AfterWork, TestFlags, WorkReturns, WorkThrows, Post,
                 SpuriousWakeup, Move, Awake, Waiting, TypeOK
  <2> QED
    BY <2>1, <2>2, AwakeStay
<1>12. CASE UNCHANGED vars
  BY <1>12, AwakeStay DEF vars, workerPoolVars, Awake, Waiting
<1> QED
  BY <1>1, <1>2, <1>3, <1>4, <1>5, <1>6, <1>7, <1>8, <1>9, <1>10, <1>11, <1>12
  DEF Next, UiCallReturns, WorkerReturns

\* While a job waits that no awake worker and no pending notification is there for,
\* no worker sleeps: enqueue and stop lose no wake-up, for any number of workers.
THEOREM NobodySleepsOnAJob == PoolAssumption => (Spec => []NoIdleWorker)
<1> SUFFICES ASSUME PoolAssumption PROVE Spec => []NoIdleWorker
  OBVIOUS
<1>1. Init => NoIdleWorker
  BY DEF Init, NoIdleWorker, Waiting
<1>2. IInv /\ IInv' /\ NoIdleWorker /\ [Next]_vars => NoIdleWorker'
  BY StepKeepsAwake DEF IInv
<1> QED
  BY <1>1, <1>2, TasksAreAccountedFor, PTL DEF Spec
=============================================================================
