--------------------------- MODULE FramePipeline ----------------------------
(***************************************************************************)
(* evk::FramePipeline<Frame> (core/include/evk/frame_pipeline.h): the      *)
(* hand-over of frames from the UI thread, which alone calls start,        *)
(* produce and stop, to the raster thread that start creates.              *)
(*                                                                         *)
(* An action is one critical section of mutex_, or one step between two of *)
(* them.  The builder and the consumer touch frames_ without the mutex, so *)
(* the builder's writes are actions of their own and consume lasts from    *)
(* Dequeue to ConsumeReturns or ConsumeThrows.  Waiting on wake_ is a      *)
(* state of the raster thread that only a notification, or a spurious      *)
(* wake-up, ends.                                                          *)
(***************************************************************************)
EXTENDS Integers, Sequences

CONSTANTS
  NumSlots,    \* size of frames_, busy_ and queue_ (2 in the code)
  Frame,       \* what a slot can hold
  BlankFrame   \* the default-constructed Frame

ASSUME NumSlotsAssumption == NumSlots \in Nat \ {0}
ASSUME BlankFrameAssumption == BlankFrame \in Frame

Slots == 0 .. NumSlots - 1

VARIABLES
  frames, busy, queue, head, queued,   \* the slots and the ring of their indices
  running, stopping, started, failure,
  ready,                               \* the promise start() waits for
  ui, uiSlot,                          \* UI thread: where it is, produce's index
  raster, rasterSlot                   \* raster thread: where it is, its index

slotVars == <<frames, busy, queue, head, queued>>
flagVars == <<running, stopping, started, failure, ready>>
uiVars == <<ui, uiSlot>>
rasterVars == <<raster, rasterSlot>>
pipelineVars == <<slotVars, flagVars, uiVars, rasterVars>>

UiStates == {"idle", "awaitReady", "build", "notifyWork", "notifyStop", "join"}
RasterStates == {"none", "init", "loop", "waiting", "consume", "finish", "done"}

Init ==
  /\ frames = [s \in Slots |-> BlankFrame]
  /\ busy = [s \in Slots |-> FALSE]
  /\ queue = [s \in Slots |-> 0]
  /\ head = 0
  /\ queued = 0
  /\ running = FALSE
  /\ stopping = FALSE
  /\ started = FALSE
  /\ failure = FALSE
  /\ ready = "unset"
  /\ ui = "idle"
  /\ uiSlot = 0
  /\ raster = "none"
  /\ rasterSlot = 0

-----------------------------------------------------------------------------
(* The UI thread *)

\* Slip: the ring index runs on past the array.
WrapForgotten(k) == k

\* The ring position that is k places behind the head.
Wrap(k) == k % NumSlots

\* wake_.notify_one(): only the raster thread ever waits on wake_.
WakeRaster == raster' = IF raster = "waiting" THEN "loop" ELSE raster

\* start(): a second call returns false at once and is no step.
Start ==
  /\ ui = "idle"
  /\ ~started
  /\ started' = TRUE
  /\ raster' = "init"
  /\ ui' = "awaitReady"
  /\ UNCHANGED <<slotVars, running, stopping, failure, ready, uiSlot, rasterSlot>>

StartReturns ==
  /\ ui = "awaitReady"
  /\ ready = "ok"
  /\ ui' = "idle"
  /\ UNCHANGED <<slotVars, flagVars, uiSlot, rasterVars>>

\* initialize failed: start calls stop before it returns false.
StartFails ==
  /\ ui = "awaitReady"
  /\ ready = "failed"
  /\ stopping' = TRUE
  /\ ui' = "notifyStop"
  /\ UNCHANGED <<slotVars, running, started, failure, ready, uiSlot, rasterVars>>

\* running(), and the first test of produce.
Accepting == running /\ ~stopping

\* produce: the first free slot is taken under the lock.  When the pipeline is
\* not Accepting or every slot is busy, produce returns false and changes nothing.
Claim(s) ==
  /\ ui = "idle"
  /\ Accepting
  /\ ~busy[s]
  /\ \A t \in Slots : t < s => busy[t]
  /\ busy' = [busy EXCEPT ![s] = TRUE]
  /\ uiSlot' = s
  /\ ui' = "build"
  /\ UNCHANGED <<frames, queue, head, queued, flagVars, rasterVars>>

\* builder(frames_[index]): any number of writes, outside the lock.
WriteFrame(f) ==
  /\ ui = "build"
  /\ frames' = [frames EXCEPT ![uiSlot] = f]
  /\ UNCHANGED <<busy, queue, head, queued, flagVars, uiVars, rasterVars>>

BuilderThrows ==
  /\ ui = "build"
  /\ busy' = [busy EXCEPT ![uiSlot] = FALSE]
  /\ ui' = "idle"
  /\ UNCHANGED <<frames, queue, head, queued, flagVars, uiSlot, rasterVars>>

\* Slip: enqueue without the notification.
EnqueueSilent ==
  /\ ui = "build"
  /\ queue' = [queue EXCEPT ![Wrap(head + queued)] = uiSlot]
  /\ queued' = queued + 1
  /\ ui' = "idle"
  /\ UNCHANGED <<frames, busy, head, flagVars, uiSlot, rasterVars>>

\* Slip: the ring is filled from position 0, not from the head.
EnqueueFromZero ==
  /\ ui = "build"
  /\ queue' = [queue EXCEPT ![Wrap(queued)] = uiSlot]
  /\ queued' = queued + 1
  /\ ui' = "notifyWork"
  /\ UNCHANGED <<frames, busy, head, flagVars, uiSlot, rasterVars>>

\* The builder returned: its slot enters the ring, whatever stopping_ says now.
Enqueue ==
  /\ ui = "build"
  /\ queue' = [queue EXCEPT ![Wrap(head + queued)] = uiSlot]
  /\ queued' = queued + 1
  /\ ui' = "notifyWork"
  /\ UNCHANGED <<frames, busy, head, flagVars, uiSlot, rasterVars>>

NotifyWork ==
  /\ ui = "notifyWork"
  /\ WakeRaster
  /\ ui' = "idle"
  /\ UNCHANGED <<slotVars, flagVars, uiSlot, rasterSlot>>

Stop ==
  /\ ui = "idle"
  /\ stopping' = TRUE
  /\ ui' = "notifyStop"
  /\ UNCHANGED <<slotVars, running, started, failure, ready, uiSlot, rasterVars>>

\* Slip: stop() sets the flag and joins without notifying.
NotifyStopForgotten ==
  /\ ui = "notifyStop"
  /\ ui' = "join"
  /\ UNCHANGED <<slotVars, flagVars, uiSlot, rasterVars>>

NotifyStop ==
  /\ ui = "notifyStop"
  /\ WakeRaster
  /\ ui' = "join"
  /\ UNCHANGED <<slotVars, flagVars, uiSlot, rasterSlot>>

\* thread_.join(); a thread never created or already joined is not joinable.
Join ==
  /\ ui = "join"
  /\ raster \in {"none", "done"}
  /\ ui' = "idle"
  /\ UNCHANGED <<slotVars, flagVars, uiSlot, rasterVars>>

-----------------------------------------------------------------------------
(* The raster thread *)

\* running_ = ok and the promise are set while the UI thread can only wait for
\* the promise, so they are one step.
InitializeReturns(ok) ==
  /\ raster = "init"
  /\ running' = ok
  /\ ready' = IF ok THEN "ok" ELSE "failed"
  /\ raster' = IF ok THEN "loop" ELSE "finish"
  /\ UNCHANGED <<slotVars, stopping, started, failure, uiVars, rasterSlot>>

\* recordFailure()
RecordFailure ==
  /\ failure' = TRUE
  /\ stopping' = TRUE

InitializeThrows ==
  /\ raster = "init"
  /\ RecordFailure
  /\ running' = FALSE
  /\ ready' = "failed"
  /\ raster' = "finish"
  /\ UNCHANGED <<slotVars, started, uiVars, rasterSlot>>

\* The predicate of wake_.wait does not hold: release the lock and sleep.
Sleep ==
  /\ raster = "loop"
  /\ ~stopping
  /\ queued = 0
  /\ raster' = "waiting"
  /\ UNCHANGED <<slotVars, flagVars, uiVars, rasterSlot>>

SpuriousWakeup ==
  /\ raster = "waiting"
  /\ raster' = "loop"
  /\ UNCHANGED <<slotVars, flagVars, uiVars, rasterSlot>>

\* stopping_ comes first: what is queued is dropped.
LeaveLoop ==
  /\ raster = "loop"
  /\ stopping
  /\ raster' = "finish"
  /\ UNCHANGED <<slotVars, flagVars, uiVars, rasterSlot>>

\* Slip: the slot is handed back when it is taken, not when it was consumed.
DequeueReleases ==
  /\ raster = "loop"
  /\ ~stopping
  /\ queued > 0
  /\ rasterSlot' = queue[head]
  /\ head' = Wrap(head + 1)
  /\ queued' = queued - 1
  /\ busy' = [busy EXCEPT ![queue[head]] = FALSE]
  /\ raster' = "consume"
  /\ UNCHANGED <<frames, queue, flagVars, uiVars>>

Dequeue ==
  /\ raster = "loop"
  /\ ~stopping
  /\ queued > 0
  /\ rasterSlot' = queue[head]
  /\ head' = Wrap(head + 1)
  /\ queued' = queued - 1
  /\ raster' = "consume"
  /\ UNCHANGED <<frames, busy, queue, flagVars, uiVars>>

\* Slip: the slot is not handed back after consume.
ConsumeKeepsSlot ==
  /\ raster = "consume"
  /\ raster' = "loop"
  /\ UNCHANGED <<slotVars, flagVars, uiVars, rasterSlot>>

ConsumeReturns ==
  /\ raster = "consume"
  /\ busy' = [busy EXCEPT ![rasterSlot] = FALSE]
  /\ raster' = "loop"
  /\ UNCHANGED <<frames, queue, head, queued, flagVars, uiVars, rasterSlot>>

\* The slot stays busy: the loop is left for good.
ConsumeThrows ==
  /\ raster = "consume"
  /\ RecordFailure
  /\ raster' = "finish"
  /\ UNCHANGED <<slotVars, running, started, ready, uiVars, rasterSlot>>

FinishReturns ==
  /\ raster = "finish"
  /\ running' = FALSE
  /\ raster' = "done"
  /\ UNCHANGED <<slotVars, stopping, started, failure, ready, uiVars, rasterSlot>>

FinishThrows ==
  /\ raster = "finish"
  /\ RecordFailure
  /\ running' = FALSE
  /\ raster' = "done"
  /\ UNCHANGED <<slotVars, started, ready, uiVars, rasterSlot>>

-----------------------------------------------------------------------------
UiReturns ==
  \/ StartReturns \/ StartFails
  \/ BuilderThrows \/ Enqueue \/ NotifyWork
  \/ NotifyStop \/ Join

UiStep ==
  \/ Start
  \/ \E s \in Slots : Claim(s)
  \/ \E f \in Frame : WriteFrame(f)
  \/ Stop
  \/ UiReturns

RasterReturns ==
  \/ \E ok \in BOOLEAN : InitializeReturns(ok)
  \/ InitializeThrows
  \/ Sleep \/ LeaveLoop \/ Dequeue
  \/ ConsumeReturns \/ ConsumeThrows
  \/ FinishReturns \/ FinishThrows

RasterStep == RasterReturns \/ SpuriousWakeup

Next == UiStep \/ RasterStep

Spec == Init /\ [][Next]_pipelineVars

(***************************************************************************)
(* Calls return and threads are scheduled: a builder, a consume, an        *)
(* initialize or a finish that was entered ends (it returns or throws),    *)
(* and each thread takes its next step.  Nothing makes the UI thread call  *)
(* produce or stop, and nothing makes the raster thread wake up by itself. *)
(***************************************************************************)
Fairness ==
  /\ WF_pipelineVars(UiReturns)
  /\ WF_pipelineVars(RasterReturns)

FairSpec == Spec /\ Fairness

-----------------------------------------------------------------------------
(* Properties *)

TypeOK ==
  /\ frames \in [Slots -> Frame]
  /\ busy \in [Slots -> BOOLEAN]
  /\ queue \in [Slots -> Slots]
  /\ head \in Slots
  /\ queued \in 0 .. NumSlots
  /\ running \in BOOLEAN
  /\ stopping \in BOOLEAN
  /\ started \in BOOLEAN
  /\ failure \in BOOLEAN
  /\ ready \in {"unset", "ok", "failed"}
  /\ ui \in UiStates
  /\ uiSlot \in Slots
  /\ raster \in RasterStates
  /\ rasterSlot \in Slots

\* The slot index i places behind the head of the ring.
Entry(i) == queue[Wrap(head + i)]

Building == ui = "build"
Consuming == raster = "consume"

\* A slot belongs to one place at a time: the builder, one position of the ring,
\* or the consumer.  This is what lets builder and consumer touch frames_
\* without the mutex (frame_pipeline.h, lines 55 and 83).
SlotOwnership ==
  /\ \A i, j \in 0 .. queued - 1 : Entry(i) = Entry(j) => i = j
  /\ Building => \A i \in 0 .. queued - 1 : Entry(i) # uiSlot
  /\ Consuming => \A i \in 0 .. queued - 1 : Entry(i) # rasterSlot
  /\ Building /\ Consuming => uiSlot # rasterSlot

\* The slots someone owns, and only while someone owns them, are busy; a slot
\* on which consume threw stays busy, but then nothing is accepted any more.
BusyIsOwned ==
  /\ \A i \in 0 .. queued - 1 : busy[Entry(i)]
  /\ Building => busy[uiSlot]
  /\ Consuming => busy[rasterSlot]
  /\ ~stopping => \A s \in Slots : busy[s] =>
        \/ \E i \in 0 .. queued - 1 : Entry(i) = s
        \/ Building /\ uiSlot = s
        \/ Consuming /\ rasterSlot = s

\* No wake-up is lost: the raster thread never sleeps on work or on a stop
\* request unless the notification for it is still to come.
NoLostWakeup ==
  /\ raster = "waiting" /\ queued > 0 => ui = "notifyWork"
  /\ raster = "waiting" /\ stopping => ui = "notifyStop"

\* The frame the consumer reads without the lock never changes under it.
ConsumedFrameStable ==
  [][Consuming /\ Consuming' => frames'[rasterSlot] = frames[rasterSlot]]_pipelineVars

\* The frames in the ring, oldest first, and the frame being consumed.
Pending == [i \in 1 .. queued |-> frames[Entry(i - 1)]]
Active == IF Consuming THEN <<frames[rasterSlot]>> ELSE << >>

Channel == INSTANCE FrameChannel WITH
  Capacity <- NumSlots, pending <- Pending, active <- Active, closed <- stopping

\* The pipeline implements the bounded FIFO channel: frames are consumed in the
\* order produce accepted them, none twice, none skipped before stop (the class
\* comment, frame_pipeline.h lines 14-16).
ImplementsChannel == Channel!Spec

\* The pipeline never hangs.  stop(), and a start() that fails, return: the
\* notification reaches a sleeping raster thread, and a busy one leaves its loop
\* and finishes.  And a slot that produce took comes back, so a full pipeline
\* accepts again, unless it is stopped or failed.
NeverHangs ==
  /\ ui \in {"notifyStop", "join"} ~> ui = "idle"
  /\ \A s \in Slots : busy[s] ~> (~busy[s] \/ stopping)
=============================================================================
