------------------------ MODULE FramePipelineProofs -------------------------
(* Theorems about FramePipeline, for every number of slots and every set   *)
(* of frames.                                                              *)
EXTENDS FramePipeline, FiniteSetTheorems, SequenceTheorems, TLAPS

(***************************************************************************)
(* The ring arithmetic.                                                    *)
(***************************************************************************)

\* At most one round past a slot, % subtracts at most once.
LEMMA WrapOnce ==
  ASSUME NEW a \in Slots, NEW i \in 0 .. NumSlots
  PROVE  Wrap(a + i) = IF a + i < NumSlots THEN a + i ELSE a + i - NumSlots
<1> DEFINE k == a + i
<1>1. NumSlots \in Nat /\ NumSlots > 0
  BY NumSlotsAssumption
<1>2. k \in 0 .. 2 * NumSlots - 1
  BY <1>1 DEF Slots
<1>3. /\ k = NumSlots * (k \div NumSlots) + (k % NumSlots)
      /\ k % NumSlots \in 0 .. NumSlots - 1
      /\ k \div NumSlots \in Int
  <2> HIDE DEF k
  <2> QED
    BY <1>1, <1>2
<1>4. k % NumSlots = IF k < NumSlots THEN k ELSE k - NumSlots
  <2> HIDE DEF k
  <2> QED
    BY <1>1, <1>2, <1>3
<1> QED
  BY <1>1, <1>4 DEF Wrap, Slots

LEMMA WrapInSlots ==
  ASSUME NEW k \in Nat
  PROVE  Wrap(k) \in Slots
BY NumSlotsAssumption DEF Wrap, Slots

\* Positions less than a round apart are different slots of the ring.
LEMMA RingDistinct ==
  ASSUME NEW a \in Slots, NEW i \in 0 .. NumSlots - 1, NEW j \in 0 .. NumSlots - 1,
         Wrap(a + i) = Wrap(a + j)
  PROVE  i = j
<1>1. /\ Wrap(a + i) = IF a + i < NumSlots THEN a + i ELSE a + i - NumSlots
      /\ Wrap(a + j) = IF a + j < NumSlots THEN a + j ELSE a + j - NumSlots
  BY WrapOnce, NumSlotsAssumption DEF Slots
<1> QED
  BY <1>1, NumSlotsAssumption DEF Slots

\* Moving the head one on and counting i from there is counting i + 1.
LEMMA WrapShift ==
  ASSUME NEW a \in Slots, NEW i \in 0 .. NumSlots - 1
  PROVE  Wrap(Wrap(a + 1) + i) = Wrap(a + (i + 1))
<1> DEFINE b == Wrap(a + 1)
           j == i + 1
<1>1. /\ b \in Slots
      /\ b = IF a + 1 < NumSlots THEN a + 1 ELSE a + 1 - NumSlots
  BY WrapOnce, NumSlotsAssumption DEF Slots
<1>2. /\ j \in 0 .. NumSlots
      /\ Wrap(a + j) = IF a + j < NumSlots THEN a + j ELSE a + j - NumSlots
  <2>1. j \in 0 .. NumSlots
    BY NumSlotsAssumption
  <2> HIDE DEF j
  <2> QED
    BY <2>1, WrapOnce, NumSlotsAssumption DEF Slots
<1>3. Wrap(b + i) = IF b + i < NumSlots THEN b + i ELSE b + i - NumSlots
  <2>1. \A c \in Slots : Wrap(c + i) = IF c + i < NumSlots THEN c + i ELSE c + i - NumSlots
    BY WrapOnce, NumSlotsAssumption DEF Slots
  <2> HIDE DEF b
  <2> QED
    BY <1>1, <2>1
<1> QED
  BY <1>1, <1>2, <1>3, NumSlotsAssumption DEF Slots

LEMMA EntryInSlots ==
  ASSUME TypeOK, NEW i \in Nat
  PROVE  /\ Wrap(head + i) \in Slots
         /\ Entry(i) \in Slots
<1>1. head + i \in Nat /\ queue \in [Slots -> Slots]
  BY NumSlotsAssumption DEF TypeOK, Slots
<1>2. Wrap(head + i) \in Slots
  BY NumSlotsAssumption, <1>1 DEF Wrap, Slots
<1> QED
  BY <1>1, <1>2 DEF Entry

(***************************************************************************)
(* A slot that is in nobody's ring position leaves room in the ring: this  *)
(* is what keeps queued_ within the array when Enqueue increments it.      *)
(***************************************************************************)
LEMMA RoomForOneMore ==
  ASSUME TypeOK, SlotOwnership, Building
  PROVE  queued < NumSlots
<1> DEFINE f == [i \in 0 .. queued |-> IF i = queued THEN uiSlot ELSE Entry(i)]
<1>1. /\ NumSlots \in Nat /\ NumSlots > 0
      /\ queued \in 0 .. NumSlots
      /\ queued \in Nat
  BY NumSlotsAssumption DEF TypeOK
<1>2. \A i \in 0 .. queued - 1 : Entry(i) \in Slots
  BY <1>1, EntryInSlots
<1>3. f \in [0 .. queued -> Slots]
  BY <1>1, <1>2 DEF TypeOK
<1>4. \A x, y \in 0 .. queued : f[x] = f[y] => x = y
  BY <1>1 DEF SlotOwnership
<1>5. SUFFICES ASSUME queued = NumSlots PROVE FALSE
  BY <1>1
<1>6. /\ IsFiniteSet(0 .. queued)
      /\ Cardinality(0 .. queued) = queued + 1
  BY <1>1, FS_Interval
<1>7. /\ IsFiniteSet(Slots)
      /\ Cardinality(Slots) = NumSlots
  BY <1>1, FS_Interval DEF Slots
<1>8. \E x, y \in 0 .. queued : x # y /\ f[x] = f[y]
  <2> HIDE DEF f
  <2> QED
    BY <1>1, <1>3, <1>5, <1>6, <1>7, FS_PigeonHole
<1> QED
  BY <1>4, <1>8

\* What Enqueue and Dequeue do to the ring, read through Entry.
LEMMA EntryAfterEnqueue ==
  ASSUME TypeOK, SlotOwnership, Enqueue
  PROVE  /\ queued < NumSlots
         /\ \A i \in 0 .. queued : Entry(i)' = IF i = queued THEN uiSlot ELSE Entry(i)
         /\ queue' \in [Slots -> Slots]
<1>1. queued < NumSlots /\ queued \in Nat /\ queued \in 0 .. NumSlots - 1
  BY RoomForOneMore, NumSlotsAssumption DEF Enqueue, Building, TypeOK
<1>2. /\ queue \in [Slots -> Slots] /\ head \in Slots /\ uiSlot \in Slots
      /\ queue' = [queue EXCEPT ![Wrap(head + queued)] = uiSlot]
      /\ head' = head
  BY DEF TypeOK, Enqueue
<1>3. Wrap(head + queued) \in Slots
  BY <1>1, EntryInSlots
<1>4. ASSUME NEW i \in 0 .. queued
      PROVE  Entry(i)' = IF i = queued THEN uiSlot ELSE Entry(i)
  <2>1. i \in Nat /\ i \in 0 .. NumSlots - 1
    BY <1>1, NumSlotsAssumption
  <2>2. Wrap(head + i) \in Slots
    BY <2>1, EntryInSlots
  <2>3. i # queued => Wrap(head + i) # Wrap(head + queued)
    BY <1>1, <1>2, <2>1, RingDistinct
  <2> QED
    BY <1>2, <1>3, <2>2, <2>3 DEF Entry
<1> QED
  BY <1>1, <1>2, <1>3, <1>4

LEMMA EntryAfterDequeue ==
  ASSUME TypeOK, Dequeue
  PROVE  /\ rasterSlot' = Entry(0)
         /\ \A i \in 0 .. queued - 2 : Entry(i)' = Entry(i + 1)
         /\ head' \in Slots
<1>1. /\ queued \in 0 .. NumSlots /\ queued > 0 /\ NumSlots \in Nat /\ head \in Slots
      /\ queue' = queue /\ head' = Wrap(head + 1) /\ rasterSlot' = queue[head]
  BY NumSlotsAssumption DEF TypeOK, Dequeue
<1>2. Wrap(head + 0) = head
  BY <1>1, WrapOnce DEF Slots
<1>3. ASSUME NEW i \in 0 .. queued - 2
      PROVE  Entry(i)' = Entry(i + 1)
  <2>1. i \in 0 .. NumSlots - 1
    BY <1>1, <1>3
  <2>2. Wrap(Wrap(head + 1) + i) = Wrap(head + (i + 1))
    BY <1>1, <2>1, WrapShift
  <2> QED
    BY <1>1, <2>2 DEF Entry, Wrap
<1>4. head' \in Slots
  BY <1>1, EntryInSlots
<1> QED
  BY <1>1, <1>2, <1>3, <1>4 DEF Entry

-----------------------------------------------------------------------------
(***************************************************************************)
(* The inductive invariant.  TypeOK is not inductive alone: that queued_   *)
(* stays within the array needs the builder's slot to be outside the ring  *)
(* (RoomForOneMore); that it is outside needs the slots of the ring to be  *)
(* busy when Claim picks a free one.                                       *)
(***************************************************************************)
\* The thread that consumes is the one start() created.
ThreadIsStarted == ~started => raster = "none"

IInv == TypeOK /\ SlotOwnership /\ BusyIsOwned /\ ThreadIsStarted

LEMMA InitIInv == Init => IInv
<1> SUFFICES ASSUME Init PROVE IInv
  OBVIOUS
<1>1. 0 \in Slots /\ NumSlots \in Nat
  BY NumSlotsAssumption DEF Slots
<1>2. TypeOK
  <2>1. busy \in [Slots -> BOOLEAN] /\ running \in BOOLEAN /\ stopping \in BOOLEAN
        /\ started \in BOOLEAN /\ failure \in BOOLEAN
    BY Zenon DEF Init
  <2>2. /\ frames \in [Slots -> Frame] /\ queue \in [Slots -> Slots]
        /\ head \in Slots /\ uiSlot \in Slots /\ rasterSlot \in Slots
    BY <1>1, BlankFrameAssumption DEF Init
  <2>3. queued \in 0 .. NumSlots
    BY <1>1 DEF Init
  <2>4. ready \in {"unset", "ok", "failed"} /\ ui \in UiStates /\ raster \in RasterStates
    BY DEF Init, UiStates, RasterStates
  <2> QED
    BY <2>1, <2>2, <2>3, <2>4 DEF TypeOK
<1>3. SlotOwnership
  BY DEF Init, SlotOwnership, Building, Consuming
<1>4. BusyIsOwned
  BY DEF Init, BusyIsOwned, Building, Consuming
<1>5. ThreadIsStarted
  BY DEF Init, ThreadIsStarted
<1> QED
  BY <1>2, <1>3, <1>4, <1>5 DEF IInv

\* No step leaves the types.
LEMMA StepTypeOK == TypeOK /\ SlotOwnership /\ [Next]_pipelineVars => TypeOK'
<1> SUFFICES ASSUME TypeOK, SlotOwnership, [Next]_pipelineVars
             PROVE  TypeOK'
  OBVIOUS
<1> USE DEF TypeOK, UiStates, RasterStates, slotVars, flagVars, uiVars, rasterVars
<1>1. CASE Start
  BY <1>1 DEF Start
<1>2. CASE StartReturns
  BY <1>2 DEF StartReturns
<1>3. CASE StartFails
  BY <1>3 DEF StartFails
<1>4. ASSUME NEW s \in Slots, Claim(s)
      PROVE  TypeOK'
  BY <1>4 DEF Claim
<1>5. ASSUME NEW f \in Frame, WriteFrame(f)
      PROVE  TypeOK'
  BY <1>5 DEF WriteFrame
<1>6. CASE BuilderThrows
  BY <1>6 DEF BuilderThrows
<1>7. CASE Enqueue
  <2>1. queue' \in [Slots -> Slots] /\ queued < NumSlots
    BY <1>7, EntryAfterEnqueue
  <2>2. queued' \in 0 .. NumSlots
    BY <1>7, <2>1, NumSlotsAssumption DEF Enqueue
  <2> QED
    BY <1>7, <2>1, <2>2 DEF Enqueue
<1>8. CASE NotifyWork
  BY <1>8 DEF NotifyWork, WakeRaster
<1>9. CASE Stop
  BY <1>9 DEF Stop
<1>10. CASE NotifyStop
  BY <1>10 DEF NotifyStop, WakeRaster
<1>11. CASE Join
  BY <1>11 DEF Join
<1>12. ASSUME NEW ok \in BOOLEAN, InitializeReturns(ok)
      PROVE  TypeOK'
  BY <1>12 DEF InitializeReturns
<1>13. CASE InitializeThrows
  BY <1>13 DEF InitializeThrows, RecordFailure
<1>14. CASE Sleep
  BY <1>14 DEF Sleep
<1>15. CASE LeaveLoop
  BY <1>15 DEF LeaveLoop
<1>16. CASE Dequeue
  <2>1. head' \in Slots /\ rasterSlot' \in Slots
    BY <1>16, EntryAfterDequeue, EntryInSlots
  <2>2. queued' \in 0 .. NumSlots
    BY <1>16, NumSlotsAssumption DEF Dequeue
  <2> QED
    BY <1>16, <2>1, <2>2 DEF Dequeue
<1>17. CASE ConsumeReturns
  BY <1>17 DEF ConsumeReturns
<1>18. CASE ConsumeThrows
  BY <1>18 DEF ConsumeThrows, RecordFailure
<1>19. CASE FinishReturns
  BY <1>19 DEF FinishReturns
<1>20. CASE FinishThrows
  BY <1>20 DEF FinishThrows, RecordFailure
<1>21. CASE SpuriousWakeup
  BY <1>21 DEF SpuriousWakeup
<1>22. CASE UNCHANGED pipelineVars
  BY <1>22 DEF pipelineVars
<1> QED
  BY <1>1, <1>2, <1>3, <1>4, <1>5, <1>6, <1>7, <1>8, <1>9, <1>10,
     <1>11, <1>12, <1>13, <1>14, <1>15, <1>16, <1>17, <1>18, <1>19, <1>20, <1>21, <1>22
     DEF Next, UiStep, UiReturns, RasterStep, RasterReturns

(***************************************************************************)
(* Steps that move neither the ring nor the busy flags, and that neither   *)
(* enter nor leave the builder or the consumer, keep who owns what.        *)
(***************************************************************************)
LEMMA RingKept ==
  ASSUME UNCHANGED <<queue, head>>
  PROVE  \A i \in Int : Entry(i)' = Entry(i)
BY DEF Entry, Wrap

ControlOnly ==
  /\ UNCHANGED <<busy, queue, head, queued, uiSlot, rasterSlot>>
  /\ Building' <=> Building
  /\ Consuming' <=> Consuming
  /\ stopping => stopping'

LEMMA ControlStep ==
  ASSUME IInv, ControlOnly
  PROVE  SlotOwnership' /\ BusyIsOwned'
<1>1. /\ queued \in 0 .. NumSlots /\ NumSlots \in Nat
      /\ \A i \in Int : Entry(i)' = Entry(i)
  BY RingKept, NumSlotsAssumption DEF IInv, TypeOK, ControlOnly
<1>2. SlotOwnership'
  BY <1>1 DEF IInv, SlotOwnership, ControlOnly
<1>3. BusyIsOwned'
  BY <1>1 DEF IInv, BusyIsOwned, ControlOnly
<1> QED
  BY <1>2, <1>3

LEMMA ClaimStep ==
  ASSUME IInv, NEW s \in Slots, Claim(s)
  PROVE  SlotOwnership' /\ BusyIsOwned'
<1>1. /\ queued \in 0 .. NumSlots /\ NumSlots \in Nat
      /\ \A i \in Int : Entry(i)' = Entry(i)
      /\ \A i \in 0 .. queued - 1 : Entry(i) \in Slots
  BY RingKept, EntryInSlots, NumSlotsAssumption DEF IInv, TypeOK, Claim
<1>2. /\ busy \in [Slots -> BOOLEAN] /\ busy' = [busy EXCEPT ![s] = TRUE] /\ ~busy[s]
      /\ Building' /\ ~Building /\ uiSlot' = s /\ rasterSlot' = rasterSlot
      /\ (Consuming' <=> Consuming) /\ queued' = queued /\ stopping' = stopping
      /\ rasterSlot \in Slots
  BY DEF IInv, TypeOK, Claim, Building, Consuming, flagVars, rasterVars
<1>3. /\ \A i \in 0 .. queued - 1 : Entry(i) # s
      /\ Consuming => rasterSlot # s
  BY <1>2 DEF IInv, BusyIsOwned
<1>4. SlotOwnership'
  BY <1>1, <1>2, <1>3 DEF IInv, SlotOwnership
<1>5. BusyIsOwned'
  BY <1>1, <1>2 DEF IInv, BusyIsOwned
<1> QED
  BY <1>4, <1>5

LEMMA EnqueueStep ==
  ASSUME IInv, Enqueue
  PROVE  SlotOwnership' /\ BusyIsOwned'
<1>1. /\ queued \in Nat /\ queued' = queued + 1
      /\ \A i \in 0 .. queued : Entry(i)' = IF i = queued THEN uiSlot ELSE Entry(i)
  BY EntryAfterEnqueue, NumSlotsAssumption DEF IInv, TypeOK, Enqueue
<1>2. /\ Building /\ ~Building' /\ (Consuming' <=> Consuming)
      /\ UNCHANGED <<busy, uiSlot, rasterSlot, stopping>>
  BY DEF Enqueue, Building, Consuming, flagVars, rasterVars
<1>3. SlotOwnership'
  BY <1>1, <1>2 DEF IInv, SlotOwnership
<1>4. BusyIsOwned'
  BY <1>1, <1>2 DEF IInv, BusyIsOwned
<1> QED
  BY <1>3, <1>4

LEMMA DequeueStep ==
  ASSUME IInv, Dequeue
  PROVE  SlotOwnership' /\ BusyIsOwned'
<1>1. /\ queued \in Nat /\ queued > 0 /\ queued' = queued - 1
      /\ rasterSlot' = Entry(0)
      /\ \A i \in 0 .. queued - 2 : Entry(i)' = Entry(i + 1)
  BY EntryAfterDequeue, NumSlotsAssumption DEF IInv, TypeOK, Dequeue
<1>2. /\ ~Consuming /\ Consuming' /\ (Building' <=> Building)
      /\ UNCHANGED <<busy, uiSlot, stopping>>
  BY DEF Dequeue, Building, Consuming, flagVars, uiVars
<1>3. SlotOwnership'
  BY <1>1, <1>2 DEF IInv, SlotOwnership
<1>4. /\ \A i \in 0 .. queued' - 1 : busy'[Entry(i)']
      /\ Building' => busy'[uiSlot']
      /\ Consuming' => busy'[rasterSlot']
  BY <1>1, <1>2 DEF IInv, BusyIsOwned
<1>5. ASSUME ~stopping', NEW s \in Slots, busy'[s]
      PROVE  \/ \E i \in 0 .. queued' - 1 : Entry(i)' = s
             \/ Building' /\ uiSlot' = s
             \/ Consuming' /\ rasterSlot' = s
  <2>1. CASE \E i \in 0 .. queued - 1 : Entry(i) = s
    <3>1. PICK i \in 0 .. queued - 1 : Entry(i) = s
      BY <2>1
    <3>2. CASE i = 0
      BY <1>1, <1>2, <3>1, <3>2
    <3>3. CASE i # 0
      <4>1. i - 1 \in 0 .. queued - 2 /\ (i - 1) + 1 = i
        BY <1>1, <3>1, <3>3
      <4>2. Entry(i - 1)' = s
        BY <1>1, <3>1, <4>1
      <4> QED
        BY <1>1, <4>1, <4>2
    <3> QED
      BY <3>2, <3>3
  <2>2. CASE Building /\ uiSlot = s
    BY <1>2, <2>2
  <2> QED
    BY <1>2, <1>5, <2>1, <2>2 DEF IInv, BusyIsOwned
<1>6. BusyIsOwned'
  BY <1>4, <1>5 DEF BusyIsOwned
<1> QED
  BY <1>3, <1>6

\* BuilderThrows and ConsumeReturns give a slot back; ConsumeThrows keeps it.
LEMMA ReleaseStep ==
  ASSUME IInv, BuilderThrows \/ ConsumeReturns \/ ConsumeThrows
  PROVE  SlotOwnership' /\ BusyIsOwned'
<1>1. /\ queued \in 0 .. NumSlots /\ NumSlots \in Nat
      /\ \A i \in Int : Entry(i)' = Entry(i)
      /\ busy \in [Slots -> BOOLEAN] /\ uiSlot \in Slots /\ rasterSlot \in Slots
      /\ UNCHANGED <<queued, uiSlot, rasterSlot>>
  BY RingKept, NumSlotsAssumption
     DEF IInv, TypeOK, BuilderThrows, ConsumeReturns, ConsumeThrows, slotVars, uiVars, rasterVars
<1>2. \A i \in 0 .. queued - 1 : Entry(i) \in Slots
  BY <1>1, EntryInSlots DEF IInv
<1>3. CASE BuilderThrows
  <2>1. /\ Building /\ ~Building' /\ (Consuming' <=> Consuming) /\ stopping' = stopping
        /\ busy' = [busy EXCEPT ![uiSlot] = FALSE]
    BY <1>3 DEF BuilderThrows, Building, Consuming, flagVars, rasterVars
  <2>2. SlotOwnership'
    BY <1>1, <2>1 DEF IInv, SlotOwnership
  <2>3. BusyIsOwned'
    BY <1>1, <1>2, <2>1 DEF IInv, SlotOwnership, BusyIsOwned
  <2> QED
    BY <2>2, <2>3
<1>4. CASE ConsumeReturns
  <2>1. /\ Consuming /\ ~Consuming' /\ (Building' <=> Building) /\ stopping' = stopping
        /\ busy' = [busy EXCEPT ![rasterSlot] = FALSE]
    BY <1>4 DEF ConsumeReturns, Building, Consuming, flagVars, uiVars
  <2>2. SlotOwnership'
    BY <1>1, <2>1 DEF IInv, SlotOwnership
  <2>3. BusyIsOwned'
    BY <1>1, <1>2, <2>1 DEF IInv, SlotOwnership, BusyIsOwned
  <2> QED
    BY <2>2, <2>3
<1>5. CASE ConsumeThrows
  <2>1. ~Consuming' /\ (Building' <=> Building) /\ stopping' /\ busy' = busy
    BY <1>5 DEF ConsumeThrows, RecordFailure, Building, Consuming, slotVars, uiVars
  <2>2. SlotOwnership'
    BY <1>1, <2>1 DEF IInv, SlotOwnership
  <2>3. BusyIsOwned'
    BY <1>1, <2>1 DEF IInv, BusyIsOwned
  <2> QED
    BY <2>2, <2>3
<1> QED
  BY <1>3, <1>4, <1>5

LEMMA StepIInv == IInv /\ [Next]_pipelineVars => IInv'
<1> SUFFICES ASSUME IInv, [Next]_pipelineVars
             PROVE  IInv'
  OBVIOUS
<1>1. TypeOK'
  BY StepTypeOK DEF IInv
<1>2. ASSUME NEW s \in Slots, Claim(s)
      PROVE  SlotOwnership' /\ BusyIsOwned'
  BY <1>2, ClaimStep
<1>3. Enqueue => SlotOwnership' /\ BusyIsOwned'
  BY EnqueueStep
<1>4. Dequeue => SlotOwnership' /\ BusyIsOwned'
  BY DequeueStep
<1>5. BuilderThrows \/ ConsumeReturns \/ ConsumeThrows => SlotOwnership' /\ BusyIsOwned'
  BY ReleaseStep
<1> USE DEF ControlOnly, slotVars, flagVars, uiVars, rasterVars, Building, Consuming
<1>6. Start \/ StartReturns \/ StartFails \/ Stop \/ Join => ControlOnly
  BY DEF IInv, ThreadIsStarted, Start, StartReturns, StartFails, Stop, Join
<1>7. NotifyWork \/ NotifyStop => ControlOnly
  BY DEF NotifyWork, NotifyStop, WakeRaster
<1>8. ASSUME NEW f \in Frame, WriteFrame(f)
      PROVE  ControlOnly
  BY <1>8, Zenon DEF WriteFrame
<1>9. ASSUME NEW ok \in BOOLEAN, InitializeReturns(ok)
      PROVE  ControlOnly
  BY <1>9 DEF InitializeReturns
<1>10. InitializeThrows \/ Sleep \/ SpuriousWakeup \/ LeaveLoop => ControlOnly
  BY DEF InitializeThrows, Sleep, SpuriousWakeup, LeaveLoop, RecordFailure
<1>11. FinishReturns \/ FinishThrows => ControlOnly
  BY DEF FinishReturns, FinishThrows, RecordFailure
<1>12. UNCHANGED pipelineVars => ControlOnly
  <2>1. UNCHANGED pipelineVars =>
          UNCHANGED <<busy, queue, head, queued, uiSlot, rasterSlot, stopping, ui, raster>>
    BY DEF pipelineVars
  <2> QED
    BY <2>1, Zenon
<1>13. ControlOnly => SlotOwnership' /\ BusyIsOwned'
  BY ControlStep
<1> HIDE DEF ControlOnly
<1>14. ThreadIsStarted'
  BY DEF IInv, ThreadIsStarted, Next, UiStep, UiReturns, RasterStep, RasterReturns,
         Start, StartReturns, StartFails, Claim, WriteFrame, BuilderThrows, Enqueue,
         NotifyWork, Stop, NotifyStop, Join, InitializeReturns, InitializeThrows, Sleep,
         SpuriousWakeup, LeaveLoop, Dequeue, ConsumeReturns, ConsumeThrows,
         FinishReturns, FinishThrows, WakeRaster, RecordFailure, pipelineVars
<1> QED
  BY <1>1, <1>2, <1>3, <1>4, <1>5, <1>6, <1>7, <1>8, <1>9, <1>10, <1>11, <1>12, <1>13, <1>14
     DEF IInv, Next, UiStep, UiReturns, RasterStep, RasterReturns

\* IInv, and with it TypeOK and the busy flags, hold in every reachable state.
THEOREM SlotsAreOwned == Spec => []IInv
<1> QED
  BY InitIInv, StepIInv, PTL DEF Spec

\* Every reachable state is of the declared types: in particular the ring never
\* holds more indices than there are slots.
THEOREM TypeCorrect == Spec => []TypeOK
<1>1. IInv => TypeOK
  BY DEF IInv
<1> QED
  BY <1>1, SlotsAreOwned, PTL

\* No slot is ever in two of: the builder's hands, the ring, the consumer's hands.
THEOREM NoSlotShared == Spec => []SlotOwnership
<1>1. IInv => SlotOwnership
  BY DEF IInv
<1> QED
  BY <1>1, SlotsAreOwned, PTL

\* A slot is busy exactly while it has an owner, as long as the pipeline runs.
THEOREM BusyMeansOwned == Spec => []BusyIsOwned
<1>1. IInv => BusyIsOwned
  BY DEF IInv
<1> QED
  BY <1>1, SlotsAreOwned, PTL

-----------------------------------------------------------------------------
\* NoLostWakeup is inductive by itself: work and stop requests appear only in
\* steps of the UI thread that notify next, and the raster thread goes to sleep
\* only when it sees neither.
THEOREM WakeupsAreNotLost == Spec => []NoLostWakeup
<1>1. Init => NoLostWakeup
  BY DEF Init, NoLostWakeup
<1>2. TypeOK /\ NoLostWakeup /\ [Next]_pipelineVars => NoLostWakeup'
  <2> SUFFICES ASSUME TypeOK, NoLostWakeup, [Next]_pipelineVars
               PROVE  NoLostWakeup'
    OBVIOUS
  <2>1. queued \in Nat
    BY NumSlotsAssumption DEF TypeOK
  <2> USE <2>1 DEF NoLostWakeup, slotVars, flagVars, uiVars, rasterVars
  <2>2. CASE \/ Start \/ StartReturns \/ StartFails \/ Stop
             \/ NotifyWork \/ NotifyStop \/ Join
    BY <2>2 DEF Start, StartReturns, StartFails, Stop, NotifyWork, NotifyStop, Join, WakeRaster
  <2>3. CASE \/ \E s \in Slots : Claim(s)
             \/ \E f \in Frame : WriteFrame(f)
             \/ BuilderThrows
             \/ Enqueue
    BY <2>3 DEF Claim, WriteFrame, BuilderThrows, Enqueue
  <2>4. CASE \/ \E ok \in BOOLEAN : InitializeReturns(ok)
             \/ InitializeThrows \/ FinishReturns \/ FinishThrows
    BY <2>4 DEF InitializeReturns, InitializeThrows, FinishReturns, FinishThrows, RecordFailure
  <2>5. CASE Sleep \/ SpuriousWakeup \/ LeaveLoop \/ Dequeue \/ ConsumeReturns \/ ConsumeThrows
    BY <2>5 DEF Sleep, SpuriousWakeup, LeaveLoop, Dequeue, ConsumeReturns, ConsumeThrows,
                RecordFailure
  <2>6. CASE UNCHANGED pipelineVars
    BY <2>6 DEF pipelineVars
  <2> QED
    BY <2>2, <2>3, <2>4, <2>5, <2>6 DEF Next, UiStep, UiReturns, RasterStep, RasterReturns
<1> QED
  BY <1>1, <1>2, TypeCorrect, PTL DEF Spec

\* The builder never writes the frame that is being consumed.
THEOREM ConsumedFrameIsStable == Spec => ConsumedFrameStable
<1>1. IInv /\ [Next]_pipelineVars =>
        [Consuming /\ Consuming' => frames'[rasterSlot] = frames[rasterSlot]]_pipelineVars
  <2> SUFFICES ASSUME IInv, [Next]_pipelineVars, Consuming
               PROVE  frames'[rasterSlot] = frames[rasterSlot]
    BY DEF pipelineVars
  <2>1. ASSUME NEW f \in Frame, WriteFrame(f)
        PROVE  frames'[rasterSlot] = frames[rasterSlot]
    <3>1. uiSlot # rasterSlot
      BY <2>1 DEF IInv, SlotOwnership, Building, WriteFrame
    <3> QED
      BY <2>1, <3>1 DEF IInv, TypeOK, WriteFrame
  <2>2. CASE ~ \E f \in Frame : WriteFrame(f)
    BY <2>2 DEF Next, UiStep, UiReturns, RasterStep, RasterReturns,
         Start, StartReturns, StartFails, Claim, BuilderThrows, Enqueue,
         NotifyWork, Stop, NotifyStop, Join, InitializeReturns, InitializeThrows, Sleep,
         SpuriousWakeup, LeaveLoop, Dequeue, ConsumeReturns, ConsumeThrows,
         FinishReturns, FinishThrows, pipelineVars, slotVars
  <2> QED
    BY <2>1, <2>2
<1> QED
  BY <1>1, SlotsAreOwned, PTL DEF Spec, ConsumedFrameStable

-----------------------------------------------------------------------------
(***************************************************************************)
(* FramePipeline implements FrameChannel.                                  *)
(***************************************************************************)

\* A sequence given as a function, grown by one element.
LEMMA AppendOfFunction ==
  ASSUME NEW S, NEW n \in Nat, NEW x \in S,
         NEW g \in [1 .. n -> S], NEW h \in [1 .. n + 1 -> S],
         \A i \in 1 .. n : h[i] = g[i], h[n + 1] = x
  PROVE  h = Append(g, x) /\ Len(g) = n
<1>1. /\ g \in Seq(S) /\ Len(g) = n
      /\ h \in Seq(S) /\ Len(h) = n + 1
  OBVIOUS
<1>2. /\ Append(g, x) \in Seq(S)
      /\ Len(Append(g, x)) = n + 1
      /\ \A i \in 1 .. n + 1 : Append(g, x)[i] = IF i = n + 1 THEN x ELSE g[i]
  BY <1>1
<1> QED
  BY <1>1, <1>2, SeqEqual

\* A sequence given as a function, without its head.
LEMMA TailOfFunction ==
  ASSUME NEW S, NEW n \in Nat,
         NEW g \in [1 .. n + 1 -> S], NEW h \in [1 .. n -> S],
         \A i \in 1 .. n : h[i] = g[i + 1]
  PROVE  h = Tail(g) /\ g # << >> /\ Head(g) = g[1]
<1>1. /\ g \in Seq(S) /\ Len(g) = n + 1
      /\ h \in Seq(S) /\ Len(h) = n
  OBVIOUS
<1>2. g # << >> /\ Head(g) = g[1]
  BY <1>1
<1>3. /\ Tail(g) \in Seq(S)
      /\ Len(Tail(g)) = n
      /\ \A i \in 1 .. n : Tail(g)[i] = g[i + 1]
  BY <1>1, <1>2, HeadTailProperties
<1> QED
  BY <1>1, <1>2, <1>3, SeqEqual

LEMMA PendingType ==
  ASSUME IInv
  PROVE  /\ queued \in Nat
         /\ \A i \in 1 .. queued : Entry(i - 1) \in Slots
         /\ Pending \in [1 .. queued -> Frame]
<1>1. queued \in Nat /\ frames \in [Slots -> Frame]
  BY NumSlotsAssumption DEF IInv, TypeOK
<1>2. ASSUME NEW i \in 1 .. queued
      PROVE  Entry(i - 1) \in Slots
  <2>1. i - 1 \in Nat
    BY <1>1
  <2> QED
    BY <2>1, EntryInSlots DEF IInv
<1> QED
  BY <1>1, <1>2 DEF Pending

\* While the builder holds a slot, the ring and the consumer leave one free for it.
LEMMA RoomBesidesActive ==
  ASSUME TypeOK, SlotOwnership, Building, Consuming
  PROVE  queued + 1 < NumSlots
<1> DEFINE f == [i \in 0 .. queued + 1 |->
                   IF i = queued THEN uiSlot
                   ELSE IF i = queued + 1 THEN rasterSlot ELSE Entry(i)]
<1>1. /\ NumSlots \in Nat /\ NumSlots > 0
      /\ queued \in 0 .. NumSlots
      /\ queued \in Nat
  BY NumSlotsAssumption DEF TypeOK
<1>2. \A i \in 0 .. queued - 1 : Entry(i) \in Slots
  BY <1>1, EntryInSlots
<1>3. f \in [0 .. queued + 1 -> Slots]
  BY <1>1, <1>2 DEF TypeOK
<1>4. \A x, y \in 0 .. queued + 1 : f[x] = f[y] => x = y
  BY <1>1 DEF SlotOwnership
<1>5. SUFFICES ASSUME NumSlots < queued + 2 PROVE FALSE
  BY <1>1
<1>6. /\ IsFiniteSet(0 .. queued + 1)
      /\ Cardinality(0 .. queued + 1) = queued + 2
  BY <1>1, FS_Interval
<1>7. /\ IsFiniteSet(Slots)
      /\ Cardinality(Slots) = NumSlots
  BY <1>1, FS_Interval DEF Slots
<1>8. \E x, y \in 0 .. queued + 1 : x # y /\ f[x] = f[y]
  <2> HIDE DEF f
  <2> QED
    BY <1>1, <1>3, <1>5, <1>6, <1>7, FS_PigeonHole
<1> QED
  BY <1>4, <1>8

\* Steps that leave the ring, its frames and the consumer alone leave the channel alone.
LEMMA PendingKept ==
  ASSUME IInv, UNCHANGED <<queue, head, queued>>,
         \A i \in 1 .. queued : frames'[Entry(i - 1)] = frames[Entry(i - 1)]
  PROVE  Pending' = Pending
BY RingKept, PendingType DEF Pending

LEMMA EnqueueSubmits ==
  ASSUME IInv, Enqueue
  PROVE  \E f \in Frame :
           /\ Len(Pending) + Len(Active) < NumSlots
           /\ Pending' = Append(Pending, f)
           /\ Active' = Active
<1> DEFINE f == frames[uiSlot]
<1>1. /\ queued \in Nat /\ queued < NumSlots /\ queued' = queued + 1
      /\ frames' = frames /\ frames \in [Slots -> Frame] /\ uiSlot \in Slots
      /\ \A i \in 0 .. queued : Entry(i)' = IF i = queued THEN uiSlot ELSE Entry(i)
  BY EntryAfterEnqueue, NumSlotsAssumption DEF IInv, TypeOK, Enqueue
<1>2. /\ Pending \in [1 .. queued -> Frame]
      /\ \A i \in 1 .. queued : Entry(i - 1) \in Slots
  BY PendingType
<1>3. Pending' = [i \in 1 .. queued + 1 |-> IF i = queued + 1 THEN f ELSE Pending[i]]
  BY <1>1 DEF Pending
<1>4. Pending' = Append(Pending, f) /\ Len(Pending) = queued
  <2>1. Pending' \in [1 .. queued + 1 -> Frame]
    BY <1>1, <1>2, <1>3
  <2>2. f \in Frame
    BY <1>1
  <2>3. Pending'[queued + 1] = f /\ \A i \in 1 .. queued : Pending'[i] = Pending[i]
    BY <1>1, <1>3
  <2> HIDE DEF f
  <2> QED
    BY <1>1, <1>2, <2>1, <2>2, <2>3, AppendOfFunction
<1>5. Active' = Active
  BY DEF Active, Enqueue, Consuming, rasterVars
<1>6. queued + Len(Active) < NumSlots
  BY <1>1, RoomBesidesActive, NumSlotsAssumption DEF IInv, Active, Enqueue, Building
<1> QED
  BY <1>1, <1>4, <1>5, <1>6

LEMMA DequeueTakes ==
  ASSUME IInv, Dequeue
  PROVE  /\ ~stopping /\ stopping' = stopping
         /\ Active = << >>
         /\ Pending # << >>
         /\ Active' = <<Head(Pending)>>
         /\ Pending' = Tail(Pending)
<1>1. /\ queued \in Nat /\ queued > 0 /\ queued' = queued - 1
      /\ frames' = frames
      /\ rasterSlot' = Entry(0)
      /\ \A i \in 0 .. queued - 2 : Entry(i)' = Entry(i + 1)
  BY EntryAfterDequeue, NumSlotsAssumption DEF IInv, TypeOK, Dequeue
<1>2. Pending \in [1 .. queued -> Frame]
  BY PendingType
<1>3. ASSUME NEW i \in 1 .. queued - 1
      PROVE  Entry(i - 1)' = Entry(i)
  <2>1. i - 1 \in 0 .. queued - 2 /\ (i - 1) + 1 = i
    BY <1>1
  <2> QED
    BY <1>1, <2>1
<1>4. Pending' = [i \in 1 .. queued - 1 |-> Pending[i + 1]]
  BY <1>1, <1>3 DEF Pending
<1>5. Pending' = Tail(Pending) /\ Pending # << >> /\ Head(Pending) = Pending[1]
  <2> DEFINE n == queued - 1
  <2>1. n \in Nat /\ queued = n + 1
    BY <1>1
  <2>2. Pending' \in [1 .. n -> Frame] /\ \A i \in 1 .. n : Pending'[i] = Pending[i + 1]
    BY <1>1, <1>2, <1>4
  <2> HIDE DEF n
  <2> QED
    BY <1>2, <2>1, <2>2, TailOfFunction
<1>6. Pending[1] = frames[Entry(0)]
  BY <1>1 DEF Pending
<1>7. ~Consuming /\ Consuming'
  BY DEF Dequeue, Consuming
<1> QED
  BY <1>1, <1>5, <1>6, <1>7 DEF Active, Dequeue, flagVars

\* Every step of FramePipeline is a step of the channel or leaves it alone.
LEMMA ChannelStep ==
  ASSUME IInv, [Next]_pipelineVars
  PROVE  Channel!Next \/ UNCHANGED <<Pending, Active, stopping>>
<1> USE DEF slotVars, flagVars, uiVars, rasterVars
<1>1. UNCHANGED slotVars => Pending' = Pending
  BY PendingKept
<1>2. Enqueue => \E f \in Frame : Channel!Submit(f)
  BY EnqueueSubmits DEF Channel!Submit, Enqueue
<1>3. Dequeue => Channel!Take
  BY DequeueTakes DEF Channel!Take
<1>4. ConsumeReturns \/ ConsumeThrows => Pending' = Pending /\ Active # << >> /\ Active' = << >>
  BY PendingKept DEF ConsumeReturns, ConsumeThrows, Active, Consuming
<1>5. ConsumeReturns => Channel!Complete
  BY <1>4 DEF ConsumeReturns, Channel!Complete
<1>6. ConsumeThrows => Channel!Fail
  BY <1>4 DEF ConsumeThrows, RecordFailure, Channel!Fail
<1>7. ASSUME NEW f \in Frame, WriteFrame(f)
      PROVE  UNCHANGED <<Pending, Active, stopping>>
  <2>1. /\ queued \in Nat /\ Building
        /\ \A i \in 0 .. queued - 1 : Entry(i) # uiSlot
        /\ Consuming => rasterSlot # uiSlot
    BY <1>7, PendingType DEF IInv, SlotOwnership, Building, WriteFrame
  <2>2. /\ \A s \in Slots : s # uiSlot => frames'[s] = frames[s]
        /\ rasterSlot \in Slots
    BY <1>7 DEF WriteFrame, IInv, TypeOK
  <2>3. ASSUME NEW i \in 1 .. queued
        PROVE  frames'[Entry(i - 1)] = frames[Entry(i - 1)]
    <3>1. i - 1 \in 0 .. queued - 1 /\ Entry(i - 1) \in Slots
      BY <2>1, PendingType
    <3> QED
      BY <2>1, <2>2, <3>1
  <2>4. Pending' = Pending
    BY <1>7, <2>3, PendingKept DEF WriteFrame
  <2>5. Active' = Active
    BY <1>7, <2>1, <2>2 DEF WriteFrame, Active, Consuming
  <2> QED
    BY <1>7, <2>4, <2>5 DEF WriteFrame
<1>8. Stop \/ StartFails => Channel!Close
  BY <1>1 DEF Stop, StartFails, Channel!Close, Active, Consuming
<1>9. InitializeThrows \/ FinishThrows => Channel!Close
  BY <1>1 DEF InitializeThrows, FinishThrows, RecordFailure, Channel!Close, Active, Consuming
<1>10. Start => UNCHANGED <<Pending, Active, stopping>>
  BY <1>1 DEF Start, Active, Consuming, IInv, ThreadIsStarted
<1>11. StartReturns \/ NotifyWork \/ NotifyStop \/ Join => UNCHANGED <<Pending, Active, stopping>>
  BY <1>1 DEF StartReturns, NotifyWork, NotifyStop, Join, WakeRaster, Active, Consuming
<1>12. (\E s \in Slots : Claim(s)) \/ BuilderThrows => UNCHANGED <<Pending, Active, stopping>>
  BY PendingKept DEF Claim, BuilderThrows, Active, Consuming
<1>13. (\E ok \in BOOLEAN : InitializeReturns(ok)) \/ Sleep \/ SpuriousWakeup \/ LeaveLoop
         \/ FinishReturns => UNCHANGED <<Pending, Active, stopping>>
  BY <1>1 DEF InitializeReturns, Sleep, SpuriousWakeup, LeaveLoop, FinishReturns, Active,
              Consuming
<1>14. UNCHANGED pipelineVars => UNCHANGED <<Pending, Active, stopping>>
  BY <1>1 DEF pipelineVars, Active, Consuming
<1> QED
  BY <1>2, <1>3, <1>5, <1>6, <1>7, <1>8, <1>9, <1>10, <1>11, <1>12, <1>13, <1>14
     DEF Next, UiStep, UiReturns, RasterStep, RasterReturns, Channel!Next

\* FramePipeline is an implementation of the bounded FIFO channel, for every
\* number of slots: what produce accepted is consumed in order, without loss and
\* without duplicates, until the pipeline is stopped or fails.
THEOREM PipelineImplementsChannel == Spec => ImplementsChannel
<1>1. Init => Channel!Init
  <2> SUFFICES ASSUME Init PROVE Channel!Init
    OBVIOUS
  <2>1. Pending = << >>
    <3>1. Pending \in [1 .. 0 -> Frame] /\ queued = 0
      BY InitIInv, PendingType DEF Init
    <3> QED
      BY <3>1
  <2> QED
    BY <2>1 DEF Init, Channel!Init, Active, Consuming
<1>2. IInv /\ [Next]_pipelineVars => [Channel!Next]_<<Pending, Active, stopping>>
  BY ChannelStep
<1> QED
  BY <1>1, <1>2, SlotsAreOwned, PTL DEF Spec, ImplementsChannel, Channel!Spec, Channel!chanVars

=============================================================================
