--------------------------- MODULE CompositorProofs ---------------------------
(* Theorems about Compositor, for every number of slots, widths, edits,    *)
(* resizes and surfaces.                                                   *)
EXTENDS Compositor, FiniteSetTheorems, SequenceTheorems, TLAPS

LEMMA BlankFrameInFrame == BlankFrame \in Frame
BY BoundsAssumption DEF BlankFrame, Frame

(***************************************************************************)
(* The pipeline of a compositor.  FramePipelineProofs proves these facts   *)
(* of a pipeline that runs alone; tlapm takes no theorem through a named   *)
(* INSTANCE, and here a pipeline may also be replaced by a new one, so     *)
(* they are proved for Pipe.                                               *)
(***************************************************************************)

(***************************************************************************)
(* The ring arithmetic.                                                    *)
(***************************************************************************)

\* At most one round past a slot, % subtracts at most once.
LEMMA WrapOnce ==
  ASSUME NEW a \in Pipe!Slots, NEW i \in 0 .. NumSlots
  PROVE  Pipe!Wrap(a + i) = IF a + i < NumSlots THEN a + i ELSE a + i - NumSlots
<1> DEFINE k == a + i
<1>1. NumSlots \in Nat /\ NumSlots > 0
  BY BoundsAssumption
<1>2. k \in 0 .. 2 * NumSlots - 1
  BY <1>1 DEF Pipe!Slots
<1>3. /\ k = NumSlots * (k \div NumSlots) + (k % NumSlots)
      /\ k % NumSlots \in 0 .. NumSlots - 1
      /\ k \div NumSlots \in Int
  <2> HIDE DEF k
  <2> QED
    BY <1>1, <1>2
<1>4. k % NumSlots = IF k < NumSlots THEN k ELSE k - NumSlots
  <2> HIDE DEF k
  <2> QED
    BY <1>1, <1>2, <1>3
<1> QED
  BY <1>1, <1>4 DEF Pipe!Wrap, Pipe!Slots

LEMMA WrapInSlots ==
  ASSUME NEW k \in Nat
  PROVE  Pipe!Wrap(k) \in Pipe!Slots
BY BoundsAssumption DEF Pipe!Wrap, Pipe!Slots

\* Positions less than a round apart are different slots of the ring.
LEMMA RingDistinct ==
  ASSUME NEW a \in Pipe!Slots, NEW i \in 0 .. NumSlots - 1, NEW j \in 0 .. NumSlots - 1,
         Pipe!Wrap(a + i) = Pipe!Wrap(a + j)
  PROVE  i = j
<1>1. /\ Pipe!Wrap(a + i) = IF a + i < NumSlots THEN a + i ELSE a + i - NumSlots
      /\ Pipe!Wrap(a + j) = IF a + j < NumSlots THEN a + j ELSE a + j - NumSlots
  BY WrapOnce, BoundsAssumption DEF Pipe!Slots
<1> QED
  BY <1>1, BoundsAssumption DEF Pipe!Slots

\* Moving the head one on and counting i from there is counting i + 1.
LEMMA WrapShift ==
  ASSUME NEW a \in Pipe!Slots, NEW i \in 0 .. NumSlots - 1
  PROVE  Pipe!Wrap(Pipe!Wrap(a + 1) + i) = Pipe!Wrap(a + (i + 1))
<1> DEFINE b == Pipe!Wrap(a + 1)
           j == i + 1
<1>1. /\ b \in Pipe!Slots
      /\ b = IF a + 1 < NumSlots THEN a + 1 ELSE a + 1 - NumSlots
  BY WrapOnce, BoundsAssumption DEF Pipe!Slots
<1>2. /\ j \in 0 .. NumSlots
      /\ Pipe!Wrap(a + j) = IF a + j < NumSlots THEN a + j ELSE a + j - NumSlots
  <2>1. j \in 0 .. NumSlots
    BY BoundsAssumption
  <2> HIDE DEF j
  <2> QED
    BY <2>1, WrapOnce, BoundsAssumption DEF Pipe!Slots
<1>3. Pipe!Wrap(b + i) = IF b + i < NumSlots THEN b + i ELSE b + i - NumSlots
  <2>1. \A c \in Pipe!Slots : Pipe!Wrap(c + i) = IF c + i < NumSlots THEN c + i ELSE c + i - NumSlots
    BY WrapOnce, BoundsAssumption DEF Pipe!Slots
  <2> HIDE DEF b
  <2> QED
    BY <1>1, <2>1
<1> QED
  BY <1>1, <1>2, <1>3, BoundsAssumption DEF Pipe!Slots

LEMMA EntryInSlots ==
  ASSUME Pipe!TypeOK, NEW i \in Nat
  PROVE  /\ Pipe!Wrap(head + i) \in Pipe!Slots
         /\ Pipe!Entry(i) \in Pipe!Slots
<1>1. head + i \in Nat /\ queue \in [Pipe!Slots -> Pipe!Slots]
  BY BoundsAssumption DEF Pipe!TypeOK, Pipe!Slots
<1>2. Pipe!Wrap(head + i) \in Pipe!Slots
  BY BoundsAssumption, <1>1 DEF Pipe!Wrap, Pipe!Slots
<1> QED
  BY <1>1, <1>2 DEF Pipe!Entry

(***************************************************************************)
(* A slot that is in nobody's ring position leaves room in the ring: this  *)
(* is what keeps queued_ within the array when Enqueue increments it.      *)
(***************************************************************************)
LEMMA RoomForOneMore ==
  ASSUME Pipe!TypeOK, Pipe!SlotOwnership, Pipe!Building
  PROVE  queued < NumSlots
<1> DEFINE f == [i \in 0 .. queued |-> IF i = queued THEN uiSlot ELSE Pipe!Entry(i)]
<1>1. /\ NumSlots \in Nat /\ NumSlots > 0
      /\ queued \in 0 .. NumSlots
      /\ queued \in Nat
  BY BoundsAssumption DEF Pipe!TypeOK
<1>2. \A i \in 0 .. queued - 1 : Pipe!Entry(i) \in Pipe!Slots
  BY <1>1, EntryInSlots
<1>3. f \in [0 .. queued -> Pipe!Slots]
  BY <1>1, <1>2 DEF Pipe!TypeOK
<1>4. \A x, y \in 0 .. queued : f[x] = f[y] => x = y
  BY <1>1 DEF Pipe!SlotOwnership
<1>5. SUFFICES ASSUME queued = NumSlots PROVE FALSE
  BY <1>1
<1>6. /\ IsFiniteSet(0 .. queued)
      /\ Cardinality(0 .. queued) = queued + 1
  BY <1>1, FS_Interval
<1>7. /\ IsFiniteSet(Pipe!Slots)
      /\ Cardinality(Pipe!Slots) = NumSlots
  BY <1>1, FS_Interval DEF Pipe!Slots
<1>8. \E x, y \in 0 .. queued : x # y /\ f[x] = f[y]
  <2> HIDE DEF f
  <2> QED
    BY <1>1, <1>3, <1>5, <1>6, <1>7, FS_PigeonHole
<1> QED
  BY <1>4, <1>8

\* What Enqueue and Dequeue do to the ring, read through Entry.
LEMMA EntryAfterEnqueue ==
  ASSUME Pipe!TypeOK, Pipe!SlotOwnership, Pipe!Enqueue
  PROVE  /\ queued < NumSlots
         /\ \A i \in 0 .. queued : Pipe!Entry(i)' = IF i = queued THEN uiSlot ELSE Pipe!Entry(i)
         /\ queue' \in [Pipe!Slots -> Pipe!Slots]
<1>1. queued < NumSlots /\ queued \in Nat /\ queued \in 0 .. NumSlots - 1
  BY RoomForOneMore, BoundsAssumption DEF Pipe!Enqueue, Pipe!Building, Pipe!TypeOK
<1>2. /\ queue \in [Pipe!Slots -> Pipe!Slots] /\ head \in Pipe!Slots /\ uiSlot \in Pipe!Slots
      /\ queue' = [queue EXCEPT ![Pipe!Wrap(head + queued)] = uiSlot]
      /\ head' = head
  BY DEF Pipe!TypeOK, Pipe!Enqueue
<1>3. Pipe!Wrap(head + queued) \in Pipe!Slots
  BY <1>1, EntryInSlots
<1>4. ASSUME NEW i \in 0 .. queued
      PROVE  Pipe!Entry(i)' = IF i = queued THEN uiSlot ELSE Pipe!Entry(i)
  <2>1. i \in Nat /\ i \in 0 .. NumSlots - 1
    BY <1>1, BoundsAssumption
  <2>2. Pipe!Wrap(head + i) \in Pipe!Slots
    BY <2>1, EntryInSlots
  <2>3. i # queued => Pipe!Wrap(head + i) # Pipe!Wrap(head + queued)
    BY <1>1, <1>2, <2>1, RingDistinct
  <2> QED
    BY <1>2, <1>3, <2>2, <2>3 DEF Pipe!Entry
<1> QED
  BY <1>1, <1>2, <1>3, <1>4

LEMMA EntryAfterDequeue ==
  ASSUME Pipe!TypeOK, Pipe!Dequeue
  PROVE  /\ rasterSlot' = Pipe!Entry(0)
         /\ \A i \in 0 .. queued - 2 : Pipe!Entry(i)' = Pipe!Entry(i + 1)
         /\ head' \in Pipe!Slots
<1>1. /\ queued \in 0 .. NumSlots /\ queued > 0 /\ NumSlots \in Nat /\ head \in Pipe!Slots
      /\ queue' = queue /\ head' = Pipe!Wrap(head + 1) /\ rasterSlot' = queue[head]
  BY BoundsAssumption DEF Pipe!TypeOK, Pipe!Dequeue
<1>2. Pipe!Wrap(head + 0) = head
  <2>1. 0 \in 0 .. NumSlots /\ head \in Nat /\ head < NumSlots
    BY <1>1 DEF Pipe!Slots
  <2>2. Pipe!Wrap(head + 0) = IF head + 0 < NumSlots THEN head + 0 ELSE head + 0 - NumSlots
    BY <1>1, <2>1, WrapOnce, Zenon
  <2> QED
    BY <2>1, <2>2
<1>3. ASSUME NEW i \in 0 .. queued - 2
      PROVE  Pipe!Entry(i)' = Pipe!Entry(i + 1)
  <2>1. i \in 0 .. NumSlots - 1
    BY <1>1, <1>3
  <2>2. Pipe!Wrap(Pipe!Wrap(head + 1) + i) = Pipe!Wrap(head + (i + 1))
    BY <1>1, <2>1, WrapShift
  <2> QED
    BY <1>1, <2>2 DEF Pipe!Entry, Pipe!Wrap
<1>4. head' \in Pipe!Slots
  BY <1>1, EntryInSlots
<1> QED
  BY <1>1, <1>2, <1>3, <1>4 DEF Pipe!Entry

-----------------------------------------------------------------------------
(***************************************************************************)
(* The inductive invariant.  TypeOK is not inductive alone: that queued_   *)
(* stays within the array needs the builder's slot to be outside the ring  *)
(* (RoomForOneMore); that it is outside needs the slots of the ring to be  *)
(* busy when Claim picks a free one.                                       *)
(***************************************************************************)
\* The thread that consumes is the one start() created.
ThreadIsStarted == ~started => raster = "none"

PipeIInv == Pipe!TypeOK /\ Pipe!SlotOwnership /\ Pipe!BusyIsOwned /\ ThreadIsStarted

LEMMA InitIInv == Pipe!Init => PipeIInv
<1> SUFFICES ASSUME Pipe!Init PROVE PipeIInv
  OBVIOUS
<1>1. 0 \in Pipe!Slots /\ NumSlots \in Nat
  BY BoundsAssumption DEF Pipe!Slots
<1>2. Pipe!TypeOK
  <2>1. busy \in [Pipe!Slots -> BOOLEAN] /\ running \in BOOLEAN /\ stopping \in BOOLEAN
        /\ started \in BOOLEAN /\ failure \in BOOLEAN
    BY Zenon DEF Pipe!Init
  <2>2. /\ frames \in [Pipe!Slots -> Frame] /\ queue \in [Pipe!Slots -> Pipe!Slots]
        /\ head \in Pipe!Slots /\ uiSlot \in Pipe!Slots /\ rasterSlot \in Pipe!Slots
    BY <1>1, BlankFrameInFrame DEF Pipe!Init
  <2>3. queued \in 0 .. NumSlots
    BY <1>1 DEF Pipe!Init
  <2>4. ready \in {"unset", "ok", "failed"} /\ ui \in Pipe!UiStates /\ raster \in Pipe!RasterStates
    BY DEF Pipe!Init, Pipe!UiStates, Pipe!RasterStates
  <2> QED
    BY <2>1, <2>2, <2>3, <2>4 DEF Pipe!TypeOK
<1>3. Pipe!SlotOwnership
  BY DEF Pipe!Init, Pipe!SlotOwnership, Pipe!Building, Pipe!Consuming
<1>4. Pipe!BusyIsOwned
  BY DEF Pipe!Init, Pipe!BusyIsOwned, Pipe!Building, Pipe!Consuming
<1>5. ThreadIsStarted
  BY DEF Pipe!Init, ThreadIsStarted
<1> QED
  BY <1>2, <1>3, <1>4, <1>5 DEF PipeIInv

\* No step leaves the types.
LEMMA StepTypeOK == Pipe!TypeOK /\ Pipe!SlotOwnership /\ [Pipe!Next]_Pipe!pipelineVars => Pipe!TypeOK'
<1> SUFFICES ASSUME Pipe!TypeOK, Pipe!SlotOwnership, [Pipe!Next]_Pipe!pipelineVars
             PROVE  Pipe!TypeOK'
  OBVIOUS
<1> USE DEF Pipe!TypeOK, Pipe!UiStates, Pipe!RasterStates, Pipe!slotVars, Pipe!flagVars, Pipe!uiVars, Pipe!rasterVars
<1>1. CASE Pipe!Start
  BY <1>1 DEF Pipe!Start
<1>2. CASE Pipe!StartReturns
  BY <1>2 DEF Pipe!StartReturns
<1>3. CASE Pipe!StartFails
  BY <1>3 DEF Pipe!StartFails
<1>4. ASSUME NEW s \in Pipe!Slots, Pipe!Claim(s)
      PROVE  Pipe!TypeOK'
  BY <1>4 DEF Pipe!Claim
<1>5. ASSUME NEW f \in Frame, Pipe!WriteFrame(f)
      PROVE  Pipe!TypeOK'
  BY <1>5 DEF Pipe!WriteFrame
<1>6. CASE Pipe!BuilderThrows
  BY <1>6 DEF Pipe!BuilderThrows
<1>7. CASE Pipe!Enqueue
  <2>1. queue' \in [Pipe!Slots -> Pipe!Slots] /\ queued < NumSlots
    BY <1>7, EntryAfterEnqueue
  <2>2. queued' \in 0 .. NumSlots
    BY <1>7, <2>1, BoundsAssumption DEF Pipe!Enqueue
  <2> QED
    BY <1>7, <2>1, <2>2 DEF Pipe!Enqueue
<1>8. CASE Pipe!NotifyWork
  BY <1>8 DEF Pipe!NotifyWork, Pipe!WakeRaster
<1>9. CASE Pipe!Stop
  BY <1>9 DEF Pipe!Stop
<1>10. CASE Pipe!NotifyStop
  BY <1>10 DEF Pipe!NotifyStop, Pipe!WakeRaster
<1>11. CASE Pipe!Join
  BY <1>11 DEF Pipe!Join
<1>12. ASSUME NEW ok \in BOOLEAN, Pipe!InitializeReturns(ok)
      PROVE  Pipe!TypeOK'
  BY <1>12 DEF Pipe!InitializeReturns
<1>13. CASE Pipe!InitializeThrows
  BY <1>13 DEF Pipe!InitializeThrows, Pipe!RecordFailure
<1>14. CASE Pipe!Sleep
  BY <1>14 DEF Pipe!Sleep
<1>15. CASE Pipe!LeaveLoop
  BY <1>15 DEF Pipe!LeaveLoop
<1>16. CASE Pipe!Dequeue
  <2>1. head' \in Pipe!Slots /\ rasterSlot' \in Pipe!Slots
    BY <1>16, EntryAfterDequeue, EntryInSlots
  <2>2. queued' \in 0 .. NumSlots
    BY <1>16, BoundsAssumption DEF Pipe!Dequeue
  <2> QED
    BY <1>16, <2>1, <2>2 DEF Pipe!Dequeue
<1>17. CASE Pipe!ConsumeReturns
  BY <1>17 DEF Pipe!ConsumeReturns
<1>18. CASE Pipe!ConsumeThrows
  BY <1>18 DEF Pipe!ConsumeThrows, Pipe!RecordFailure
<1>19. CASE Pipe!FinishReturns
  BY <1>19 DEF Pipe!FinishReturns
<1>20. CASE Pipe!FinishThrows
  BY <1>20 DEF Pipe!FinishThrows, Pipe!RecordFailure
<1>21. CASE Pipe!SpuriousWakeup
  BY <1>21 DEF Pipe!SpuriousWakeup
<1>22. CASE UNCHANGED Pipe!pipelineVars
  BY <1>22 DEF Pipe!pipelineVars
<1> QED
  BY <1>1, <1>2, <1>3, <1>4, <1>5, <1>6, <1>7, <1>8, <1>9, <1>10,
     <1>11, <1>12, <1>13, <1>14, <1>15, <1>16, <1>17, <1>18, <1>19, <1>20, <1>21, <1>22
     DEF Pipe!Next, Pipe!UiStep, Pipe!UiReturns, Pipe!RasterStep, Pipe!RasterReturns

(***************************************************************************)
(* Steps that move neither the ring nor the busy flags, and that neither   *)
(* enter nor leave the builder or the consumer, keep who owns what.        *)
(***************************************************************************)
LEMMA RingKept ==
  ASSUME UNCHANGED <<queue, head>>
  PROVE  \A i \in Int : Pipe!Entry(i)' = Pipe!Entry(i)
BY DEF Pipe!Entry, Pipe!Wrap

ControlOnly ==
  /\ UNCHANGED <<busy, queue, head, queued, uiSlot, rasterSlot>>
  /\ Pipe!Building' <=> Pipe!Building
  /\ Pipe!Consuming' <=> Pipe!Consuming
  /\ stopping => stopping'

LEMMA ControlStep ==
  ASSUME PipeIInv, ControlOnly
  PROVE  Pipe!SlotOwnership' /\ Pipe!BusyIsOwned'
<1>1. /\ queued \in 0 .. NumSlots /\ NumSlots \in Nat
      /\ \A i \in Int : Pipe!Entry(i)' = Pipe!Entry(i)
  BY RingKept, BoundsAssumption DEF PipeIInv, Pipe!TypeOK, ControlOnly
<1>2. Pipe!SlotOwnership'
  BY <1>1 DEF PipeIInv, Pipe!SlotOwnership, ControlOnly
<1>3. Pipe!BusyIsOwned'
  BY <1>1 DEF PipeIInv, Pipe!BusyIsOwned, ControlOnly
<1> QED
  BY <1>2, <1>3

LEMMA ClaimStep ==
  ASSUME PipeIInv, NEW s \in Pipe!Slots, Pipe!Claim(s)
  PROVE  Pipe!SlotOwnership' /\ Pipe!BusyIsOwned'
<1>1. /\ queued \in 0 .. NumSlots /\ NumSlots \in Nat
      /\ \A i \in Int : Pipe!Entry(i)' = Pipe!Entry(i)
      /\ \A i \in 0 .. queued - 1 : Pipe!Entry(i) \in Pipe!Slots
  BY RingKept, EntryInSlots, BoundsAssumption DEF PipeIInv, Pipe!TypeOK, Pipe!Claim
<1>2. /\ busy \in [Pipe!Slots -> BOOLEAN] /\ busy' = [busy EXCEPT ![s] = TRUE] /\ ~busy[s]
      /\ Pipe!Building' /\ ~Pipe!Building /\ uiSlot' = s /\ rasterSlot' = rasterSlot
      /\ (Pipe!Consuming' <=> Pipe!Consuming) /\ queued' = queued /\ stopping' = stopping
      /\ rasterSlot \in Pipe!Slots
  BY DEF PipeIInv, Pipe!TypeOK, Pipe!Claim, Pipe!Building, Pipe!Consuming, Pipe!flagVars, Pipe!rasterVars
<1>3. /\ \A i \in 0 .. queued - 1 : Pipe!Entry(i) # s
      /\ Pipe!Consuming => rasterSlot # s
  BY <1>2 DEF PipeIInv, Pipe!BusyIsOwned
<1>4. Pipe!SlotOwnership'
  BY <1>1, <1>2, <1>3 DEF PipeIInv, Pipe!SlotOwnership
<1>5. Pipe!BusyIsOwned'
  BY <1>1, <1>2 DEF PipeIInv, Pipe!BusyIsOwned
<1> QED
  BY <1>4, <1>5

LEMMA EnqueueStep ==
  ASSUME PipeIInv, Pipe!Enqueue
  PROVE  Pipe!SlotOwnership' /\ Pipe!BusyIsOwned'
<1>1. /\ queued \in Nat /\ queued' = queued + 1
      /\ \A i \in 0 .. queued : Pipe!Entry(i)' = IF i = queued THEN uiSlot ELSE Pipe!Entry(i)
  BY EntryAfterEnqueue, BoundsAssumption DEF PipeIInv, Pipe!TypeOK, Pipe!Enqueue
<1>2. /\ Pipe!Building /\ ~Pipe!Building' /\ (Pipe!Consuming' <=> Pipe!Consuming)
      /\ UNCHANGED <<busy, uiSlot, rasterSlot, stopping>>
  BY DEF Pipe!Enqueue, Pipe!Building, Pipe!Consuming, Pipe!flagVars, Pipe!rasterVars
<1>3. Pipe!SlotOwnership'
  BY <1>1, <1>2 DEF PipeIInv, Pipe!SlotOwnership
<1>4. Pipe!BusyIsOwned'
  BY <1>1, <1>2 DEF PipeIInv, Pipe!BusyIsOwned
<1> QED
  BY <1>3, <1>4

LEMMA DequeueStep ==
  ASSUME PipeIInv, Pipe!Dequeue
  PROVE  Pipe!SlotOwnership' /\ Pipe!BusyIsOwned'
<1>1. /\ queued \in Nat /\ queued > 0 /\ queued' = queued - 1
      /\ rasterSlot' = Pipe!Entry(0)
      /\ \A i \in 0 .. queued - 2 : Pipe!Entry(i)' = Pipe!Entry(i + 1)
  BY EntryAfterDequeue, BoundsAssumption DEF PipeIInv, Pipe!TypeOK, Pipe!Dequeue
<1>2. /\ ~Pipe!Consuming /\ Pipe!Consuming' /\ (Pipe!Building' <=> Pipe!Building)
      /\ UNCHANGED <<busy, uiSlot, stopping>>
  BY DEF Pipe!Dequeue, Pipe!Building, Pipe!Consuming, Pipe!flagVars, Pipe!uiVars
<1>3. Pipe!SlotOwnership'
  BY <1>1, <1>2 DEF PipeIInv, Pipe!SlotOwnership
<1>4. /\ \A i \in 0 .. queued' - 1 : busy'[Pipe!Entry(i)']
      /\ Pipe!Building' => busy'[uiSlot']
      /\ Pipe!Consuming' => busy'[rasterSlot']
  BY <1>1, <1>2 DEF PipeIInv, Pipe!BusyIsOwned
<1>5. ASSUME ~stopping', NEW s \in Pipe!Slots, busy'[s]
      PROVE  \/ \E i \in 0 .. queued' - 1 : Pipe!Entry(i)' = s
             \/ Pipe!Building' /\ uiSlot' = s
             \/ Pipe!Consuming' /\ rasterSlot' = s
  <2>1. CASE \E i \in 0 .. queued - 1 : Pipe!Entry(i) = s
    <3>1. PICK i \in 0 .. queued - 1 : Pipe!Entry(i) = s
      BY <2>1
    <3>2. CASE i = 0
      BY <1>1, <1>2, <3>1, <3>2
    <3>3. CASE i # 0
      <4>1. i - 1 \in 0 .. queued - 2 /\ (i - 1) + 1 = i
        BY <1>1, <3>1, <3>3
      <4>2. Pipe!Entry(i - 1)' = s
        BY <1>1, <3>1, <4>1
      <4> QED
        BY <1>1, <4>1, <4>2
    <3> QED
      BY <3>2, <3>3
  <2>2. CASE Pipe!Building /\ uiSlot = s
    BY <1>2, <2>2
  <2> QED
    BY <1>2, <1>5, <2>1, <2>2 DEF PipeIInv, Pipe!BusyIsOwned
<1>6. Pipe!BusyIsOwned'
  BY <1>4, <1>5 DEF Pipe!BusyIsOwned
<1> QED
  BY <1>3, <1>6

\* BuilderThrows and ConsumeReturns give a slot back; ConsumeThrows keeps it.
LEMMA ReleaseStep ==
  ASSUME PipeIInv, Pipe!BuilderThrows \/ Pipe!ConsumeReturns \/ Pipe!ConsumeThrows
  PROVE  Pipe!SlotOwnership' /\ Pipe!BusyIsOwned'
<1>1. /\ queued \in 0 .. NumSlots /\ NumSlots \in Nat
      /\ \A i \in Int : Pipe!Entry(i)' = Pipe!Entry(i)
      /\ busy \in [Pipe!Slots -> BOOLEAN] /\ uiSlot \in Pipe!Slots /\ rasterSlot \in Pipe!Slots
      /\ UNCHANGED <<queued, uiSlot, rasterSlot>>
  BY RingKept, BoundsAssumption
     DEF PipeIInv, Pipe!TypeOK, Pipe!BuilderThrows, Pipe!ConsumeReturns, Pipe!ConsumeThrows, Pipe!slotVars, Pipe!uiVars, Pipe!rasterVars
<1>2. \A i \in 0 .. queued - 1 : Pipe!Entry(i) \in Pipe!Slots
  BY <1>1, EntryInSlots DEF PipeIInv
<1>3. CASE Pipe!BuilderThrows
  <2>1. /\ Pipe!Building /\ ~Pipe!Building' /\ (Pipe!Consuming' <=> Pipe!Consuming) /\ stopping' = stopping
        /\ busy' = [busy EXCEPT ![uiSlot] = FALSE]
    BY <1>3 DEF Pipe!BuilderThrows, Pipe!Building, Pipe!Consuming, Pipe!flagVars, Pipe!rasterVars
  <2>2. Pipe!SlotOwnership'
    BY <1>1, <2>1 DEF PipeIInv, Pipe!SlotOwnership
  <2>3. Pipe!BusyIsOwned'
    BY <1>1, <1>2, <2>1 DEF PipeIInv, Pipe!SlotOwnership, Pipe!BusyIsOwned
  <2> QED
    BY <2>2, <2>3
<1>4. CASE Pipe!ConsumeReturns
  <2>1. /\ Pipe!Consuming /\ ~Pipe!Consuming' /\ (Pipe!Building' <=> Pipe!Building) /\ stopping' = stopping
        /\ busy' = [busy EXCEPT ![rasterSlot] = FALSE]
    BY <1>4 DEF Pipe!ConsumeReturns, Pipe!Building, Pipe!Consuming, Pipe!flagVars, Pipe!uiVars
  <2>2. Pipe!SlotOwnership'
    BY <1>1, <2>1 DEF PipeIInv, Pipe!SlotOwnership
  <2>3. Pipe!BusyIsOwned'
    BY <1>1, <1>2, <2>1 DEF PipeIInv, Pipe!SlotOwnership, Pipe!BusyIsOwned
  <2> QED
    BY <2>2, <2>3
<1>5. CASE Pipe!ConsumeThrows
  <2>1. ~Pipe!Consuming' /\ (Pipe!Building' <=> Pipe!Building) /\ stopping' /\ busy' = busy
    BY <1>5 DEF Pipe!ConsumeThrows, Pipe!RecordFailure, Pipe!Building, Pipe!Consuming, Pipe!slotVars, Pipe!uiVars
  <2>2. Pipe!SlotOwnership'
    BY <1>1, <2>1 DEF PipeIInv, Pipe!SlotOwnership
  <2>3. Pipe!BusyIsOwned'
    BY <1>1, <2>1 DEF PipeIInv, Pipe!BusyIsOwned
  <2> QED
    BY <2>2, <2>3
<1> QED
  BY <1>3, <1>4, <1>5

LEMMA StepIInv == PipeIInv /\ [Pipe!Next]_Pipe!pipelineVars => PipeIInv'
<1> SUFFICES ASSUME PipeIInv, [Pipe!Next]_Pipe!pipelineVars
             PROVE  PipeIInv'
  OBVIOUS
<1>1. Pipe!TypeOK'
  BY StepTypeOK DEF PipeIInv
<1>2. ASSUME NEW s \in Pipe!Slots, Pipe!Claim(s)
      PROVE  Pipe!SlotOwnership' /\ Pipe!BusyIsOwned'
  BY <1>2, ClaimStep
<1>3. Pipe!Enqueue => Pipe!SlotOwnership' /\ Pipe!BusyIsOwned'
  BY EnqueueStep
<1>4. Pipe!Dequeue => Pipe!SlotOwnership' /\ Pipe!BusyIsOwned'
  BY DequeueStep
<1>5. Pipe!BuilderThrows \/ Pipe!ConsumeReturns \/ Pipe!ConsumeThrows => Pipe!SlotOwnership' /\ Pipe!BusyIsOwned'
  BY ReleaseStep
<1> USE DEF ControlOnly, Pipe!slotVars, Pipe!flagVars, Pipe!uiVars, Pipe!rasterVars, Pipe!Building, Pipe!Consuming
<1>6. Pipe!Start \/ Pipe!StartReturns \/ Pipe!StartFails \/ Pipe!Stop \/ Pipe!Join => ControlOnly
  BY DEF PipeIInv, ThreadIsStarted, Pipe!Start, Pipe!StartReturns, Pipe!StartFails, Pipe!Stop, Pipe!Join
<1>7. Pipe!NotifyWork \/ Pipe!NotifyStop => ControlOnly
  BY DEF Pipe!NotifyWork, Pipe!NotifyStop, Pipe!WakeRaster
<1>8. ASSUME NEW f \in Frame, Pipe!WriteFrame(f)
      PROVE  ControlOnly
  BY <1>8, Zenon DEF Pipe!WriteFrame
<1>9. ASSUME NEW ok \in BOOLEAN, Pipe!InitializeReturns(ok)
      PROVE  ControlOnly
  BY <1>9 DEF Pipe!InitializeReturns
<1>10. Pipe!InitializeThrows \/ Pipe!Sleep \/ Pipe!SpuriousWakeup \/ Pipe!LeaveLoop => ControlOnly
  BY DEF Pipe!InitializeThrows, Pipe!Sleep, Pipe!SpuriousWakeup, Pipe!LeaveLoop, Pipe!RecordFailure
<1>11. Pipe!FinishReturns \/ Pipe!FinishThrows => ControlOnly
  BY DEF Pipe!FinishReturns, Pipe!FinishThrows, Pipe!RecordFailure
<1>12. UNCHANGED Pipe!pipelineVars => ControlOnly
  <2>1. UNCHANGED Pipe!pipelineVars =>
          UNCHANGED <<busy, queue, head, queued, uiSlot, rasterSlot, stopping, ui, raster>>
    BY DEF Pipe!pipelineVars
  <2> QED
    BY <2>1, Zenon
<1>13. ControlOnly => Pipe!SlotOwnership' /\ Pipe!BusyIsOwned'
  BY ControlStep
<1> HIDE DEF ControlOnly
<1>14. ThreadIsStarted'
  BY DEF PipeIInv, ThreadIsStarted, Pipe!Next, Pipe!UiStep, Pipe!UiReturns, Pipe!RasterStep, Pipe!RasterReturns,
         Pipe!Start, Pipe!StartReturns, Pipe!StartFails, Pipe!Claim, Pipe!WriteFrame, Pipe!BuilderThrows, Pipe!Enqueue,
         Pipe!NotifyWork, Pipe!Stop, Pipe!NotifyStop, Pipe!Join, Pipe!InitializeReturns, Pipe!InitializeThrows, Pipe!Sleep,
         Pipe!SpuriousWakeup, Pipe!LeaveLoop, Pipe!Dequeue, Pipe!ConsumeReturns, Pipe!ConsumeThrows,
         Pipe!FinishReturns, Pipe!FinishThrows, Pipe!WakeRaster, Pipe!RecordFailure, Pipe!pipelineVars
<1> QED
  BY <1>1, <1>2, <1>3, <1>4, <1>5, <1>6, <1>7, <1>8, <1>9, <1>10, <1>11, <1>12, <1>13, <1>14
     DEF PipeIInv, Pipe!Next, Pipe!UiStep, Pipe!UiReturns, Pipe!RasterStep, Pipe!RasterReturns

-----------------------------------------------------------------------------
(***************************************************************************)
(* The inductive invariant.                                                *)
(*                                                                         *)
(* The frames between the builder and the screen form a line: place -1 is  *)
(* the frame the raster thread draws, places 0 .. queued - 1 are the ring, *)
(* place queued is the frame the builder has finished and not submitted.   *)
(***************************************************************************)
Drawing == step \in {"apply", "check", "draw"}
Places == {i \in -1 .. queued : (i = -1 => Drawing) /\ (i = queued => frame = "built")}
SlotAt(i) == IF i = -1 THEN rasterSlot ELSE IF i = queued THEN uiSlot ELSE Pipe!Entry(i)
At(i) == frames[SlotAt(i)]

\* The threads of Compositor are where those of its pipeline are.
InStep ==
  /\ step # "idle" <=> raster = "consume"
  /\ frame \in {"build", "built"} <=> ui = "build"
  /\ frame # "none" \/ frameFunc => surface = "live"

\* A live surface has a pipeline that runs until it is stopped or fails.
RunsWhileLive ==
  /\ raster \in {"none", "init"} => ready = "unset"
  /\ surface = "live" => ready = "ok"
  /\ ready = "ok" => running \/ stopping
  /\ ready = "ok" /\ raster = "finish" => stopping

\* No frame is ahead of the UI thread, and its generation tells its size.
Bounded ==
  \A i \in Places :
    /\ At(i).view <= view /\ At(i).generation <= generation
    /\ At(i).generation = generation => At(i).width = width

BuiltNewest == frame = "built" => Newest(frames[uiSlot])

Ordered ==
  \A i, j \in Places :
    i <= j => At(i).view <= At(j).view /\ At(i).generation <= At(j).generation

\* What a frame refers to arrives no later than the frame.
Arriving ==
  raster # "done" =>
    \A i \in Places : \A c \in 1 .. At(i).view :
      c \in textures \/ \E j \in Places : j <= i /\ c \in At(j).textures

\* What no frame has carried yet is dirty, unless everything is still to be sent.
Owed ==
  raster # "done" /\ ~firstFrame =>
    \A c \in 1 .. view :
      c \in dirty \/ c \in textures \/ \E j \in Places : c \in At(j).textures

Taken == step \in {"check", "draw"} => Drawn.textures \subseteq textures

Sized ==
  /\ rasterGeneration <= generation
  /\ rasterGeneration = generation => rendererWidth = width
  /\ DrawnAtItsSize

Remembered ==
  surface = "live" /\ frame = "none" /\ width # 0 /\ ~stopping =>
    framePending \/ (\E i \in Places : Newest(At(i))) \/ (Shown /\ Places = {})

LineInv == Bounded /\ Ordered /\ Arriving /\ Owed
StepInv == BuiltNewest /\ Taken /\ Sized /\ RasterWithinSurface
Control == TypeOK /\ PipeIInv /\ InStep /\ RunsWhileLive
IInv == Control /\ LineInv /\ StepInv /\ Remembered

-----------------------------------------------------------------------------
(***************************************************************************)
(* The steps of Compositor as steps of its pipeline.                       *)
(***************************************************************************)

LEMMA NewPipelineIsInit == NewPipeline => PipeIInv'
<1> SUFFICES ASSUME NewPipeline PROVE PipeIInv'
  OBVIOUS
<1>1. 0 \in Pipe!Slots /\ NumSlots \in Nat
  BY BoundsAssumption DEF Pipe!Slots
<1>2. Pipe!TypeOK'
  <2>1. busy' \in [Pipe!Slots -> BOOLEAN] /\ running' \in BOOLEAN /\ stopping' \in BOOLEAN
        /\ started' \in BOOLEAN /\ failure' \in BOOLEAN
    BY Zenon DEF NewPipeline
  <2>2. /\ frames' \in [Pipe!Slots -> Frame] /\ queue' \in [Pipe!Slots -> Pipe!Slots]
        /\ head' \in Pipe!Slots /\ uiSlot' \in Pipe!Slots /\ rasterSlot' \in Pipe!Slots
    BY <1>1, BlankFrameInFrame DEF NewPipeline
  <2>3. queued' \in 0 .. NumSlots
    BY <1>1 DEF NewPipeline
  <2>4. ready' \in {"unset", "ok", "failed"} /\ ui' \in Pipe!UiStates
        /\ raster' \in Pipe!RasterStates
    BY DEF NewPipeline, Pipe!UiStates, Pipe!RasterStates
  <2> QED
    BY <2>1, <2>2, <2>3, <2>4 DEF Pipe!TypeOK
<1>3. Pipe!SlotOwnership'
  BY DEF NewPipeline, Pipe!SlotOwnership, Pipe!Building, Pipe!Consuming
<1>4. Pipe!BusyIsOwned'
  BY DEF NewPipeline, Pipe!BusyIsOwned, Pipe!Building, Pipe!Consuming
<1> QED
  BY <1>2, <1>3, <1>4 DEF PipeIInv, NewPipeline, ThreadIsStarted

\* What the builder writes is a frame.
BuiltFrame == [view |-> view, width |-> width, generation |-> generation,
               textures |-> Updates]

LEMMA BuiltFrameType == TypeOK => BuiltFrame \in Frame
<1> SUFFICES ASSUME TypeOK PROVE BuiltFrame \in Frame
  OBVIOUS
<1>1. Updates \subseteq 1 .. MaxEdits
  BY BoundsAssumption DEF TypeOK, Updates
<1> QED
  BY <1>1 DEF BuiltFrame, Frame, TypeOK

LEMMA PipelineSteps == TypeOK /\ [Next]_vars => [Pipe!Next]_Pipe!pipelineVars \/ NewPipeline
<1> SUFFICES ASSUME TypeOK, [Next]_vars
             PROVE  Pipe!Next \/ UNCHANGED Pipe!pipelineVars \/ NewPipeline
  OBVIOUS
<1>1. UNCHANGED pipelineVars => UNCHANGED Pipe!pipelineVars
  BY DEF pipelineVars, Pipe!pipelineVars, Pipe!slotVars, Pipe!flagVars, Pipe!uiVars,
         Pipe!rasterVars
<1> USE DEF Pipe!Next, Pipe!UiStep, Pipe!UiReturns, Pipe!RasterStep, Pipe!RasterReturns
<1>2. Edit \/ (\E w \in Widths \cup {0} : Resize(w)) \/ BeginFrame \/ CheckRunning
        \/ ProduceRefused \/ ApplyTextures \/ SkipStaleFrame \/ BeginDraw \/ Present
        \/ RetryLater \/ UNCHANGED vars => UNCHANGED pipelineVars
  BY DEF Edit, Resize, BeginFrame, CheckRunning, ProduceRefused, ApplyTextures,
         SkipStaleFrame, BeginDraw, Present, RetryLater, vars
<1>3. (\E w \in Widths \cup {0} : CreateCompositor(w)) => NewPipeline
  BY DEF CreateCompositor
<1>4. ProduceClaims \/ SubmitFrame \/ NotifyRaster \/ StartPipeline \/ EngineStarted
        \/ EngineFailed \/ DestroyCompositor \/ NotifyStop \/ JoinRaster => Pipe!Next
  BY DEF ProduceClaims, SubmitFrame, NotifyRaster, StartPipeline, EngineStarted,
         EngineFailed, DestroyCompositor, NotifyStop, JoinRaster
<1>5. BuildFrame => Pipe!Next
  BY BuiltFrameType DEF BuildFrame, BuiltFrame
<1>6. (\E ok \in BOOLEAN : InitializeRenderer(ok)) \/ TakeFrame \/ RenderFails \/ ReturnSlot
        \/ RasterLoop \/ FinishRenderer => Pipe!Next
  BY DEF InitializeRenderer, TakeFrame, RenderFails, ReturnSlot, RasterLoop, FinishRenderer
<1> QED
  BY <1>1, <1>2, <1>3, <1>4, <1>5, <1>6 DEF Next, UiCallReturns, RasterReturns

LEMMA PipelineStays == TypeOK /\ PipeIInv /\ [Next]_vars => PipeIInv'
BY PipelineSteps, StepIInv, NewPipelineIsInit

\* No step leaves the types.
LEMMA StepTypes == TypeOK /\ PipeIInv /\ PipeIInv' /\ [Next]_vars => TypeOK'
<1> SUFFICES ASSUME TypeOK, PipeIInv, PipeIInv', [Next]_vars
             PROVE  TypeOK'
  OBVIOUS
<1>1. Pipe!TypeOK'
  BY DEF PipeIInv
<1>2. NumSlots \in Nat \ {0} /\ MaxEdits \in Nat /\ MaxGeneration \in Nat \ {0}
      /\ MaxSurfaces \in Nat /\ Widths \subseteq Nat \ {0}
  BY BoundsAssumption
<1>3. /\ frames \in [Pipe!Slots -> Frame] /\ rasterSlot \in Pipe!Slots
      /\ frames[rasterSlot] \in Frame
  BY DEF PipeIInv, Pipe!TypeOK
<1>4. /\ frames[rasterSlot].view \in 0 .. MaxEdits
      /\ frames[rasterSlot].width \in Widths \cup {0}
      /\ frames[rasterSlot].generation \in 0 .. MaxGeneration
      /\ frames[rasterSlot].textures \subseteq 1 .. MaxEdits
  BY <1>3 DEF Frame
<1> USE <1>1, <1>2 DEF surfaceVars, schedulerVars, implVars, treeVars, renderVars, uiVars
<1>5. CASE Edit
  BY <1>5 DEF Edit, TypeOK
<1>6. ASSUME NEW w \in Widths \cup {0}, Resize(w) PROVE TypeOK'
  BY <1>6 DEF Resize, TypeOK
<1>7. CASE BeginFrame \/ CheckRunning \/ ProduceRefused
  BY ZenonT(60), <1>7 DEF BeginFrame, CheckRunning, ProduceRefused, TypeOK
<1>8. CASE ProduceClaims \/ BuildFrame \/ SubmitFrame \/ NotifyRaster
  BY ZenonT(60), <1>8 DEF ProduceClaims, BuildFrame, SubmitFrame, NotifyRaster, TypeOK
<1>9. CASE StartPipeline \/ EngineStarted \/ EngineFailed
  BY ZenonT(60), <1>9 DEF StartPipeline, EngineStarted, EngineFailed, TypeOK
<1>10. CASE DestroyCompositor \/ NotifyStop \/ JoinRaster
  BY ZenonT(60), <1>10 DEF DestroyCompositor, NotifyStop, JoinRaster, TypeOK
<1>11. ASSUME NEW w \in Widths \cup {0}, CreateCompositor(w) PROVE TypeOK'
  <2>1. shown' \in [view : 0 .. MaxEdits, width : Widths \cup {0}]
    BY <1>11 DEF CreateCompositor, Nothing
  <2>2. surfaces' \in 0 .. MaxSurfaces /\ generation' \in 1 .. MaxGeneration
        /\ rasterGeneration' \in 0 .. MaxGeneration
    BY <1>11 DEF CreateCompositor, TypeOK
  <2> QED
    BY <1>11, <2>1, <2>2 DEF CreateCompositor, TypeOK
<1>12. ASSUME NEW ok \in BOOLEAN, InitializeRenderer(ok) PROVE TypeOK'
  BY <1>12 DEF InitializeRenderer, TypeOK
<1>13. CASE TakeFrame \/ SkipStaleFrame \/ RetryLater \/ RenderFails \/ ReturnSlot
  BY ZenonT(60), <1>13 DEF TakeFrame, SkipStaleFrame, RetryLater, RenderFails, ReturnSlot, TypeOK
<1>14. CASE ApplyTextures \/ BeginDraw
  BY ZenonT(60), <1>4, <1>14 DEF ApplyTextures, BeginDraw, TypeOK
<1>15. CASE Present
  BY <1>4, <1>15 DEF Present, TypeOK
<1>16. CASE RasterLoop \/ FinishRenderer
  <2>1. UNCHANGED <<surface, surfaces, frame, framePending, frameFunc, width, generation,
                    firstFrame, view, dirty, step, rasterGeneration, rendererWidth, shown>>
    BY <1>16 DEF RasterLoop, FinishRenderer
  <2>2. textures' \in {textures, {}}
    BY <1>16 DEF RasterLoop, FinishRenderer
  <2> QED
    BY <1>1, <2>1, <2>2 DEF TypeOK
<1>17. CASE UNCHANGED vars
  BY <1>17 DEF vars, TypeOK
<1> QED
  BY <1>5, <1>6, <1>7, <1>8, <1>9, <1>10, <1>11, <1>12, <1>13, <1>14, <1>15, <1>16, <1>17
     DEF Next, UiCallReturns, RasterReturns

(***************************************************************************)
(* Where the threads are.                                                  *)
(***************************************************************************)
LEMMA StepInStep == TypeOK /\ PipeIInv /\ InStep /\ [Next]_vars => InStep'
<1> SUFFICES ASSUME TypeOK, PipeIInv, InStep, [Next]_vars
             PROVE  InStep'
  OBVIOUS
<1>1. /\ step \in {"idle", "apply", "check", "draw", "return"}
      /\ frame \in {"none", "check", "produce", "build", "built"}
  BY DEF TypeOK
<1> USE <1>1 DEF InStep, surfaceVars, schedulerVars, implVars, treeVars, renderVars, uiVars,
                 pipelineVars, Pipe!slotVars, Pipe!flagVars, Pipe!uiVars, Pipe!rasterVars
<1>2. CASE Edit \/ (\E w \in Widths \cup {0} : Resize(w)) \/ BeginFrame \/ CheckRunning
             \/ ProduceRefused
  BY <1>2 DEF Edit, Resize, BeginFrame, CheckRunning, ProduceRefused, UiIdle
<1>3. CASE ProduceClaims
  BY <1>3 DEF ProduceClaims, Pipe!Claim
<1>4. CASE BuildFrame
  BY <1>4 DEF BuildFrame, Pipe!WriteFrame
<1>5. CASE SubmitFrame
  BY <1>5 DEF SubmitFrame, Pipe!Enqueue
<1>6. CASE NotifyRaster \/ NotifyStop
  BY <1>6 DEF NotifyRaster, NotifyStop, Pipe!NotifyWork, Pipe!NotifyStop, Pipe!WakeRaster
<1>7. CASE StartPipeline
  BY <1>7 DEF StartPipeline, Pipe!Start, PipeIInv, ThreadIsStarted
<1>8. CASE EngineStarted
  BY <1>8 DEF EngineStarted, Pipe!StartReturns
<1>9. CASE EngineFailed \/ DestroyCompositor
  BY <1>9 DEF EngineFailed, DestroyCompositor, Pipe!StartFails, Pipe!Stop, UiIdle
<1>10. CASE JoinRaster
  BY <1>10 DEF JoinRaster, Pipe!Join
<1>11. ASSUME NEW w \in Widths \cup {0}, CreateCompositor(w) PROVE InStep'
  BY <1>11 DEF CreateCompositor, NewPipeline, UiIdle
<1>12. ASSUME NEW ok \in BOOLEAN, InitializeRenderer(ok) PROVE InStep'
  BY <1>12 DEF InitializeRenderer, Pipe!InitializeReturns
<1>13. CASE TakeFrame
  BY <1>13 DEF TakeFrame, Pipe!Dequeue
<1>14. CASE ApplyTextures \/ SkipStaleFrame \/ BeginDraw \/ Present \/ RetryLater
  BY <1>14 DEF ApplyTextures, SkipStaleFrame, BeginDraw, Present, RetryLater
<1>15. CASE RenderFails
  BY <1>15 DEF RenderFails, Pipe!ConsumeThrows
<1>16. CASE ReturnSlot
  BY <1>16 DEF ReturnSlot, Pipe!ConsumeReturns
<1>17. CASE RasterLoop
  BY <1>17 DEF RasterLoop, Pipe!Sleep, Pipe!LeaveLoop
<1>18. CASE FinishRenderer
  BY <1>18 DEF FinishRenderer, Pipe!FinishReturns
<1>19. CASE UNCHANGED vars
  BY <1>19 DEF vars
<1> QED
  BY <1>2, <1>3, <1>4, <1>5, <1>6, <1>7, <1>8, <1>9, <1>10, <1>11, <1>12, <1>13, <1>14,
     <1>15, <1>16, <1>17, <1>18, <1>19 DEF Next, UiCallReturns, RasterReturns

\* Steps that leave the thread's state, the promise and the flags alone.
LEMMA FlagsKept ==
  ASSUME RunsWhileLive, UNCHANGED <<raster, ready, running, stopping>>,
         surface' = "live" => surface = "live"
  PROVE  RunsWhileLive'
BY DEF RunsWhileLive

LEMMA StepRunsWhileLive ==
  TypeOK /\ PipeIInv /\ RunsWhileLive /\ [Next]_vars => RunsWhileLive'
<1> SUFFICES ASSUME TypeOK, PipeIInv, RunsWhileLive, [Next]_vars
             PROVE  RunsWhileLive'
  OBVIOUS
<1> USE DEF surfaceVars, schedulerVars, implVars, treeVars, renderVars, uiVars,
            pipelineVars, Pipe!slotVars, Pipe!flagVars, Pipe!uiVars, Pipe!rasterVars
<1>2. CASE Edit \/ (\E w \in Widths \cup {0} : Resize(w)) \/ BeginFrame \/ CheckRunning
             \/ ProduceRefused \/ ApplyTextures \/ SkipStaleFrame \/ BeginDraw \/ Present
             \/ RetryLater \/ UNCHANGED vars
  BY <1>2, FlagsKept DEF Edit, Resize, BeginFrame, CheckRunning, ProduceRefused, ApplyTextures,
     SkipStaleFrame, BeginDraw, Present, RetryLater, vars
<1>3. CASE ProduceClaims \/ BuildFrame \/ SubmitFrame
  BY <1>3, FlagsKept DEF ProduceClaims, BuildFrame, SubmitFrame, Pipe!Claim, Pipe!WriteFrame,
     Pipe!Enqueue
<1>4. CASE NotifyRaster \/ NotifyStop
  BY <1>4 DEF NotifyRaster, NotifyStop, Pipe!NotifyWork, Pipe!NotifyStop, Pipe!WakeRaster,
     RunsWhileLive
<1>5. CASE StartPipeline
  BY <1>5 DEF StartPipeline, Pipe!Start, PipeIInv, ThreadIsStarted, RunsWhileLive
<1>6. CASE EngineStarted
  BY <1>6 DEF EngineStarted, Pipe!StartReturns, RunsWhileLive
<1>7. CASE EngineFailed \/ DestroyCompositor
  BY <1>7 DEF EngineFailed, DestroyCompositor, Pipe!StartFails, Pipe!Stop, RunsWhileLive
<1>8. CASE JoinRaster
  BY <1>8, FlagsKept DEF JoinRaster, Pipe!Join
<1>9. ASSUME NEW w \in Widths \cup {0}, CreateCompositor(w) PROVE RunsWhileLive'
  BY <1>9 DEF CreateCompositor, NewPipeline, RunsWhileLive
<1>10. ASSUME NEW ok \in BOOLEAN, InitializeRenderer(ok) PROVE RunsWhileLive'
  BY <1>10 DEF InitializeRenderer, Pipe!InitializeReturns, RunsWhileLive
<1>11. CASE TakeFrame \/ ReturnSlot
  BY <1>11 DEF TakeFrame, ReturnSlot, Pipe!Dequeue, Pipe!ConsumeReturns, RunsWhileLive
<1>12. CASE RenderFails
  BY <1>12 DEF RenderFails, Pipe!ConsumeThrows, Pipe!RecordFailure, RunsWhileLive
<1>13. CASE RasterLoop
  BY <1>13 DEF RasterLoop, Pipe!Sleep, Pipe!LeaveLoop, RunsWhileLive
<1>14. CASE FinishRenderer
  BY <1>14 DEF FinishRenderer, Pipe!FinishReturns, RunsWhileLive
<1> QED
  BY <1>2, <1>3, <1>4, <1>5, <1>6, <1>7, <1>8, <1>9, <1>10, <1>11, <1>12, <1>13, <1>14
     DEF Next, UiCallReturns, RasterReturns

\* The raster thread runs only between the two halves of a surface's life.
LEMMA StepWithinSurface ==
  TypeOK /\ RunsWhileLive /\ RasterWithinSurface /\ [Next]_vars => RasterWithinSurface'
<1> SUFFICES ASSUME TypeOK, RunsWhileLive, RasterWithinSurface, [Next]_vars
             PROVE  RasterWithinSurface'
  OBVIOUS
<1> USE DEF surfaceVars, schedulerVars, implVars, treeVars, renderVars, uiVars,
            pipelineVars, Pipe!slotVars, Pipe!flagVars, Pipe!uiVars, Pipe!rasterVars,
            RasterWithinSurface
<1>2. CASE Edit \/ (\E w \in Widths \cup {0} : Resize(w)) \/ BeginFrame \/ CheckRunning
             \/ ProduceRefused \/ ApplyTextures \/ SkipStaleFrame \/ BeginDraw \/ Present
             \/ RetryLater \/ UNCHANGED vars
  BY <1>2 DEF Edit, Resize, BeginFrame, CheckRunning, ProduceRefused, ApplyTextures,
     SkipStaleFrame, BeginDraw, Present, RetryLater, vars
<1>3. CASE ProduceClaims \/ BuildFrame \/ SubmitFrame \/ NotifyRaster \/ NotifyStop
  BY <1>3 DEF ProduceClaims, BuildFrame, SubmitFrame, Pipe!Claim, Pipe!WriteFrame,
     Pipe!Enqueue, NotifyRaster, NotifyStop, Pipe!NotifyWork, Pipe!NotifyStop, Pipe!WakeRaster
<1>4. CASE StartPipeline \/ EngineStarted \/ EngineFailed \/ DestroyCompositor \/ JoinRaster
  BY <1>4 DEF StartPipeline, EngineStarted, EngineFailed, DestroyCompositor, JoinRaster,
     Pipe!Start, Pipe!StartReturns, Pipe!StartFails, Pipe!Stop, Pipe!Join
<1>5. ASSUME NEW w \in Widths \cup {0}, CreateCompositor(w) PROVE RasterWithinSurface'
  BY <1>5 DEF CreateCompositor
<1>6. ASSUME NEW ok \in BOOLEAN, InitializeRenderer(ok) PROVE RasterWithinSurface'
  BY <1>6 DEF InitializeRenderer, Pipe!InitializeReturns
<1>7. CASE TakeFrame \/ ReturnSlot \/ RenderFails \/ RasterLoop \/ FinishRenderer
  BY <1>7 DEF TakeFrame, ReturnSlot, RenderFails, RasterLoop, FinishRenderer, Pipe!Dequeue,
     Pipe!ConsumeReturns, Pipe!ConsumeThrows, Pipe!Sleep, Pipe!LeaveLoop, Pipe!FinishReturns
<1> QED
  BY <1>2, <1>3, <1>4, <1>5, <1>6, <1>7 DEF Next, UiCallReturns, RasterReturns

-----------------------------------------------------------------------------
(***************************************************************************)
(* The line of frames.                                                     *)
(***************************************************************************)
LEMMA LineTypes ==
  ASSUME TypeOK, PipeIInv
  PROVE  /\ queued \in Nat /\ view \in Nat /\ generation \in Nat
         /\ \A i \in Places :
              /\ i \in Int /\ SlotAt(i) \in Pipe!Slots /\ At(i) \in Frame
              /\ At(i).view \in Nat /\ At(i).generation \in Nat
<1>1. /\ queued \in Nat /\ rasterSlot \in Pipe!Slots /\ uiSlot \in Pipe!Slots
      /\ frames \in [Pipe!Slots -> Frame] /\ Pipe!TypeOK
  BY BoundsAssumption DEF PipeIInv, Pipe!TypeOK
<1>2. view \in Nat /\ generation \in Nat
  BY BoundsAssumption DEF TypeOK
<1>3. ASSUME NEW i \in Places PROVE i \in Int /\ SlotAt(i) \in Pipe!Slots
  <2>1. i \in -1 .. queued
    BY DEF Places
  <2>2. CASE i = -1 \/ i = queued
    BY <1>1, <2>1, <2>2 DEF SlotAt
  <2>3. CASE i # -1 /\ i # queued
    <3>1. i \in Nat
      BY <1>1, <2>1, <2>3
    <3> QED
      BY <1>1, <2>3, <3>1, EntryInSlots DEF SlotAt
  <2> QED
    BY <2>1, <2>2, <2>3
<1>4. ASSUME NEW i \in Places PROVE At(i) \in Frame
  BY <1>1, <1>3 DEF At
<1>5. ASSUME NEW f \in Frame PROVE f.view \in Nat /\ f.generation \in Nat
  BY BoundsAssumption DEF Frame
<1> QED
  BY <1>1, <1>2, <1>3, <1>4, <1>5

\* The line moves on by d places.  Who leaves it has delivered its contents, and
\* what the UI thread adds to the tree is dirty.
LineMoves(d) ==
  /\ \A i \in Places' : i + d \in Places /\ At(i)' = At(i + d)
  /\ raster = "done" => raster' = "done"
  /\ raster' # "done" =>
       /\ textures \subseteq textures'
       /\ \A j \in Places : j - d \in Places' \/ At(j).textures \subseteq textures'
  /\ view <= view'
  /\ \A c \in 1 .. view' : c \in 1 .. view \/ c \in dirty'
  /\ dirty \subseteq dirty' /\ firstFrame' = firstFrame
  /\ generation < generation' \/ (generation' = generation /\ width' = width)

LEMMA LineMovesOn ==
  ASSUME TypeOK, PipeIInv, TypeOK', PipeIInv', LineInv, NEW d \in {0, 1}, LineMoves(d)
  PROVE  LineInv'
<1>1. /\ view \in Nat /\ generation \in Nat /\ view' \in Nat /\ generation' \in Nat
      /\ \A i \in Places : i \in Int /\ At(i).view \in Nat /\ At(i).generation \in Nat
  BY LineTypes DEF TypeOK
<1>2. \A i \in Places' : i \in Int /\ i + d \in Places /\ At(i)' = At(i + d)
  <2>1. \A i \in Places' : i \in Int
    BY BoundsAssumption DEF Places, PipeIInv, Pipe!TypeOK
  <2> QED
    BY <2>1 DEF LineMoves
<1>3. Bounded'
  <2> SUFFICES ASSUME NEW i \in Places'
               PROVE  /\ At(i)'.view <= view' /\ At(i)'.generation <= generation'
                      /\ At(i)'.generation = generation' => At(i)'.width = width'
    BY DEF Bounded
  <2>1. /\ At(i + d).view <= view /\ At(i + d).generation <= generation
        /\ At(i + d).generation = generation => At(i + d).width = width
        /\ At(i + d).view \in Nat /\ At(i + d).generation \in Nat /\ At(i)' = At(i + d)
    BY <1>1, <1>2 DEF LineInv, Bounded
  <2> QED
    BY <1>1, <2>1 DEF LineMoves
<1>4. Ordered'
  <2> SUFFICES ASSUME NEW i \in Places', NEW j \in Places', i <= j
               PROVE  At(i)'.view <= At(j)'.view /\ At(i)'.generation <= At(j)'.generation
    BY DEF Ordered
  <2>1. i + d <= j + d
    BY <1>2
  <2> QED
    BY <1>2, <2>1 DEF LineInv, Ordered
<1>5. ASSUME raster' # "done", NEW j \in Places, NEW c \in At(j).textures
      PROVE  c \in textures' \/ (j - d \in Places' /\ c \in At(j - d)'.textures)
  <2>1. CASE At(j).textures \subseteq textures'
    BY <1>5, <2>1
  <2>2. CASE j - d \in Places'
    <3>1. At(j - d)' = At((j - d) + d) /\ (j - d) + d = j
      BY <1>1, <1>2, <2>2
    <3> QED
      BY <1>5, <2>2, <3>1
  <2> QED
    BY <1>5, <2>1, <2>2 DEF LineMoves
<1>6. Arriving'
  <2> SUFFICES ASSUME raster' # "done", NEW i \in Places', NEW c \in 1 .. At(i)'.view
               PROVE  c \in textures' \/ \E j \in Places' : j <= i /\ c \in At(j)'.textures
    BY DEF Arriving
  <2>1. i + d \in Places /\ c \in 1 .. At(i + d).view /\ i \in Int
    BY <1>2
  <2>2. c \in textures \/ \E j \in Places : j <= i + d /\ c \in At(j).textures
    BY <2>1 DEF LineInv, Arriving, LineMoves
  <2>3. CASE c \in textures
    BY <2>3 DEF LineMoves
  <2>4. ASSUME NEW j \in Places, j <= i + d, c \in At(j).textures
        PROVE  c \in textures' \/ \E k \in Places' : k <= i /\ c \in At(k)'.textures
    <3>1. c \in textures' \/ (j - d \in Places' /\ c \in At(j - d)'.textures)
      BY <1>5, <2>4
    <3>2. j - d <= i
      BY <1>1, <2>1, <2>4
    <3> QED
      BY <3>1, <3>2
  <2> QED
    BY <2>2, <2>3, <2>4
<1>7. Owed'
  <2> SUFFICES ASSUME raster' # "done", ~firstFrame', NEW c \in 1 .. view'
               PROVE  c \in dirty' \/ c \in textures' \/ \E j \in Places' : c \in At(j)'.textures
    BY DEF Owed
  <2>1. CASE c \in dirty'
    BY <2>1
  <2>2. CASE c \in 1 .. view
    <3>1. c \in dirty \/ c \in textures \/ \E j \in Places : c \in At(j).textures
      BY <2>2 DEF LineInv, Owed, LineMoves
    <3> QED
      BY <1>5, <3>1 DEF LineMoves
  <2> QED
    BY <2>1, <2>2 DEF LineMoves
<1> QED
  BY <1>3, <1>4, <1>6, <1>7 DEF LineInv

\* Steps that touch neither the ring nor a frame: at most the frame being drawn
\* leaves the line.
LEMMA PlacesKept ==
  ASSUME TypeOK, PipeIInv, UNCHANGED <<frames, queue, head, queued, rasterSlot>>,
         frame = "built" => uiSlot' = uiSlot, frame' = "built" <=> frame = "built",
         Drawing' => Drawing
  PROVE  /\ \A i \in Places' : i + 0 = i /\ i + 0 \in Places /\ At(i)' = At(i + 0)
         /\ \A j \in Places : j - 0 = j /\ (j - 0 \in Places' \/ (j = -1 /\ ~Drawing'))
<1>1. queued \in Nat /\ \A i \in Int : Pipe!Entry(i)' = Pipe!Entry(i)
  BY LineTypes, RingKept
<1>2. \A i \in Places' : i \in Places /\ i \in Int
  BY <1>1 DEF Places
<1>3. \A i \in Places' : At(i)' = At(i)
  BY <1>1, <1>2 DEF At, SlotAt, Places
<1>4. \A j \in Places : j \in Int /\ (j \in Places' \/ (j = -1 /\ ~Drawing'))
  BY <1>1 DEF Places
<1>5. \A i \in Int : i + 0 = i /\ i - 0 = i
  OBVIOUS
<1> QED
  BY <1>2, <1>3, <1>4, <1>5

\* What the UI thread may add to the tree in a step.
TreeGrows ==
  /\ view <= view' /\ dirty \subseteq dirty' /\ firstFrame' = firstFrame
  /\ \A c \in 1 .. view' : c \in 1 .. view \/ c \in dirty'
  /\ generation < generation' \/ (generation' = generation /\ width' = width)

TreeKept == UNCHANGED <<view, dirty, firstFrame, generation, width>>

LEMMA TreeKeptGrows == TypeOK /\ TreeKept => TreeGrows
BY BoundsAssumption DEF TypeOK, TreeKept, TreeGrows

\* What the raster thread may do to its textures in a step.
TexturesGrow ==
  /\ raster = "done" => raster' = "done"
  /\ raster' # "done" =>
       /\ textures \subseteq textures'
       /\ Drawing /\ ~Drawing' => Drawn.textures \subseteq textures'

LEMMA QuietLine ==
  ASSUME TypeOK, PipeIInv, TypeOK', PipeIInv', LineInv,
         UNCHANGED <<frames, queue, head, queued, rasterSlot>>,
         frame = "built" => uiSlot' = uiSlot, frame' = "built" <=> frame = "built",
         Drawing' => Drawing, TreeGrows, TexturesGrow
  PROVE  LineInv'
<1>1. /\ \A i \in Places' : i + 0 = i /\ i + 0 \in Places /\ At(i)' = At(i + 0)
      /\ \A j \in Places : j - 0 = j /\ (j - 0 \in Places' \/ (j = -1 /\ ~Drawing'))
  BY PlacesKept
<1>2. -1 \in Places => Drawing /\ At(-1) = Drawn
  BY DEF Places, At, SlotAt, Drawn
<1>3. raster' # "done" =>
        \A j \in Places : j - 0 \in Places' \/ At(j).textures \subseteq textures'
  BY <1>1, <1>2 DEF TexturesGrow
<1>4. LineMoves(0)
  BY <1>1, <1>3 DEF LineMoves, TreeGrows, TexturesGrow
<1> QED
  BY <1>4, LineMovesOn

LEMMA TakeFrameLine ==
  ASSUME Control, TypeOK', PipeIInv', LineInv, TakeFrame
  PROVE  /\ LineInv'
         /\ 0 \in Places
         /\ \A j \in Places : j - 1 \in Places' /\ At(j - 1)' = At(j)
<1>1. /\ TypeOK /\ PipeIInv /\ Pipe!TypeOK /\ Pipe!Dequeue
  BY DEF Control, PipeIInv, TakeFrame
<1>2. /\ rasterSlot' = Pipe!Entry(0)
      /\ \A i \in 0 .. queued - 2 : Pipe!Entry(i)' = Pipe!Entry(i + 1)
  BY <1>1, EntryAfterDequeue
<1>3. /\ queued \in Nat /\ queued > 0 /\ queued' = queued - 1
      /\ UNCHANGED <<frames, uiSlot, frame, view, dirty, firstFrame, generation, width, textures>>
      /\ raster = "loop" /\ raster' = "consume" /\ step' = "apply"
  BY <1>1, LineTypes
     DEF Pipe!Dequeue, TakeFrame, Pipe!uiVars, uiVars, implVars, treeVars
<1>4. ~Drawing /\ Drawing'
  BY <1>3 DEF Control, InStep, Drawing
<1>5. ASSUME NEW i \in Places' PROVE i + 1 \in Places /\ At(i)' = At(i + 1)
  <2>1. i \in -1 .. queued - 1 /\ (i = queued - 1 => frame = "built")
    BY <1>3 DEF Places
  <2>2. i + 1 \in Places /\ i + 1 # -1
    BY <1>3, <2>1 DEF Places
  <2>3. CASE i = -1
    <3>1. SlotAt(i)' = rasterSlot'
      BY <2>3 DEF SlotAt
    <3>2. SlotAt(i + 1) = Pipe!Entry(0)
      BY <1>3, <2>3 DEF SlotAt
    <3> QED
      BY <1>2, <1>3, <2>2, <3>1, <3>2 DEF At
  <2>4. CASE i # -1 /\ i = queued - 1
    <3>1. SlotAt(i)' = uiSlot' /\ SlotAt(i + 1) = uiSlot
      BY <1>3, <2>4 DEF SlotAt
    <3> QED
      BY <1>3, <2>2, <3>1 DEF At
  <2>5. CASE i # -1 /\ i # queued - 1
    <3>1. i \in 0 .. queued - 2
      BY <1>3, <2>1, <2>5
    <3>2. SlotAt(i)' = Pipe!Entry(i)' /\ SlotAt(i + 1) = Pipe!Entry(i + 1)
      BY <1>3, <2>5, <3>1 DEF SlotAt
    <3> QED
      BY <1>2, <1>3, <2>2, <3>1, <3>2 DEF At
  <2> QED
    BY <2>3, <2>4, <2>5
<1>6. ASSUME NEW j \in Places PROVE j - 1 \in Places'
  <2>1. j \in 0 .. queued /\ (j = queued => frame = "built")
    BY <1>3, <1>4 DEF Places
  <2> QED
    BY <1>3, <1>4, <2>1 DEF Places
<1>7. TreeGrows
  BY <1>1, <1>3, TreeKeptGrows DEF TreeKept
<1>8. LineMoves(1)
  BY <1>3, <1>5, <1>6, <1>7 DEF LineMoves, TreeGrows
<1>9. 0 \in Places
  BY <1>3 DEF Places
<1>10. ASSUME NEW j \in Places PROVE At(j - 1)' = At(j)
  <2>1. j \in Int /\ (j - 1) + 1 = j
    BY <1>1, LineTypes
  <2> QED
    BY <1>5, <1>6, <2>1
<1> QED
  BY <1>1, <1>6, <1>8, <1>9, <1>10, LineMovesOn

LEMMA SubmitFrameLine ==
  ASSUME Control, TypeOK', PipeIInv', LineInv, SubmitFrame
  PROVE  LineInv' /\ \A i \in Places : i \in Places' /\ At(i)' = At(i)
<1>1. TypeOK /\ PipeIInv /\ Pipe!TypeOK /\ Pipe!SlotOwnership /\ Pipe!Enqueue
  BY DEF Control, PipeIInv, SubmitFrame
<1>2. \A i \in 0 .. queued : Pipe!Entry(i)' = IF i = queued THEN uiSlot ELSE Pipe!Entry(i)
  BY <1>1, EntryAfterEnqueue
<1>3. /\ queued \in Nat /\ queued' = queued + 1 /\ frame = "built" /\ frame' = "none"
      /\ UNCHANGED <<frames, uiSlot, rasterSlot, raster, step, textures>>
      /\ UNCHANGED <<view, dirty, firstFrame, generation, width>>
  BY <1>1, LineTypes
     DEF Pipe!Enqueue, SubmitFrame, Pipe!rasterVars, implVars, treeVars, renderVars
<1>4. Places' = Places /\ \A i \in Places : i \in Int
  BY <1>3 DEF Places, Drawing
<1>5. ASSUME NEW i \in Places PROVE At(i)' = At(i)
  <2>1. i \in -1 .. queued
    BY DEF Places
  <2>2. CASE i = -1
    BY <1>3, <2>2 DEF At, SlotAt
  <2>3. CASE i # -1
    <3>1. i \in 0 .. queued
      BY <1>3, <2>1, <2>3
    <3>2. SlotAt(i)' = Pipe!Entry(i)'
      BY <1>3, <2>3, <3>1 DEF SlotAt
    <3>3. SlotAt(i) = IF i = queued THEN uiSlot ELSE Pipe!Entry(i)
      BY <2>3 DEF SlotAt
    <3> QED
      BY <1>2, <1>3, <3>1, <3>2, <3>3 DEF At
  <2> QED
    BY <2>2, <2>3
<1>6. \A i \in Places : i + 0 = i /\ i - 0 = i
  BY <1>4
<1>7. TreeGrows
  BY <1>1, <1>3, TreeKeptGrows DEF TreeKept
<1>8. LineMoves(0)
  BY <1>3, <1>4, <1>5, <1>6, <1>7 DEF LineMoves, TreeGrows
<1> QED
  BY <1>1, <1>4, <1>5, <1>8, LineMovesOn

\* The frame that is built takes the last place, with all that was still owed.
LEMMA BuildFrameLine ==
  ASSUME Control, TypeOK', PipeIInv', LineInv, BuildFrame
  PROVE  /\ LineInv'
         /\ frames'[uiSlot'] = BuiltFrame
         /\ Drawing => Drawn' = Drawn
<1>1. TypeOK /\ PipeIInv /\ Pipe!TypeOK /\ Pipe!SlotOwnership /\ InStep
  BY DEF Control, PipeIInv
<1>2. /\ frame = "build" /\ frame' = "built" /\ ui = "build" /\ dirty' = {} /\ ~firstFrame'
      /\ frames' = [frames EXCEPT ![uiSlot] = BuiltFrame]
      /\ UNCHANGED <<queue, head, queued, uiSlot, rasterSlot, raster, step, textures>>
      /\ UNCHANGED <<view, generation, width>>
  BY DEF BuildFrame, BuiltFrame, Pipe!WriteFrame, Pipe!uiVars, Pipe!rasterVars, renderVars
<1>3. /\ queued \in Nat /\ view \in Nat /\ generation \in Nat
      /\ \A i \in Places : /\ i \in Int /\ SlotAt(i) \in Pipe!Slots
                           /\ At(i).view \in Nat /\ At(i).generation \in Nat
  BY <1>1, LineTypes
<1>4. /\ uiSlot \in Pipe!Slots /\ frames \in [Pipe!Slots -> Frame]
  BY <1>1 DEF Pipe!TypeOK
<1>5. Places' = Places \cup {queued} /\ queued \notin Places
      /\ \A i \in Places : i < queued /\ i \in Int
  BY <1>2, <1>3 DEF Places, Drawing
<1>6. ASSUME NEW i \in Places PROVE At(i)' = At(i) /\ SlotAt(i) # uiSlot
  <2>1. SlotAt(i)' = SlotAt(i)
    BY <1>2, <1>3, RingKept DEF SlotAt
  <2>2. SlotAt(i) # uiSlot
    <3>1. CASE i = -1
      <4>1. raster = "consume"
        BY <1>1, <3>1 DEF Places, Drawing, InStep
      <4> QED
        BY <1>1, <1>2, <3>1, <4>1 DEF SlotAt, Pipe!SlotOwnership, Pipe!Building, Pipe!Consuming
    <3>2. CASE i # -1
      <4>1. i \in 0 .. queued - 1 /\ SlotAt(i) = Pipe!Entry(i)
        BY <1>2, <1>3, <3>2 DEF Places, SlotAt
      <4> QED
        BY <1>1, <1>2, <4>1 DEF Pipe!SlotOwnership, Pipe!Building
    <3> QED
      BY <3>1, <3>2
  <2> QED
    BY <1>2, <1>3, <1>4, <2>1, <2>2 DEF At
<1>7. /\ frames'[uiSlot'] = BuiltFrame
      /\ \A i \in Places' : i = queued => At(i)' = BuiltFrame
  <2>1. frames'[uiSlot'] = BuiltFrame
    BY <1>2, <1>4
  <2>2. ASSUME NEW i \in Places', i = queued PROVE SlotAt(i)' = uiSlot'
    BY <1>2, <1>3, <2>2 DEF SlotAt
  <2> QED
    BY <2>1, <2>2 DEF At
<1>8. /\ BuiltFrame.view = view /\ BuiltFrame.generation = generation
      /\ BuiltFrame.width = width /\ BuiltFrame.textures = Updates
  BY DEF BuiltFrame
<1>9. Bounded'
  <2> SUFFICES ASSUME NEW i \in Places'
               PROVE  /\ At(i)'.view <= view /\ At(i)'.generation <= generation
                      /\ At(i)'.generation = generation => At(i)'.width = width
    BY <1>2 DEF Bounded
  <2>1. CASE i \in Places
    BY <1>6, <2>1 DEF LineInv, Bounded
  <2>2. CASE i = queued
    BY <1>3, <1>7, <1>8, <2>2
  <2> QED
    BY <1>5, <2>1, <2>2
<1>10. Ordered'
  <2> SUFFICES ASSUME NEW i \in Places', NEW j \in Places', i <= j
               PROVE  At(i)'.view <= At(j)'.view /\ At(i)'.generation <= At(j)'.generation
    BY DEF Ordered
  <2>1. CASE i \in Places /\ j \in Places
    BY <1>6, <2>1 DEF LineInv, Ordered
  <2>2. CASE i \in Places /\ j = queued
    BY <1>6, <1>7, <1>8, <2>2 DEF LineInv, Bounded
  <2>3. CASE i = queued
    <3>1. j = queued
      BY <1>3, <1>5, <2>3
    <3> QED
      BY <1>3, <1>7, <1>8, <2>3, <3>1
  <2> QED
    BY <1>5, <2>1, <2>2, <2>3
<1>11. ASSUME raster # "done", NEW c \in 1 .. view
       PROVE  c \in textures \/ \E j \in Places' : j <= queued /\ c \in At(j)'.textures
  <2>1. CASE c \in Updates
    BY <1>3, <1>5, <1>7, <1>8, <2>1
  <2>2. CASE c \notin Updates
    <3>1. ~firstFrame /\ c \notin dirty
      BY <1>11, <2>2 DEF Updates
    <3>2. c \in textures \/ \E j \in Places : c \in At(j).textures
      BY <1>11, <3>1 DEF LineInv, Owed
    <3> QED
      BY <1>3, <1>5, <1>6, <3>2
  <2> QED
    BY <2>1, <2>2
<1>12. Arriving'
  <2> SUFFICES ASSUME raster # "done", NEW i \in Places', NEW c \in 1 .. At(i)'.view
               PROVE  c \in textures \/ \E j \in Places' : j <= i /\ c \in At(j)'.textures
    BY <1>2 DEF Arriving
  <2>1. CASE i \in Places
    <3>1. c \in textures \/ \E j \in Places : j <= i /\ c \in At(j).textures
      BY <1>6, <2>1 DEF LineInv, Arriving
    <3> QED
      BY <1>5, <1>6, <3>1
  <2>2. CASE i = queued
    BY <1>7, <1>8, <1>11, <2>2
  <2> QED
    BY <1>5, <2>1, <2>2
<1>13. Owed'
  BY <1>2, <1>11 DEF Owed
<1>14. Drawing => Drawn' = Drawn
  <2> SUFFICES ASSUME Drawing PROVE Drawn' = Drawn
    OBVIOUS
  <2>1. -1 \in Places
    BY <1>3, <1>2 DEF Places
  <2> QED
    BY <1>6, <1>2, <2>1 DEF At, SlotAt, Drawn
<1> QED
  BY <1>7, <1>9, <1>10, <1>12, <1>13, <1>14 DEF LineInv

\* A new compositor starts with no frame in flight and everything to send.
LEMMA CreateLine ==
  ASSUME TypeOK', NEW w \in Widths \cup {0}, CreateCompositor(w)
  PROVE  LineInv' /\ Places' = {}
<1>1. queued' = 0 /\ step' = "idle" /\ firstFrame' = TRUE /\ frame' = "none"
  BY DEF CreateCompositor, NewPipeline, UiIdle
<1>2. Places' = {}
  BY <1>1 DEF Places, Drawing
<1> QED
  BY <1>1, <1>2 DEF LineInv, Bounded, Ordered, Arriving, Owed

LEMMA StepLine ==
  ASSUME Control, TypeOK', PipeIInv', LineInv, StepInv, [Next]_vars
  PROVE  LineInv'
<1>1. TypeOK /\ PipeIInv /\ InStep /\ view \in Nat /\ generation \in Nat
  BY BoundsAssumption DEF Control, TypeOK
<1>t. TreeKept => TreeGrows
  BY <1>1, TreeKeptGrows
<1> USE <1>1, <1>t DEF surfaceVars, schedulerVars, implVars, treeVars, renderVars, uiVars,
        pipelineVars, Pipe!slotVars, Pipe!flagVars, Pipe!uiVars, Pipe!rasterVars, TreeKept
<1>2. CASE Edit
  <2>1. TreeGrows
    BY <1>2 DEF Edit, TreeGrows
  <2> QED
    BY <1>2, <2>1, QuietLine DEF Edit, Drawing, TexturesGrow
<1>3. ASSUME NEW w \in Widths \cup {0}, Resize(w) PROVE LineInv'
  <2>1. TreeGrows
    BY <1>3 DEF Resize, TreeGrows
  <2> QED
    BY <1>3, <2>1, QuietLine DEF Resize, Drawing, TexturesGrow
<1>4. CASE BeginFrame \/ CheckRunning \/ ProduceRefused \/ UNCHANGED vars
  BY <1>4, QuietLine DEF BeginFrame, CheckRunning, ProduceRefused, vars, Drawing, TexturesGrow,
     UiIdle
<1>5. CASE ProduceClaims
  BY <1>5, QuietLine DEF ProduceClaims, Pipe!Claim, Drawing, TexturesGrow
<1>6. CASE BuildFrame
  BY <1>6, BuildFrameLine
<1>7. CASE SubmitFrame
  BY <1>7, SubmitFrameLine
<1>8. CASE NotifyRaster \/ NotifyStop
  BY <1>8, QuietLine DEF NotifyRaster, NotifyStop, Pipe!NotifyWork, Pipe!NotifyStop,
     Pipe!WakeRaster, Drawing, TexturesGrow
<1>9. CASE StartPipeline
  BY <1>9, QuietLine DEF StartPipeline, Pipe!Start, PipeIInv, ThreadIsStarted, Drawing,
     TexturesGrow
<1>10. CASE EngineStarted \/ EngineFailed \/ DestroyCompositor \/ JoinRaster
  BY <1>10, QuietLine DEF EngineStarted, EngineFailed, DestroyCompositor, JoinRaster,
     Pipe!StartReturns, Pipe!StartFails, Pipe!Stop, Pipe!Join, Drawing, TexturesGrow
<1>11. ASSUME NEW w \in Widths \cup {0}, CreateCompositor(w) PROVE LineInv'
  BY <1>11, CreateLine
<1>12. ASSUME NEW ok \in BOOLEAN, InitializeRenderer(ok) PROVE LineInv'
  BY <1>12, QuietLine DEF InitializeRenderer, Pipe!InitializeReturns, Drawing, TexturesGrow
<1>13. CASE TakeFrame
  BY <1>13, TakeFrameLine
<1>14. CASE ApplyTextures \/ BeginDraw
  BY <1>14, QuietLine DEF ApplyTextures, BeginDraw, Drawing, TexturesGrow
<1>15. CASE SkipStaleFrame \/ Present \/ RetryLater
  BY <1>15, QuietLine DEF SkipStaleFrame, Present, RetryLater, Drawing, TexturesGrow, StepInv,
     Taken
<1>16. CASE RenderFails
  BY <1>16, QuietLine DEF RenderFails, Pipe!ConsumeThrows, Drawing, TexturesGrow, StepInv, Taken
<1>17. CASE ReturnSlot
  BY <1>17, QuietLine DEF ReturnSlot, Pipe!ConsumeReturns, Drawing, TexturesGrow
<1>18. CASE RasterLoop
  BY <1>18, QuietLine DEF RasterLoop, Pipe!Sleep, Pipe!LeaveLoop, Drawing, TexturesGrow
<1>19. CASE FinishRenderer
  BY <1>19, QuietLine DEF FinishRenderer, Pipe!FinishReturns, Drawing, TexturesGrow
<1> QED
  BY <1>2, <1>3, <1>4, <1>5, <1>6, <1>7, <1>8, <1>9, <1>10, <1>11, <1>12, <1>13, <1>14,
     <1>15, <1>16, <1>17, <1>18, <1>19 DEF Next, UiCallReturns, RasterReturns

-----------------------------------------------------------------------------
(***************************************************************************)
(* The step of the raster thread.                                          *)
(***************************************************************************)

\* Steps that neither begin nor apply nor build a frame.
LEMMA QuietStep ==
  ASSUME StepInv, TypeOK', RasterWithinSurface',
         UNCHANGED <<frames, rasterSlot, view>>,
         frame' = "built" => frame = "built" /\ generation' = generation /\ uiSlot' = uiSlot,
         step' \in {"check", "draw"} => step' = step /\ textures' = textures,
         step' = "draw" => rendererWidth' = rendererWidth,
         \/ UNCHANGED <<rasterGeneration, rendererWidth, generation, width>>
         \/ rasterGeneration' < generation'
  PROVE  StepInv'
<1>1. BuiltNewest'
  BY DEF StepInv, BuiltNewest, Newest
<1>2. Taken'
  BY DEF StepInv, Taken, Drawn
<1>3. DrawnAtItsSize'
  BY DEF StepInv, Sized, DrawnAtItsSize, Drawn
<1>4. Sized'
  <2>1. rasterGeneration' \in Nat /\ generation' \in Nat
    BY BoundsAssumption DEF TypeOK
  <2> QED
    BY <1>3, <2>1 DEF StepInv, Sized
<1> QED
  BY <1>1, <1>2, <1>4 DEF StepInv

LEMMA StepStepInv ==
  ASSUME Control, TypeOK', PipeIInv', LineInv, StepInv, [Next]_vars
  PROVE  StepInv'
<1>1. TypeOK /\ PipeIInv /\ InStep /\ RunsWhileLive
  BY DEF Control
<1>2. RasterWithinSurface'
  BY <1>1, StepWithinSurface DEF StepInv
<1>3. /\ step \in {"idle", "apply", "check", "draw", "return"}
      /\ generation \in Nat /\ rasterGeneration \in Nat
      /\ queued \in Nat
  BY <1>1, LineTypes, BoundsAssumption DEF TypeOK
<1>4. Drawing => /\ Drawn.generation = generation => Drawn.width = width
                 /\ -1 \in Places /\ At(-1) = Drawn
  BY <1>3 DEF Places, At, SlotAt, Drawn, LineInv, Bounded
<1> USE <1>1, <1>2 DEF surfaceVars, schedulerVars, implVars, treeVars, renderVars, uiVars,
        pipelineVars, Pipe!slotVars, Pipe!flagVars, Pipe!uiVars, Pipe!rasterVars
<1>5. CASE Edit \/ (\E w \in Widths \cup {0} : Resize(w))
  <2>1. frame' = "none" /\ UNCHANGED <<frames, rasterSlot, step, textures, rasterGeneration,
                                       rendererWidth>>
    BY <1>5 DEF Edit, Resize, UiIdle
  <2>2. BuiltNewest' /\ Taken'
    BY <2>1 DEF BuiltNewest, StepInv, Taken, Drawn
  <2>3. \/ UNCHANGED <<generation, width>>
        \/ generation' = generation + 1
    BY <1>5 DEF Edit, Resize
  <2>4. Sized'
    BY <1>3, <2>1, <2>3 DEF StepInv, Sized, DrawnAtItsSize, Drawn
  <2> QED
    BY <2>2, <2>4 DEF StepInv
<1>6. CASE BeginFrame \/ CheckRunning \/ ProduceRefused \/ UNCHANGED vars
  BY <1>6, QuietStep DEF BeginFrame, CheckRunning, ProduceRefused, vars
<1>7. CASE ProduceClaims
  BY <1>7, QuietStep DEF ProduceClaims, Pipe!Claim
<1>8. CASE BuildFrame
  <2>1. frames'[uiSlot'] = BuiltFrame /\ (Drawing => Drawn' = Drawn)
    BY <1>8, BuildFrameLine
  <2>2. /\ UNCHANGED <<view, generation, width, step, textures, rasterGeneration, rendererWidth>>
    BY <1>8 DEF BuildFrame
  <2>3. BuiltNewest'
    BY <2>1, <2>2 DEF BuiltNewest, Newest, BuiltFrame
  <2>4. Taken' /\ Sized'
    BY <2>1, <2>2 DEF StepInv, Taken, Sized, DrawnAtItsSize, Drawing
  <2> QED
    BY <2>3, <2>4 DEF StepInv
<1>9. CASE SubmitFrame
  BY <1>9, QuietStep DEF SubmitFrame, Pipe!Enqueue
<1>10. CASE NotifyRaster \/ NotifyStop
  BY <1>10, QuietStep DEF NotifyRaster, NotifyStop, Pipe!NotifyWork, Pipe!NotifyStop,
     Pipe!WakeRaster
<1>11. CASE StartPipeline \/ EngineStarted \/ EngineFailed \/ DestroyCompositor \/ JoinRaster
  BY <1>11, QuietStep DEF StartPipeline, EngineStarted, EngineFailed, DestroyCompositor,
     JoinRaster, Pipe!Start, Pipe!StartReturns, Pipe!StartFails, Pipe!Stop, Pipe!Join
<1>12. ASSUME NEW w \in Widths \cup {0}, CreateCompositor(w) PROVE StepInv'
  <2>1. frame' = "none" /\ step' = "idle" /\ rasterGeneration' = 0 /\ generation' = 1
    BY <1>12 DEF CreateCompositor, UiIdle
  <2> QED
    BY <2>1 DEF StepInv, BuiltNewest, Taken, Sized, DrawnAtItsSize
<1>13. ASSUME NEW ok \in BOOLEAN, InitializeRenderer(ok) PROVE StepInv'
  <2>1. /\ rendererWidth' = width /\ rasterGeneration' = generation
        /\ UNCHANGED <<frames, uiSlot, view, generation, width, frame, step>>
        /\ step = "idle"
    BY <1>13 DEF InitializeRenderer, Pipe!InitializeReturns, InStep
  <2>2. BuiltNewest'
    BY <2>1 DEF StepInv, BuiltNewest, Newest
  <2>3. Taken' /\ Sized'
    BY <1>3, <2>1 DEF Taken, Sized, DrawnAtItsSize
  <2> QED
    BY <2>2, <2>3 DEF StepInv
<1>14. CASE TakeFrame
  <2>1. /\ step' = "apply"
        /\ UNCHANGED <<frames, uiSlot, view, generation, width, frame, rasterGeneration,
                       rendererWidth>>
    BY <1>14 DEF TakeFrame, Pipe!Dequeue
  <2>2. BuiltNewest'
    BY <2>1 DEF StepInv, BuiltNewest, Newest
  <2>3. Taken' /\ Sized'
    BY <2>1 DEF StepInv, Taken, Sized, DrawnAtItsSize
  <2> QED
    BY <2>2, <2>3 DEF StepInv
<1>15. CASE ApplyTextures
  <2>1. /\ step' = "check" /\ Drawn.textures \subseteq textures' /\ Drawn' = Drawn
        /\ UNCHANGED <<frames, uiSlot, view, generation, width, frame, rasterGeneration,
                       rendererWidth>>
    BY <1>15 DEF ApplyTextures, Drawn
  <2>2. BuiltNewest'
    BY <2>1 DEF StepInv, BuiltNewest, Newest
  <2>3. Taken' /\ Sized'
    BY <2>1 DEF StepInv, Taken, Sized, DrawnAtItsSize
  <2> QED
    BY <2>2, <2>3 DEF StepInv
<1>16. CASE BeginDraw
  <2>1. /\ step = "check" /\ step' = "draw" /\ Drawn' = Drawn /\ Drawn.generation = generation
        /\ UNCHANGED <<frames, uiSlot, view, generation, width, frame, textures>>
    BY <1>16 DEF BeginDraw, Drawn
  <2>2. BuiltNewest' /\ Taken'
    BY <2>1 DEF StepInv, BuiltNewest, Newest, Taken
  <2>3. Drawn.width = width
    BY <1>4, <2>1 DEF Drawing
  <2>4. rendererWidth' = width /\ rasterGeneration' = generation
    BY <1>16, <2>1, <2>3 DEF BeginDraw, Drawn, StepInv, Sized
  <2>5. Sized'
    BY <1>3, <2>1, <2>3, <2>4 DEF Sized, DrawnAtItsSize
  <2> QED
    BY <2>2, <2>5 DEF StepInv
<1>17. CASE SkipStaleFrame \/ Present \/ RetryLater
  BY <1>17, QuietStep DEF SkipStaleFrame, Present, RetryLater
<1>18. CASE RenderFails \/ ReturnSlot
  BY <1>18, QuietStep DEF RenderFails, ReturnSlot, Pipe!ConsumeThrows, Pipe!ConsumeReturns
<1>19. CASE RasterLoop
  BY <1>19, QuietStep DEF RasterLoop, Pipe!Sleep, Pipe!LeaveLoop
<1>20. CASE FinishRenderer
  <2>1. step = "idle"
    BY <1>20 DEF FinishRenderer, Pipe!FinishReturns, InStep
  <2> QED
    BY <1>20, <2>1, QuietStep DEF FinishRenderer, Pipe!FinishReturns
<1> QED
  BY <1>5, <1>6, <1>7, <1>8, <1>9, <1>10, <1>11, <1>12, <1>13, <1>14,
     <1>15, <1>16, <1>17, <1>18, <1>19, <1>20 DEF Next, UiCallReturns, RasterReturns

-----------------------------------------------------------------------------
(***************************************************************************)
(* No change is forgotten.                                                 *)
(***************************************************************************)

\* Steps that leave the line, the request and the screen alone.
LEMMA QuietRemembered ==
  ASSUME TypeOK, PipeIInv, Remembered,
         UNCHANGED <<frames, queue, head, queued, rasterSlot, framePending, shown>>,
         UNCHANGED <<view, generation, width>>,
         frame' = frame, frame = "built" => uiSlot' = uiSlot, Drawing' <=> Drawing,
         surface' = "live" => surface = "live", stopping => stopping'
  PROVE  Remembered'
<1>1. /\ \A i \in Places' : i + 0 = i /\ i + 0 \in Places /\ At(i)' = At(i + 0)
      /\ \A j \in Places : j - 0 = j /\ (j - 0 \in Places' \/ (j = -1 /\ ~Drawing'))
  BY PlacesKept
<1>2. -1 \in Places => Drawing
  BY DEF Places
<1>3. Places' = Places /\ \A i \in Places : At(i)' = At(i)
  BY <1>1, <1>2
<1>4. \A i \in Places : Newest(At(i)) => Newest(At(i))'
  BY <1>3 DEF Newest
<1> QED
  BY <1>3, <1>4 DEF Remembered, Shown

\* A newer frame is never followed by an older one: behind the newest all are newest.
LEMMA BehindTheNewest ==
  ASSUME TypeOK, PipeIInv, LineInv, NEW i \in Places, NEW j \in Places, i <= j, Newest(At(i))
  PROVE  Newest(At(j))
<1>1. /\ At(j).view \in Nat /\ At(j).generation \in Nat /\ view \in Nat /\ generation \in Nat
  BY LineTypes
<1>2. /\ At(i).view <= At(j).view /\ At(i).generation <= At(j).generation
      /\ At(j).view <= view /\ At(j).generation <= generation
  BY DEF LineInv, Ordered, Bounded
<1> QED
  BY <1>1, <1>2 DEF Newest

LEMMA PresentRemembers ==
  ASSUME Control, LineInv, StepInv, Remembered, TypeOK', PipeIInv', Present PROVE Remembered'
<1>1. TypeOK /\ PipeIInv
  BY DEF Control
<1>2. /\ step = "draw" /\ step' = "return"
      /\ shown' = [view |-> Drawn.view, width |-> rendererWidth]
      /\ UNCHANGED <<pipelineVars, uiVars>>
  BY DEF Present, Drawn
<1>3. /\ UNCHANGED <<frames, queue, head, queued, rasterSlot, uiSlot, stopping>>
      /\ UNCHANGED <<view, generation, width, frame, framePending, surface>>
  BY <1>2 DEF pipelineVars, uiVars, surfaceVars, schedulerVars, implVars, treeVars
<1>4. Drawing /\ ~Drawing'
  BY <1>2 DEF Drawing
<1>5. /\ \A i \in Places' : i + 0 = i /\ i + 0 \in Places /\ At(i)' = At(i + 0)
      /\ \A j \in Places : j - 0 = j /\ (j - 0 \in Places' \/ (j = -1 /\ ~Drawing'))
  BY <1>1, <1>3, <1>4, PlacesKept
<1>6. -1 \in Places /\ At(-1) = Drawn /\ \A i \in Places : i \in Int /\ -1 <= i
  <2>1. queued \in Nat
    BY <1>1, LineTypes
  <2> QED
    BY <1>4, <2>1 DEF Places, At, SlotAt, Drawn
<1>7. SUFFICES ASSUME surface = "live", frame = "none", width # 0, ~stopping, ~framePending
               PROVE  (\E i \in Places' : Newest(At(i))') \/ (Shown' /\ Places' = {})
  BY <1>3 DEF Remembered
<1>8. PICK i \in Places : Newest(At(i))
  BY <1>6, <1>7 DEF Remembered
<1>9. CASE \E j \in Places' : i <= j
  <2>1. PICK j \in Places' : i <= j
    BY <1>9
  <2>2. j \in Places /\ At(j)' = At(j)
    BY <1>5
  <2>3. Newest(At(j))
    BY <1>1, <1>8, <2>1, <2>2, BehindTheNewest
  <2> QED
    BY <1>3, <2>1, <2>2, <2>3 DEF Newest
<1>10. CASE ~ \E j \in Places' : i <= j
  <2>1. i = -1
    BY <1>5, <1>6, <1>10
  <2>2. Places' = {}
    BY <1>5, <1>6, <1>10, <2>1
  <2>3. Newest(Drawn) /\ Drawn.width = width
    BY <1>6, <1>8, <2>1 DEF Newest, LineInv, Bounded
  <2>4. rendererWidth = Drawn.width
    BY <1>2 DEF StepInv, Sized, DrawnAtItsSize
  <2>5. Shown'
    BY <1>2, <1>3, <2>3, <2>4 DEF Shown, Newest
  <2> QED
    BY <2>2, <2>5
<1> QED
  BY <1>9, <1>10

LEMMA SkipRemembers ==
  ASSUME Control, LineInv, Remembered, TypeOK', PipeIInv', SkipStaleFrame PROVE Remembered'
<1>1. TypeOK /\ PipeIInv
  BY DEF Control
<1>2. /\ step = "check" /\ step' = "return" /\ Drawn.generation # generation
      /\ UNCHANGED <<pipelineVars, uiVars, shown>>
  BY DEF SkipStaleFrame, Drawn
<1>3. /\ UNCHANGED <<frames, queue, head, queued, rasterSlot, uiSlot, stopping>>
      /\ UNCHANGED <<view, generation, width, frame, framePending, surface>>
  BY <1>2 DEF pipelineVars, uiVars, surfaceVars, schedulerVars, implVars, treeVars
<1>4. Drawing /\ ~Drawing'
  BY <1>2 DEF Drawing
<1>5. /\ \A i \in Places' : i + 0 = i /\ i + 0 \in Places /\ At(i)' = At(i + 0)
      /\ \A j \in Places : j - 0 = j /\ (j - 0 \in Places' \/ (j = -1 /\ ~Drawing'))
  BY <1>1, <1>3, <1>4, PlacesKept
<1>6. -1 \in Places /\ At(-1) = Drawn
  <2>1. queued \in Nat
    BY <1>1, LineTypes
  <2> QED
    BY <1>4, <2>1 DEF Places, At, SlotAt, Drawn
<1>7. SUFFICES ASSUME surface = "live", frame = "none", width # 0, ~stopping, ~framePending
               PROVE  \E i \in Places' : Newest(At(i))'
  BY <1>3 DEF Remembered
<1>8. PICK i \in Places : Newest(At(i))
  BY <1>6, <1>7 DEF Remembered
<1>9. i # -1
  BY <1>2, <1>6, <1>8 DEF Newest
<1>10. i \in Places' /\ At(i)' = At(i)
  BY <1>5, <1>9
<1> QED
  BY <1>3, <1>8, <1>10 DEF Newest

LEMMA TakeRemembers ==
  ASSUME Control, LineInv, Remembered, TypeOK', PipeIInv', TakeFrame PROVE Remembered'
<1>1. /\ 0 \in Places
      /\ \A j \in Places : j - 1 \in Places' /\ At(j - 1)' = At(j)
  BY TakeFrameLine
<1>2. UNCHANGED <<view, generation, width, frame, framePending, surface, stopping>>
  BY DEF TakeFrame, Pipe!Dequeue, Pipe!flagVars, uiVars, surfaceVars, schedulerVars, implVars,
         treeVars
<1>3. \A j \in Places : Newest(At(j)) => j - 1 \in Places' /\ Newest(At(j - 1))'
  BY <1>1, <1>2 DEF Newest
<1> QED
  BY <1>1, <1>2, <1>3 DEF Remembered

LEMMA SubmitRemembers ==
  ASSUME Control, LineInv, StepInv, TypeOK', PipeIInv', SubmitFrame PROVE Remembered'
<1>1. \A i \in Places : i \in Places' /\ At(i)' = At(i)
  BY SubmitFrameLine
<1>2. /\ frame = "built" /\ queued \in Nat
      /\ UNCHANGED <<view, generation>>
  BY LineTypes DEF Control, SubmitFrame, implVars, treeVars
<1>3. PICK i \in Places : i = queued
  BY <1>2 DEF Places
<1>4. At(i) = frames[uiSlot]
  BY <1>2, <1>3 DEF At, SlotAt
<1>5. Newest(At(i))
  BY <1>2, <1>4 DEF StepInv, BuiltNewest
<1>6. i \in Places' /\ Newest(At(i))'
  BY <1>1, <1>2, <1>5 DEF Newest
<1> QED
  BY <1>6 DEF Remembered

LEMMA StepRemembered ==
  ASSUME Control, TypeOK', PipeIInv', LineInv, StepInv, Remembered, [Next]_vars
  PROVE  Remembered'
<1>1. TypeOK /\ PipeIInv /\ InStep /\ RunsWhileLive
  BY DEF Control
<1> USE <1>1 DEF surfaceVars, schedulerVars, implVars, treeVars, renderVars, uiVars,
        pipelineVars, Pipe!slotVars, Pipe!flagVars, Pipe!uiVars, Pipe!rasterVars
<1>2. CASE Edit \/ (\E w \in Widths \cup {0} : Resize(w)) \/ ProduceRefused \/ EngineStarted
             \/ RetryLater
  BY <1>2 DEF Edit, Resize, ProduceRefused, EngineStarted, RetryLater, Remembered
<1>3. CASE BeginFrame \/ ProduceClaims \/ BuildFrame
  BY <1>3 DEF BeginFrame, ProduceClaims, BuildFrame, Remembered
<1>4. CASE CheckRunning
  <2>1. frame = "check" /\ UNCHANGED <<width, running, stopping, surface>>
        /\ (frame' = "none" => width = 0 \/ ~running \/ stopping)
    BY <1>4 DEF CheckRunning, Pipe!Accepting
  <2>2. running \/ stopping
    BY <2>1 DEF InStep, RunsWhileLive
  <2> QED
    BY <2>1, <2>2 DEF Remembered
<1>5. CASE SubmitFrame
  BY <1>5, SubmitRemembers
<1>6. CASE NotifyRaster \/ NotifyStop
  BY <1>6, QuietRemembered DEF NotifyRaster, NotifyStop, Pipe!NotifyWork, Pipe!NotifyStop,
     Drawing
<1>7. CASE StartPipeline
  BY <1>7, QuietRemembered DEF StartPipeline, Pipe!Start, Drawing
<1>8. CASE EngineFailed \/ DestroyCompositor
  BY <1>8 DEF EngineFailed, DestroyCompositor, Pipe!StartFails, Pipe!Stop, Remembered
<1>9. CASE JoinRaster
  BY <1>9, QuietRemembered DEF JoinRaster, Pipe!Join, Drawing
<1>10. ASSUME NEW w \in Widths \cup {0}, CreateCompositor(w) PROVE Remembered'
  BY <1>10 DEF CreateCompositor, Remembered
<1>11. ASSUME NEW ok \in BOOLEAN, InitializeRenderer(ok) PROVE Remembered'
  BY <1>11, QuietRemembered DEF InitializeRenderer, Pipe!InitializeReturns, Drawing
<1>12. CASE TakeFrame
  BY <1>12, TakeRemembers
<1>13. CASE ApplyTextures \/ BeginDraw
  BY <1>13, QuietRemembered DEF ApplyTextures, BeginDraw, Drawing
<1>14. CASE SkipStaleFrame
  BY <1>14, SkipRemembers
<1>15. CASE Present
  BY <1>15, PresentRemembers
<1>16. CASE RenderFails
  BY <1>16 DEF RenderFails, Pipe!ConsumeThrows, Pipe!RecordFailure, Remembered
<1>17. CASE ReturnSlot
  BY <1>17, QuietRemembered DEF ReturnSlot, Pipe!ConsumeReturns, Drawing
<1>18. CASE RasterLoop
  BY <1>18, QuietRemembered DEF RasterLoop, Pipe!Sleep, Pipe!LeaveLoop, Drawing
<1>19. CASE FinishRenderer
  BY <1>19, QuietRemembered DEF FinishRenderer, Pipe!FinishReturns, Drawing
<1>20. CASE UNCHANGED vars
  BY <1>20, QuietRemembered DEF vars, Drawing
<1> QED
  BY <1>2, <1>3, <1>4, <1>5, <1>6, <1>7, <1>8, <1>9, <1>10, <1>11, <1>12, <1>13, <1>14,
     <1>15, <1>16, <1>17, <1>18, <1>19, <1>20 DEF Next, UiCallReturns, RasterReturns

-----------------------------------------------------------------------------
LEMMA CompositorInit == Init => IInv
<1> SUFFICES ASSUME Init PROVE IInv
  OBVIOUS
<1>1. PipeIInv
  BY InitIInv DEF Init
<1>2. TypeOK
  <2>1. MaxEdits \in Nat /\ MaxGeneration \in Nat \ {0} /\ MaxSurfaces \in Nat
    BY BoundsAssumption
  <2>2. shown \in [view : 0 .. MaxEdits, width : Widths \cup {0}]
    BY <2>1 DEF Init, Nothing
  <2>3. framePending \in BOOLEAN /\ frameFunc \in BOOLEAN /\ firstFrame \in BOOLEAN
    BY DEF Init
  <2>4. Pipe!TypeOK
    BY <1>1 DEF PipeIInv
  <2>5. /\ surfaces \in 0 .. MaxSurfaces /\ generation \in 1 .. MaxGeneration
        /\ view \in 0 .. MaxEdits /\ rasterGeneration \in 0 .. MaxGeneration
        /\ dirty \subseteq 1 .. MaxEdits /\ textures \subseteq 1 .. MaxEdits
        /\ width \in Widths \cup {0} /\ rendererWidth \in Widths \cup {0}
    BY <2>1 DEF Init
  <2>6. /\ surface \in {"none", "starting", "live", "closing"}
        /\ frame \in {"none", "check", "produce", "build", "built"}
        /\ step \in {"idle", "apply", "check", "draw", "return"}
    BY DEF Init
  <2> QED
    BY <2>2, <2>3, <2>4, <2>5, <2>6 DEF TypeOK
<1>3. /\ queued = 0 /\ frame = "none" /\ step = "idle" /\ raster = "none" /\ ui = "idle"
      /\ ready = "unset" /\ surface = "none" /\ firstFrame /\ ~frameFunc
      /\ rasterGeneration = 0 /\ generation = 1
  BY DEF Init, Pipe!Init
<1>4. Places = {}
  BY <1>3 DEF Places, Drawing
<1>5. InStep /\ RunsWhileLive
  BY <1>3 DEF InStep, RunsWhileLive
<1>6. LineInv
  BY <1>3, <1>4 DEF LineInv, Bounded, Ordered, Arriving, Owed
<1>7. StepInv
  BY <1>3 DEF StepInv, BuiltNewest, Taken, Sized, DrawnAtItsSize, RasterWithinSurface
<1> QED
  BY <1>1, <1>2, <1>3, <1>5, <1>6, <1>7 DEF IInv, Control, Remembered

LEMMA CompositorStep == IInv /\ [Next]_vars => IInv'
<1> SUFFICES ASSUME IInv, [Next]_vars PROVE IInv'
  OBVIOUS
<1>1. Control /\ TypeOK /\ PipeIInv /\ InStep /\ RunsWhileLive /\ LineInv /\ StepInv /\ Remembered
  BY DEF IInv, Control
<1>2. PipeIInv'
  BY <1>1, PipelineStays
<1>3. TypeOK'
  BY <1>1, <1>2, StepTypes
<1>4. InStep' /\ RunsWhileLive'
  BY <1>1, StepInStep, StepRunsWhileLive
<1>5. LineInv'
  BY <1>1, <1>2, <1>3, StepLine
<1>6. StepInv'
  BY <1>1, <1>2, <1>3, StepStepInv
<1>7. Remembered'
  BY <1>1, <1>2, <1>3, StepRemembered
<1> QED
  BY <1>2, <1>3, <1>4, <1>5, <1>6, <1>7 DEF IInv, Control

\* The inductive invariant of the way from the UI thread to the screen.
THEOREM CompositorInvariant == Spec => []IInv
BY CompositorInit, CompositorStep, PTL DEF Spec

\* Every reachable state is of the declared types.
THEOREM CompositorTypes == Spec => []TypeOK
<1>1. IInv => TypeOK
  BY DEF IInv, Control
<1> QED
  BY <1>1, CompositorInvariant, PTL

\* The raster thread exists only while the native window does, through every
\* creation, failed start and destruction (compositor.h lines 18-20).
THEOREM RasterOutlivesNoSurface == Spec => []RasterWithinSurface
<1>1. IInv => RasterWithinSurface
  BY DEF IInv, StepInv
<1> QED
  BY <1>1, CompositorInvariant, PTL

\* Whatever is drawn has all the texture contents it refers to, and the size it was
\* laid out for, however many frames before it were skipped, refused or lost.
THEOREM FramesAreDrawnAsBuilt == Spec => []DrawnAsBuilt
<1>1. IInv => DrawnAsBuilt
  <2> SUFFICES ASSUME IInv, step = "draw"
               PROVE  1 .. Drawn.view \subseteq textures /\ rendererWidth = Drawn.width
    BY DEF DrawnAsBuilt, TexturesArrived, DrawnAtItsSize
  <2>1. -1 \in Places /\ At(-1) = Drawn /\ \A i \in Places : i <= -1 => i = -1
    <3>1. queued \in Nat /\ \A i \in Places : i \in Int
      BY LineTypes DEF IInv, Control
    <3> QED
      BY <3>1 DEF Places, Drawing, At, SlotAt, Drawn
  <2>2. raster # "done"
    BY DEF IInv, Control, InStep
  <2>3. \A c \in 1 .. Drawn.view : c \in textures \/ c \in Drawn.textures
    BY <2>1, <2>2 DEF IInv, LineInv, Arriving
  <2>4. Drawn.textures \subseteq textures
    BY DEF IInv, StepInv, Taken
  <2> QED
    BY <2>3, <2>4 DEF IInv, StepInv, Sized, DrawnAtItsSize
<1> QED
  BY <1>1, CompositorInvariant, PTL

\* While the UI thread is between calls on a live surface, its newest state is on
\* screen, on its way there, or asked for: no change and no resize is forgotten.
THEOREM ChangesReachTheScreen == Spec => []NoChangeForgotten
<1>1. IInv => NoChangeForgotten
  <2> SUFFICES ASSUME IInv, surface = "live", UiIdle, width # 0, ~stopping
               PROVE  Shown \/ OnTheWay \/ framePending
    BY DEF NoChangeForgotten
  <2>1. frame = "none" /\ (framePending \/ (\E i \in Places : Newest(At(i))) \/ Shown)
    BY DEF IInv, Remembered, UiIdle
  <2>2. ASSUME NEW i \in Places, Newest(At(i)) PROVE OnTheWay
    <3>1. queued \in Nat
      BY LineTypes DEF IInv, Control
    <3>2. CASE i = -1
      <4>1. Drawing /\ At(i) = Drawn
        BY <2>2, <3>2 DEF Places, At, SlotAt, Drawn
      <4>2. raster = "consume"
        BY <4>1 DEF IInv, Control, InStep, Drawing
      <4> QED
        BY <2>2, <4>1, <4>2 DEF OnTheWay, Drawing
    <3>3. CASE i # -1
      <4>1. i \in 0 .. queued - 1 /\ At(i) = frames[Pipe!Entry(i)]
        BY <2>1, <3>1, <3>3 DEF Places, At, SlotAt
      <4> QED
        BY <2>2, <4>1 DEF OnTheWay
    <3> QED
      BY <3>2, <3>3
  <2> QED
    BY <2>1, <2>2
<1> QED
  BY <1>1, CompositorInvariant, PTL
=============================================================================
