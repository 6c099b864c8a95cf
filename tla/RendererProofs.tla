--------------------------- MODULE RendererProofs ---------------------------
(***************************************************************************)
(* Theorems about Renderer, for every number of images, of frame slots, of *)
(* attempts and of changes of the surface; and about OffscreenPasses, for  *)
(* any number of frames, of swapchains and of backdrops in a frame.        *)
(***************************************************************************)
EXTENDS Renderer, OffscreenState, SequenceTheorems, TLAPS

CONSTANTS MaxFrames, MaxChains, MaxBlurs
VARIABLES offscreenUsedOnce, ahead, drawing, passChain

Passes == INSTANCE OffscreenPasses WITH chain <- passChain

(***************************************************************************)
(* The inductive invariant.  What SlotIsQuiet and FenceIsAnswered say of   *)
(* the places where a slot is written and reset follows from two facts of  *)
(* the queue: a draw that is queued has its fence unsignalled, and a slot  *)
(* has one draw at most, so that executing it leaves none behind.          *)
(***************************************************************************)

Ops == [what : {"draw", "present"}, slot : Slot, image : 0 .. NumImages, chain : {0, 1}]

Places == {"idle", "top", "rebuild", "wait", "acquire", "upload", "submit", "present", "failed"}

Types ==
  /\ pc \in Places
  /\ rebuilt \in {"wait", "continue"}
  /\ currentFrame \in Slot
  /\ imageIndex \in 0 .. NumImages
  /\ inFlight \in [Slot -> BOOLEAN]
  /\ queue \in Seq(Ops)
  /\ chain \in [made : {0, 1}, size : Nat]
  /\ surface \in Nat

DrawsAreInFlight ==
  \A i \in 1 .. Len(queue) : queue[i].what = "draw" => inFlight[queue[i].slot] = FALSE

OneDrawOfASlot ==
  \A i, j \in 1 .. Len(queue) :
    queue[i].what = "draw" /\ queue[j].what = "draw" /\ queue[i].slot = queue[j].slot => i = j

\* FenceIsAnswered, spelt out for the provers.
ResetsAreAnswered ==
  \A s \in Slot : inFlight[s] = FALSE =>
    \/ \E i \in 1 .. Len(queue) : queue[i].what = "draw" /\ queue[i].slot = s
    \/ pc = "failed"
    \/ pc = "submit" /\ s = currentFrame

SlotIsTaken ==
  /\ pc \in {"acquire", "upload"} => inFlight[currentFrame] = TRUE
  /\ pc = "submit" =>
       /\ inFlight[currentFrame] = FALSE
       /\ \A i \in 1 .. Len(queue) : queue[i].what = "draw" => queue[i].slot # currentFrame

OneChain == \A i \in 1 .. Len(queue) : queue[i].chain = chain.made

IInv ==
  /\ Types
  /\ DrawsAreInFlight
  /\ OneDrawOfASlot
  /\ ResetsAreAnswered
  /\ SlotIsTaken
  /\ OneChain

USE DEF Places

LEMMA Initially == Init => IInv
<1> SUFFICES ASSUME Init PROVE IInv
  OBVIOUS
<1>1. Types
  BY RendererAssumption, EmptySeq DEF Init, Types, Slot, Image, NoImage
<1>2. Len(queue) = 0
  BY DEF Init
<1> QED
  BY <1>1, <1>2
  DEF Init, IInv, DrawsAreInFlight, OneDrawOfASlot, ResetsAreAnswered, SlotIsTaken, OneChain

(***************************************************************************)
(* What the steps do, in three kinds.                                      *)
(***************************************************************************)

\* Steps of the raster thread that leave the queue, the fences and the
\* swapchain alone, and go where the fence of the slot allows.
LEMMA QuietStep ==
  ASSUME IInv, UNCHANGED <<queue, inFlight, currentFrame>>, chain' = chain,
         pc' \in Places, rebuilt' \in {"wait", "continue"}, imageIndex' \in 0 .. NumImages,
         surface' \in Nat,
         pc' \in {"acquire", "upload"} => inFlight[currentFrame] = TRUE,
         pc' = "submit" => pc = "submit",
         pc = "submit" => pc' \in {"submit", "failed"},
         pc = "failed" => pc' = "failed"
  PROVE  IInv'
<1>1. Types'
  BY DEF IInv, Types
<1>2. DrawsAreInFlight' /\ OneDrawOfASlot' /\ OneChain'
  BY DEF IInv, DrawsAreInFlight, OneDrawOfASlot, OneChain
<1>3. ResetsAreAnswered'
  BY DEF IInv, ResetsAreAnswered
<1>4. SlotIsTaken'
  BY DEF IInv, SlotIsTaken
<1> QED
  BY <1>1, <1>2, <1>3, <1>4 DEF IInv

\* The head of the queue is executed: nothing else of the queue changes.
LEMMA QueueShrinks ==
  ASSUME Types, queue # << >>
  PROVE  /\ Tail(queue) \in Seq(Ops)
         /\ Len(queue) \in Nat /\ Len(queue) >= 1
         /\ Len(Tail(queue)) = Len(queue) - 1
         /\ \A i \in 1 .. Len(Tail(queue)) : Tail(queue)[i] = queue[i + 1]
         /\ Head(queue) = queue[1] /\ queue[1] \in Ops
BY HeadTailProperties, EmptySeq, LenProperties DEF Types

LEMMA QueueGrows ==
  ASSUME Types, NEW op \in Ops
  PROVE  /\ Append(queue, op) \in Seq(Ops)
         /\ Len(queue) \in Nat
         /\ Len(Append(queue, op)) = Len(queue) + 1
         /\ \A i \in 1 .. Len(queue) : Append(queue, op)[i] = queue[i]
         /\ Append(queue, op)[Len(queue) + 1] = op
BY AppendProperties, LenProperties DEF Types

(***************************************************************************)
(* The steps that change the queue or a fence.                             *)
(***************************************************************************)

LEMMA UploadStep == IInv /\ UploadAndRecord => IInv'
<1> SUFFICES ASSUME IInv, UploadAndRecord PROVE IInv'
  OBVIOUS
<1>1. Types'
  BY DEF IInv, Types, UploadAndRecord, windowVars
<1>2. \A i \in 1 .. Len(queue) : queue[i] \in Ops
  BY LenProperties DEF IInv, Types
<1>3. inFlight[currentFrame] = TRUE
  BY DEF IInv, SlotIsTaken, UploadAndRecord
<1>4. /\ queue' = queue /\ currentFrame' = currentFrame /\ chain' = chain
      /\ pc' = "submit"
      /\ inFlight'[currentFrame] = FALSE
      /\ \A s \in Slot : s # currentFrame => inFlight'[s] = inFlight[s]
  BY DEF IInv, Types, UploadAndRecord, windowVars
<1>5. \A i \in 1 .. Len(queue) : queue[i].what = "draw" => queue[i].slot # currentFrame
  BY <1>3 DEF IInv, DrawsAreInFlight
<1>6. DrawsAreInFlight' /\ OneDrawOfASlot' /\ OneChain'
  BY <1>2, <1>4, <1>5 DEF IInv, DrawsAreInFlight, OneDrawOfASlot, OneChain, Ops
<1>7. ResetsAreAnswered'
  <2>1. pc = "upload"
    BY DEF UploadAndRecord
  <2> QED
    BY <1>4, <2>1 DEF IInv, ResetsAreAnswered
<1>8. SlotIsTaken'
  BY <1>4, <1>5 DEF SlotIsTaken
<1> QED
  BY <1>1, <1>6, <1>7, <1>8 DEF IInv

LEMMA SubmitStep == IInv /\ Submit => IInv'
<1> SUFFICES ASSUME IInv, Submit PROVE IInv'
  OBVIOUS
<1> DEFINE op == Op("draw")
<1>1. op \in Ops /\ op.what = "draw" /\ op.slot = currentFrame /\ op.chain = chain.made
  BY DEF Op, Ops, IInv, Types
<1>2. /\ queue' = Append(queue, op)
      /\ inFlight' = inFlight /\ currentFrame' = currentFrame /\ chain' = chain
      /\ pc = "submit" /\ pc' = "present"
      /\ rebuilt' = rebuilt /\ imageIndex' = imageIndex /\ surface' = surface
  BY DEF Submit, windowVars
<1> HIDE DEF op
<1>3. /\ queue' \in Seq(Ops) /\ Len(queue) \in Nat /\ Len(queue') = Len(queue) + 1
      /\ \A i \in 1 .. Len(queue) : queue'[i] = queue[i]
      /\ queue'[Len(queue) + 1] = op
  BY <1>1, <1>2, QueueGrows DEF IInv
<1>4. /\ inFlight[currentFrame] = FALSE
      /\ \A i \in 1 .. Len(queue) : queue[i].what = "draw" => queue[i].slot # currentFrame
  BY <1>2 DEF IInv, SlotIsTaken
<1>5. Types'
  BY <1>2, <1>3 DEF IInv, Types
<1>6. DrawsAreInFlight'
  BY <1>1, <1>2, <1>3, <1>4 DEF IInv, DrawsAreInFlight
<1>7. OneDrawOfASlot'
  BY <1>1, <1>2, <1>3, <1>4 DEF IInv, OneDrawOfASlot
<1>8. ResetsAreAnswered'
  BY <1>1, <1>2, <1>3 DEF IInv, ResetsAreAnswered
<1>9. SlotIsTaken' /\ OneChain'
  BY <1>1, <1>2, <1>3 DEF IInv, SlotIsTaken, OneChain
<1> QED
  BY <1>5, <1>6, <1>7, <1>8, <1>9 DEF IInv

\* All three ways out of a present: the slot goes on to the next one, or the
\* same one is used again.
LEMMA PresentStep ==
  ASSUME IInv, PresentIt, currentFrame' \in Slot, pc' \in {"top", "idle"}
  PROVE  IInv'
<1> DEFINE op == Op("present")
<1>1. op \in Ops /\ op.what = "present" /\ op.chain = chain.made
  BY DEF Op, Ops, IInv, Types
<1>2. /\ queue' = Append(queue, op)
      /\ inFlight' = inFlight /\ chain' = chain /\ pc = "present"
      /\ rebuilt' = rebuilt /\ imageIndex' = NoImage /\ surface' = surface
  BY DEF PresentIt
<1> HIDE DEF op
<1>3. /\ queue' \in Seq(Ops) /\ Len(queue) \in Nat /\ Len(queue') = Len(queue) + 1
      /\ \A i \in 1 .. Len(queue) : queue'[i] = queue[i]
      /\ queue'[Len(queue) + 1] = op
  BY <1>1, <1>2, QueueGrows DEF IInv
<1>5. Types'
  BY <1>2, <1>3, RendererAssumption DEF IInv, Types, NoImage
<1>6. DrawsAreInFlight'
  BY <1>1, <1>2, <1>3 DEF IInv, DrawsAreInFlight
<1>7. OneDrawOfASlot'
  BY <1>1, <1>2, <1>3 DEF IInv, OneDrawOfASlot
<1>8. ResetsAreAnswered'
  BY <1>1, <1>2, <1>3 DEF IInv, ResetsAreAnswered
<1>9. SlotIsTaken' /\ OneChain'
  BY <1>1, <1>2, <1>3 DEF IInv, SlotIsTaken, OneChain
<1> QED
  BY <1>5, <1>6, <1>7, <1>8, <1>9 DEF IInv

\* The new swapchain starts with an empty queue.
LEMMA RecreateStep == IInv /\ RecreateSwapchain => IInv'
<1> SUFFICES ASSUME IInv, RecreateSwapchain PROVE IInv'
  OBVIOUS
<1>1. /\ queue = << >> /\ queue' = queue /\ Len(queue) = 0
      /\ inFlight' = inFlight /\ currentFrame' = currentFrame
      /\ rebuilt' = rebuilt /\ imageIndex' = imageIndex /\ surface' = surface
      /\ pc = "rebuild" /\ pc' \in {"wait", "top", "idle"}
  BY DEF RecreateSwapchain, NextAttempt, Return
<1>2. chain' \in [made : {0, 1}, size : Nat]
  <2>1. chain.made \in {0, 1} /\ chain.size \in Nat /\ surface \in Nat
    BY DEF IInv, Types
  <2>2. chain' = [made |-> 1 - chain.made, size |-> surface]
        \/ chain' = [made |-> 1 - chain.made, size |-> chain.size]
    BY DEF RecreateSwapchain, MakeSwapchain
  <2>3. 1 - chain.made \in {0, 1}
    BY <2>1
  <2> QED
    BY <2>1, <2>2, <2>3
<1>3. Types'
  BY <1>1, <1>2 DEF IInv, Types
<1>4. DrawsAreInFlight' /\ OneDrawOfASlot' /\ OneChain' /\ SlotIsTaken'
  BY <1>1 DEF DrawsAreInFlight, OneDrawOfASlot, OneChain, SlotIsTaken
<1>5. ResetsAreAnswered'
  BY <1>1 DEF IInv, ResetsAreAnswered
<1> QED
  BY <1>3, <1>4, <1>5 DEF IInv

\* The draw executed is the only one of its slot: the fence it signals has no
\* other draw behind it.
LEMMA ExecuteDrawStep == IInv /\ ExecuteDraw => IInv'
<1> SUFFICES ASSUME IInv, ExecuteDraw PROVE IInv'
  OBVIOUS
<1> DEFINE op == Head(queue)
<1>1. /\ queue # << >> /\ op.what = "draw" /\ queue' = Tail(queue)
      /\ inFlight' = [inFlight EXCEPT ![op.slot] = TRUE]
      /\ pc' = pc /\ rebuilt' = rebuilt /\ currentFrame' = currentFrame
      /\ imageIndex' = imageIndex /\ chain' = chain /\ surface' = surface
  BY DEF ExecuteDraw, rasterVars, windowVars
<1>2. /\ queue' \in Seq(Ops) /\ Len(queue) \in Nat /\ Len(queue) >= 1
      /\ Len(queue') = Len(queue) - 1
      /\ \A i \in 1 .. Len(queue') : queue'[i] = queue[i + 1]
      /\ op = queue[1] /\ op \in Ops
  BY <1>1, QueueShrinks DEF IInv
<1> HIDE DEF op
<1>3. op.slot \in Slot
  BY <1>2 DEF Ops
<1>4. \A i \in 1 .. Len(queue) : queue[i] \in Ops
  BY LenProperties DEF IInv, Types
<1>5. \A s \in Slot : inFlight'[s] = IF s = op.slot THEN TRUE ELSE inFlight[s]
  BY <1>1, <1>3 DEF IInv, Types
<1>6. Types'
  BY <1>1, <1>2, <1>3 DEF IInv, Types
<1>7. \A i \in 1 .. Len(queue') : queue'[i].what = "draw" => queue'[i].slot # op.slot
  BY <1>1, <1>2 DEF IInv, OneDrawOfASlot
<1>8. DrawsAreInFlight'
  <2> SUFFICES ASSUME NEW i \in 1 .. Len(queue'), queue'[i].what = "draw"
               PROVE  inFlight'[queue'[i].slot] = FALSE
    BY DEF DrawsAreInFlight
  <2>1. i + 1 \in 1 .. Len(queue) /\ queue'[i] = queue[i + 1]
    BY <1>2
  <2>2. queue'[i].slot \in Slot
    BY <2>1, <1>4 DEF Ops
  <2>3. inFlight[queue'[i].slot] = FALSE
    BY <2>1 DEF IInv, DrawsAreInFlight
  <2> QED
    BY <1>5, <1>7, <2>2, <2>3
<1>9. OneDrawOfASlot' /\ OneChain'
  BY <1>1, <1>2 DEF IInv, OneDrawOfASlot, OneChain
<1>10. ResetsAreAnswered'
  <2> SUFFICES ASSUME NEW s \in Slot, inFlight'[s] = FALSE
               PROVE  \/ \E i \in 1 .. Len(queue') : queue'[i].what = "draw" /\ queue'[i].slot = s
                      \/ pc' = "failed"
                      \/ pc' = "submit" /\ s = currentFrame'
    BY DEF ResetsAreAnswered
  <2>1. s # op.slot /\ inFlight[s] = FALSE
    BY <1>5
  <2>2. CASE pc = "failed" \/ (pc = "submit" /\ s = currentFrame)
    BY <2>2, <1>1
  <2>3. CASE \E i \in 1 .. Len(queue) : queue[i].what = "draw" /\ queue[i].slot = s
    <3>1. PICK i \in 1 .. Len(queue) : queue[i].what = "draw" /\ queue[i].slot = s
      BY <2>3
    <3>2. i # 1
      BY <3>1, <2>1, <1>2
    <3>3. i - 1 \in 1 .. Len(queue') /\ queue'[i - 1] = queue[i]
      BY <3>2, <1>2
    <3> QED
      BY <3>1, <3>3
  <2> QED
    BY <2>1, <2>2, <2>3 DEF IInv, ResetsAreAnswered
<1>11. SlotIsTaken'
  <2>1. currentFrame \in Slot
    BY DEF IInv, Types
  <2>2. CASE pc = "submit"
    <3>1. op.slot # currentFrame
      BY <1>1, <1>2, <2>2 DEF IInv, SlotIsTaken
    <3> QED
      BY <1>1, <1>2, <1>5, <2>1, <2>2, <3>1 DEF IInv, SlotIsTaken
  <2>3. CASE pc # "submit"
    BY <1>1, <1>5, <2>1, <2>3 DEF IInv, SlotIsTaken
  <2> QED
    BY <2>2, <2>3
<1> QED
  BY <1>6, <1>8, <1>9, <1>10, <1>11 DEF IInv

LEMMA ExecutePresentStep == IInv /\ ExecutePresent => IInv'
<1> SUFFICES ASSUME IInv, ExecutePresent PROVE IInv'
  OBVIOUS
<1>1. /\ queue # << >> /\ Head(queue).what = "present" /\ queue' = Tail(queue)
      /\ inFlight' = inFlight
      /\ pc' = pc /\ rebuilt' = rebuilt /\ currentFrame' = currentFrame
      /\ imageIndex' = imageIndex /\ chain' = chain /\ surface' = surface
  BY DEF ExecutePresent, rasterVars
<1>2. /\ queue' \in Seq(Ops) /\ Len(queue) \in Nat /\ Len(queue) >= 1
      /\ Len(queue') = Len(queue) - 1
      /\ \A i \in 1 .. Len(queue') : queue'[i] = queue[i + 1]
      /\ Head(queue) = queue[1]
  BY <1>1, QueueShrinks DEF IInv
<1>3. Types'
  BY <1>1, <1>2 DEF IInv, Types
<1>4. DrawsAreInFlight' /\ OneDrawOfASlot' /\ OneChain'
  BY <1>1, <1>2 DEF IInv, DrawsAreInFlight, OneDrawOfASlot, OneChain
<1>5. ResetsAreAnswered'
  <2>1. queue[1].what # "draw"
    BY <1>1, <1>2
  <2>2. \A i \in 1 .. Len(queue) : queue[i].what = "draw" =>
          i - 1 \in 1 .. Len(queue') /\ queue'[i - 1] = queue[i]
    BY <1>2, <2>1
  <2> QED
    BY <1>1, <2>2 DEF IInv, ResetsAreAnswered
<1>6. SlotIsTaken'
  BY <1>1, <1>2 DEF IInv, SlotIsTaken
<1> QED
  BY <1>3, <1>4, <1>5, <1>6 DEF IInv

(***************************************************************************)
(* Every step.                                                             *)
(***************************************************************************)

LEMMA NextSlot == \A s \in Slot : ((s + 1) % kMaxFramesInFlight) \in Slot
BY RendererAssumption DEF Slot

LEMMA Steps == IInv /\ [Next]_vars => IInv'
<1> SUFFICES ASSUME IInv, [Next]_vars PROVE IInv'
  OBVIOUS
<1> USE DEF rasterVars, gpuVars, windowVars
<1>t. /\ pc \in Places /\ rebuilt \in {"wait", "continue"} /\ imageIndex \in 0 .. NumImages
      /\ surface \in Nat /\ currentFrame \in Slot /\ inFlight \in [Slot -> BOOLEAN]
  BY DEF IInv, Types
<1>taken. pc \in {"acquire", "upload"} => inFlight[currentFrame] = TRUE
  BY DEF IInv, SlotIsTaken
<1>1. CASE Fail
  BY <1>1, <1>t, QuietStep DEF Fail, Return
<1>2. CASE Begin
  BY <1>2, <1>t, QuietStep DEF Begin
<1>3. CASE TakeRebuildRequest
  BY <1>3, <1>t, QuietStep DEF TakeRebuildRequest
<1>4. CASE RecreateSwapchain
  BY <1>4, RecreateStep
<1>5. CASE WaitFence
  BY <1>5, <1>t, QuietStep DEF WaitFence
<1>6. CASE FenceTimesOut
  BY <1>6, <1>t, QuietStep DEF FenceTimesOut, Return
<1>7. CASE AcquireTimesOut
  BY <1>7, <1>t, QuietStep DEF AcquireTimesOut, Return
<1>8. CASE OutOfDate
  BY <1>8, <1>t, QuietStep DEF OutOfDate
<1>9. CASE Acquire
  BY <1>9, <1>t, <1>taken, QuietStep DEF Acquire, Image
<1>10. CASE UploadAndRecord
  BY <1>10, UploadStep
<1>11. CASE Submit
  BY <1>11, SubmitStep
<1>12. CASE PresentMismatch
  BY <1>12, <1>t, PresentStep DEF PresentMismatch, NextAttempt, Return
<1>13. CASE Present
  BY <1>13, <1>t, NextSlot, PresentStep DEF Present, Return
<1>14. CASE ExecuteDraw
  BY <1>14, ExecuteDrawStep
<1>15. CASE ExecutePresent
  BY <1>15, ExecutePresentStep
<1>16. CASE Turn
  <2>1. surface' \in Nat
    BY <1>16, <1>t DEF Turn
  <2>2. /\ UNCHANGED <<queue, inFlight, currentFrame>> /\ chain' = chain
        /\ pc' = pc /\ rebuilt' = rebuilt /\ imageIndex' = imageIndex
    BY <1>16 DEF Turn
  <2> QED
    BY <2>1, <2>2, <1>t, <1>taken, QuietStep
<1>17. CASE RequestRender
  BY <1>17, <1>t, <1>taken, QuietStep DEF RequestRender
<1>18. CASE UNCHANGED vars
  BY <1>18, <1>t, <1>taken, QuietStep DEF vars
<1> QED
  BY <1>1, <1>2, <1>3, <1>4, <1>5, <1>6, <1>7, <1>8, <1>9, <1>10, <1>11, <1>12, <1>13,
     <1>14, <1>15, <1>16, <1>17, <1>18 DEF Next, Render

\* The inductive invariant: of the queue, the fences and the slot in hand.
THEOREM InvariantHolds == Spec => []IInv
BY Initially, Steps, PTL DEF Spec

\* No matter how many slots, retries, timeouts and rebuilds there are, render
\* writes the buffers of a slot only when the GPU has done its last draw.
THEOREM SlotsAreQuiet == Spec => []SlotIsQuiet
<1>1. IInv => SlotIsQuiet
  <2> SUFFICES ASSUME IInv, pc = "upload", NEW i \in DOMAIN queue,
                      queue[i].what = "draw", queue[i].slot = currentFrame
               PROVE  FALSE
    BY DEF SlotIsQuiet, Draws
  <2>1. i \in 1 .. Len(queue)
    BY LenProperties DEF IInv, Types
  <2> QED
    BY <2>1 DEF IInv, SlotIsTaken, DrawsAreInFlight
<1> QED
  BY <1>1, InvariantHolds, PTL

\* No path through render resets the fence of a slot and then waits for it
\* without a draw in the queue that will signal it.
THEOREM FencesAreAnswered == Spec => []FenceIsAnswered
<1>1. IInv => FenceIsAnswered
  <2> SUFFICES ASSUME IInv, NEW s \in Slot, ~inFlight[s]
               PROVE  \/ Draws(s) \/ pc = "failed" \/ (pc = "submit" /\ s = currentFrame)
    BY DEF FenceIsAnswered
  <2>1. inFlight[s] = FALSE
    BY DEF IInv, Types
  <2>2. DOMAIN queue = 1 .. Len(queue)
    BY LenProperties DEF IInv, Types
  <2> QED
    BY <2>1, <2>2 DEF IInv, ResetsAreAnswered, Draws
<1> QED
  BY <1>1, InvariantHolds, PTL

\* A swapchain that the queue still draws to or presents is never destroyed.
THEOREM ChainsOutliveTheirFrames == Spec => []QueueIsOfChain
<1>1. IInv => QueueIsOfChain
  <2>1. IInv => DOMAIN queue = 1 .. Len(queue)
    BY LenProperties DEF IInv, Types
  <2> QED
    BY <2>1 DEF IInv, OneChain, QueueIsOfChain
<1> QED
  BY <1>1, InvariantHolds, PTL

(***************************************************************************)
(* What an acquire leaves to be done.  NothingLeftBehind speaks of the     *)
(* places where render holds nothing; in between, the image is in the      *)
(* hand of render and the semaphore waits for the draw of this slot.       *)
(***************************************************************************)

InHand == {"upload", "submit", "present"}

ImageTypes ==
  /\ images \in [Image -> {"free", "acquired", "queued", "shown"}]
  /\ available \in [Slot -> BOOLEAN]
  /\ pc \in InHand => imageIndex \in Image

AcquiredInHand ==
  \A i \in Image : images[i] = "acquired" =>
    pc = "failed" \/ (pc \in InHand /\ i = imageIndex)

AvailableIsAwaited ==
  \A s \in Slot : available[s] = TRUE =>
    \/ \E i \in 1 .. Len(queue) : queue[i].what = "draw" /\ queue[i].slot = s
    \/ pc \in {"upload", "submit"} /\ s = currentFrame
    \/ pc = "failed"

HInv == ImageTypes /\ AcquiredInHand /\ AvailableIsAwaited

USE DEF InHand

LEMMA InitiallyNothing == Init => HInv
<1> SUFFICES ASSUME Init PROVE HInv
  OBVIOUS
<1>1. images \in [Image -> {"free", "acquired", "queued", "shown"}] /\ pc \notin InHand
  BY DEF Init
<1>2. available \in [Slot -> BOOLEAN]
  BY Zenon DEF Init
<1>3. AcquiredInHand
  BY DEF Init, AcquiredInHand
<1>4. AvailableIsAwaited
  BY DEF Init, AvailableIsAwaited
<1> QED
  BY <1>1, <1>2, <1>3, <1>4 DEF HInv, ImageTypes

\* Steps that leave the queue, the images and the semaphores alone.
LEMMA QuietHandStep ==
  ASSUME HInv, UNCHANGED <<queue, images, available, currentFrame>>,
         pc' \in InHand => pc \in InHand /\ imageIndex' = imageIndex,
         pc \in InHand => pc' \in InHand \cup {"failed"},
         pc \in {"upload", "submit"} => pc' \in {"upload", "submit", "failed"},
         pc = "failed" => pc' = "failed"
  PROVE  HInv'
<1>1. (images \in [Image -> {"free", "acquired", "queued", "shown"}])'
  BY DEF HInv, ImageTypes
<1>2. (available \in [Slot -> BOOLEAN])'
  BY Zenon DEF HInv, ImageTypes
<1>3. (pc \in InHand => imageIndex \in Image)'
  BY DEF HInv, ImageTypes
<1>4. AcquiredInHand'
  BY DEF HInv, AcquiredInHand
<1>5. AvailableIsAwaited'
  BY DEF HInv, AvailableIsAwaited
<1> QED
  BY <1>1, <1>2, <1>3, <1>4, <1>5 DEF HInv, ImageTypes

\* A free image and the semaphore of the slot are taken in hand.
LEMMA AcquireHands == IInv /\ HInv /\ Acquire => HInv'
<1> SUFFICES ASSUME IInv, HInv, Acquire PROVE HInv'
  OBVIOUS
<1>1. PICK i \in Image : imageIndex' = i /\ images' = [images EXCEPT ![i] = "acquired"]
  BY DEF Acquire
<1>2. /\ pc = "acquire" /\ pc' = "upload"
      /\ available' = [available EXCEPT ![currentFrame] = TRUE]
      /\ queue' = queue /\ currentFrame' = currentFrame
  BY DEF Acquire
<1>3. images \in [Image -> {"free", "acquired", "queued", "shown"}]
  BY DEF HInv, ImageTypes
<1>4. available \in [Slot -> BOOLEAN]
  BY DEF HInv, ImageTypes
<1>5. /\ images' \in [Image -> {"free", "acquired", "queued", "shown"}]
      /\ \A j \in Image : images[j] # "acquired"
      /\ \A j \in Image : j # i => images'[j] = images[j]
  BY <1>1, <1>2, <1>3 DEF HInv, AcquiredInHand
<1>6. available' \in [Slot -> BOOLEAN]
  BY <1>2, <1>4, Zenon
<1>7. ImageTypes'
  BY <1>1, <1>5, <1>6 DEF ImageTypes
<1>8. AcquiredInHand'
  BY <1>1, <1>2, <1>5 DEF AcquiredInHand
<1>9. AvailableIsAwaited'
  <2> SUFFICES ASSUME NEW s \in Slot, available'[s] = TRUE
               PROVE  \/ \E j \in 1 .. Len(queue') : queue'[j].what = "draw" /\ queue'[j].slot = s
                      \/ pc' \in {"upload", "submit"} /\ s = currentFrame'
    BY DEF AvailableIsAwaited
  <2>1. CASE s = currentFrame
    BY <2>1, <1>2
  <2>2. CASE s # currentFrame
    <3>1. available[s] = TRUE
      BY <2>2, <1>2, <1>4
    <3> QED
      BY <3>1, <1>2 DEF HInv, AvailableIsAwaited
  <2> QED
    BY <2>1, <2>2
<1> QED
  BY <1>7, <1>8, <1>9 DEF HInv

\* The draw that waits for the semaphore of the slot is in the queue.
LEMMA SubmitHands == IInv /\ HInv /\ Submit => HInv'
<1> SUFFICES ASSUME IInv, HInv, Submit PROVE HInv'
  OBVIOUS
<1> DEFINE op == Op("draw")
<1>1. op \in Ops /\ op.what = "draw" /\ op.slot = currentFrame
  BY DEF Op, Ops, IInv, Types
<1>2. /\ queue' = Append(queue, op)
      /\ currentFrame' = currentFrame /\ imageIndex' = imageIndex
      /\ images' = images /\ available' = available
      /\ pc = "submit" /\ pc' = "present"
  BY DEF Submit
<1> HIDE DEF op
<1>3. /\ Len(queue) \in Nat /\ Len(queue') = Len(queue) + 1
      /\ \A i \in 1 .. Len(queue) : queue'[i] = queue[i]
      /\ queue'[Len(queue) + 1] = op
  BY <1>1, <1>2, QueueGrows DEF IInv
<1>4. (images \in [Image -> {"free", "acquired", "queued", "shown"}])'
      /\ (pc \in InHand => imageIndex \in Image)'
  BY <1>2 DEF HInv, ImageTypes
<1>5. (available \in [Slot -> BOOLEAN])'
  BY <1>2, Zenon DEF HInv, ImageTypes
<1>6. AcquiredInHand'
  BY <1>2 DEF HInv, AcquiredInHand
<1>7. AvailableIsAwaited'
  BY <1>1, <1>2, <1>3 DEF HInv, AvailableIsAwaited
<1> QED
  BY <1>4, <1>5, <1>6, <1>7 DEF HInv, ImageTypes

\* Either way out of a present, the image has left render's hand.
LEMMA PresentHands ==
  ASSUME IInv, HInv, PresentIt, pc' \in {"top", "idle"}
  PROVE  HInv'
<1> DEFINE op == Op("present")
<1>1. op \in Ops
  BY DEF Op, Ops, IInv, Types
<1>2. /\ queue' = Append(queue, op)
      /\ available' = available /\ pc = "present"
      /\ images' = [images EXCEPT ![imageIndex] = "queued"]
  BY DEF PresentIt
<1> HIDE DEF op
<1>3. /\ Len(queue) \in Nat /\ Len(queue') = Len(queue) + 1
      /\ \A i \in 1 .. Len(queue) : queue'[i] = queue[i]
  BY <1>1, <1>2, QueueGrows DEF IInv
<1>4. /\ images' \in [Image -> {"free", "acquired", "queued", "shown"}]
      /\ \A i \in Image : images'[i] = "acquired" => images[i] = "acquired" /\ i # imageIndex
  BY <1>2 DEF HInv, ImageTypes
<1>5. (available \in [Slot -> BOOLEAN])'
  BY <1>2, Zenon DEF HInv, ImageTypes
<1>6. AcquiredInHand'
  BY <1>2, <1>4 DEF HInv, AcquiredInHand
<1>7. AvailableIsAwaited'
  BY <1>2, <1>3 DEF HInv, AvailableIsAwaited
<1> QED
  BY <1>4, <1>5, <1>6, <1>7 DEF HInv, ImageTypes

\* A rebuild waits for the queue: no semaphore of a draw can be left signalled.
LEMMA RecreateHands == IInv /\ HInv /\ RecreateSwapchain => HInv'
<1> SUFFICES ASSUME IInv, HInv, RecreateSwapchain PROVE HInv'
  OBVIOUS
<1>1. /\ Len(queue) = 0 /\ queue' = queue /\ available' = available
      /\ pc = "rebuild" /\ pc' \in {"wait", "top", "idle"}
      /\ images' = [i \in Image |-> "free"]
  BY DEF RecreateSwapchain, MakeSwapchain, NextAttempt, Return
<1>2. (images \in [Image -> {"free", "acquired", "queued", "shown"}])' /\ AcquiredInHand'
  BY <1>1 DEF AcquiredInHand
<1>3. (available \in [Slot -> BOOLEAN])'
  BY <1>1, Zenon DEF HInv, ImageTypes
<1>4. AvailableIsAwaited'
  BY <1>1 DEF HInv, AvailableIsAwaited
<1> QED
  BY <1>1, <1>2, <1>3, <1>4 DEF HInv, ImageTypes

\* A draw takes the signal of its slot's semaphore with it out of the queue.
LEMMA ExecuteDrawHands == IInv /\ HInv /\ ExecuteDraw => HInv'
<1> SUFFICES ASSUME IInv, HInv, ExecuteDraw PROVE HInv'
  OBVIOUS
<1> DEFINE op == Head(queue)
<1>1. /\ queue # << >> /\ queue' = Tail(queue)
      /\ available' = [available EXCEPT ![op.slot] = FALSE]
      /\ images' = images
      /\ pc' = pc /\ currentFrame' = currentFrame /\ imageIndex' = imageIndex
  BY DEF ExecuteDraw, rasterVars
<1>2. /\ Len(queue) \in Nat /\ Len(queue) >= 1
      /\ Len(queue') = Len(queue) - 1
      /\ \A i \in 1 .. Len(queue') : queue'[i] = queue[i + 1]
      /\ op = queue[1] /\ op \in Ops
  BY <1>1, QueueShrinks DEF IInv
<1> HIDE DEF op
<1>3. op.slot \in Slot /\ available \in [Slot -> BOOLEAN]
  BY <1>2 DEF Ops, HInv, ImageTypes
<1>4. (images \in [Image -> {"free", "acquired", "queued", "shown"}])'
      /\ (pc \in InHand => imageIndex \in Image)'
  BY <1>1 DEF HInv, ImageTypes
<1>5. (available \in [Slot -> BOOLEAN])'
  BY <1>1, <1>3, Zenon
<1>6. AcquiredInHand'
  BY <1>1 DEF HInv, AcquiredInHand
<1>7. AvailableIsAwaited'
  <2> SUFFICES ASSUME NEW s \in Slot, available'[s] = TRUE
               PROVE  \/ \E j \in 1 .. Len(queue') : queue'[j].what = "draw" /\ queue'[j].slot = s
                      \/ pc' \in {"upload", "submit"} /\ s = currentFrame'
                      \/ pc' = "failed"
    BY DEF AvailableIsAwaited
  <2>1. s # op.slot /\ available[s] = TRUE
    BY <1>1, <1>3
  <2>2. CASE \E i \in 1 .. Len(queue) : queue[i].what = "draw" /\ queue[i].slot = s
    <3>1. PICK i \in 1 .. Len(queue) : queue[i].what = "draw" /\ queue[i].slot = s
      BY <2>2
    <3>2. i # 1
      BY <3>1, <2>1, <1>2
    <3>3. i - 1 \in 1 .. Len(queue') /\ queue'[i - 1] = queue[i]
      BY <3>2, <1>2
    <3> QED
      BY <3>1, <3>3
  <2> QED
    BY <1>1, <2>1, <2>2 DEF HInv, AvailableIsAwaited
<1> QED
  BY <1>4, <1>5, <1>6, <1>7 DEF HInv, ImageTypes

LEMMA ExecutePresentHands == IInv /\ HInv /\ ExecutePresent => HInv'
<1> SUFFICES ASSUME IInv, HInv, ExecutePresent PROVE HInv'
  OBVIOUS
<1>1. /\ queue # << >> /\ Head(queue).what = "present" /\ queue' = Tail(queue)
      /\ available' = available
      /\ images' = [i \in Image |-> IF i = Head(queue).image THEN "shown"
                                    ELSE IF images[i] = "shown" THEN "free" ELSE images[i]]
      /\ pc' = pc /\ currentFrame' = currentFrame /\ imageIndex' = imageIndex
  BY DEF ExecutePresent, rasterVars
<1>2. /\ Len(queue) \in Nat /\ Len(queue) >= 1
      /\ Len(queue') = Len(queue) - 1
      /\ \A i \in 1 .. Len(queue') : queue'[i] = queue[i + 1]
      /\ Head(queue) = queue[1]
  BY <1>1, QueueShrinks DEF IInv
<1>3. images \in [Image -> {"free", "acquired", "queued", "shown"}]
  BY DEF HInv, ImageTypes
<1>4. /\ images' \in [Image -> {"free", "acquired", "queued", "shown"}]
      /\ \A i \in Image : images'[i] = "acquired" => images[i] = "acquired"
  BY <1>1, <1>3
<1>5. (pc \in InHand => imageIndex \in Image)'
  BY <1>1 DEF HInv, ImageTypes
<1>6. (available \in [Slot -> BOOLEAN])'
  BY <1>1, Zenon DEF HInv, ImageTypes
<1>7. AcquiredInHand'
  BY <1>1, <1>4 DEF HInv, AcquiredInHand
<1>8. AvailableIsAwaited'
  <2>1. queue[1].what # "draw"
    BY <1>1, <1>2
  <2>2. \A i \in 1 .. Len(queue) : queue[i].what = "draw" =>
          i - 1 \in 1 .. Len(queue') /\ queue'[i - 1] = queue[i]
    BY <1>2, <2>1
  <2> QED
    BY <1>1, <2>2 DEF HInv, AvailableIsAwaited
<1> QED
  BY <1>4, <1>5, <1>6, <1>7, <1>8 DEF HInv, ImageTypes

LEMMA HandSteps == IInv /\ HInv /\ [Next]_vars => HInv'
<1> SUFFICES ASSUME IInv, HInv, [Next]_vars PROVE HInv'
  OBVIOUS
<1> USE DEF rasterVars, gpuVars, windowVars
<1>1. CASE Fail
  BY <1>1, QuietHandStep DEF Fail, Return
<1>2. CASE Begin
  BY <1>2, QuietHandStep DEF Begin
<1>3. CASE TakeRebuildRequest
  BY <1>3, QuietHandStep DEF TakeRebuildRequest
<1>4. CASE RecreateSwapchain
  BY <1>4, RecreateHands
<1>5. CASE WaitFence
  BY <1>5, QuietHandStep DEF WaitFence
<1>6. CASE FenceTimesOut
  BY <1>6, QuietHandStep DEF FenceTimesOut, Return
<1>7. CASE AcquireTimesOut
  BY <1>7, QuietHandStep DEF AcquireTimesOut, Return
<1>8. CASE OutOfDate
  BY <1>8, QuietHandStep DEF OutOfDate
<1>9. CASE Acquire
  BY <1>9, AcquireHands
<1>10. CASE UploadAndRecord
  BY <1>10, QuietHandStep DEF UploadAndRecord
<1>11. CASE Submit
  BY <1>11, SubmitHands
<1>12. CASE PresentMismatch
  BY <1>12, PresentHands DEF PresentMismatch, NextAttempt, Return
<1>13. CASE Present
  BY <1>13, PresentHands DEF Present, Return
<1>14. CASE ExecuteDraw
  BY <1>14, ExecuteDrawHands
<1>15. CASE ExecutePresent
  BY <1>15, ExecutePresentHands
<1>16. CASE Turn
  BY <1>16, QuietHandStep DEF Turn
<1>17. CASE RequestRender
  BY <1>17, QuietHandStep DEF RequestRender
<1>18. CASE UNCHANGED vars
  BY <1>18, QuietHandStep DEF vars
<1> QED
  BY <1>1, <1>2, <1>3, <1>4, <1>5, <1>6, <1>7, <1>8, <1>9, <1>10, <1>11, <1>12, <1>13,
     <1>14, <1>15, <1>16, <1>17, <1>18 DEF Next, Render

\* However often a frame is retried, timed out or rebuilt, render never gives
\* up an image it acquired nor leaves a semaphore signalled that no draw waits
\* for: neither the swapchain nor a slot runs dry.
THEOREM NothingIsLeftBehind == Spec => []NothingLeftBehind
<1>1. IInv /\ HInv => NothingLeftBehind
  <2> SUFFICES ASSUME IInv, HInv, pc \in {"idle", "top", "wait", "acquire"}
               PROVE  /\ \A i \in Image : images[i] # "acquired"
                      /\ \A s \in Slot : available[s] => Draws(s)
    BY DEF NothingLeftBehind
  <2>1. \A i \in Image : images[i] # "acquired"
    BY DEF HInv, AcquiredInHand
  <2>2. ASSUME NEW s \in Slot, available[s] PROVE Draws(s)
    <3>1. available[s] = TRUE
      BY <2>2 DEF HInv, ImageTypes
    <3>2. DOMAIN queue = 1 .. Len(queue)
      BY LenProperties DEF IInv, Types
    <3> QED
      BY <3>1, <3>2 DEF HInv, AvailableIsAwaited, Draws
  <2> QED
    BY <2>1, <2>2
<1>2. Init => HInv
  BY InitiallyNothing
<1> QED
  BY <1>1, <1>2, InvariantHolds, HandSteps, PTL DEF Spec

(***************************************************************************)
(* The images of a frame with backdrops to blur.  The invariant tells what *)
(* each image holds at each command that may come next.                    *)
(***************************************************************************)

GpuCommand ==
  [op : {"barrier"}, image : Passes!Image, from : Passes!Layout, to : Passes!Layout]
    \cup [op : {"pass"}, image : Passes!Image, from : Passes!Layout, to : Passes!Layout,
          part : Nat]
    \cup [op : {"sample"}, image : Passes!Image, part : Nat]

\* What is left of a marker on the screen from each of its commands on.
Left10(s) == <<Passes!Sample("pingB", s)>>
Left9(s) == <<Passes!ScenePass(s + 1)>> \o Left10(s)
Left8(s) == <<Passes!Barrier("scene", "read", "attachment")>> \o Left9(s)
Left7(s) == <<Passes!Barrier("pingB", "read", "read")>> \o Left8(s)
Left6(s) == <<Passes!BlurPass("pingB", s)>> \o Left7(s)
Left5(s) == <<Passes!Sample("pingA", s)>> \o Left6(s)
Left4(s) == <<Passes!Barrier("pingA", "read", "read")>> \o Left5(s)
Left3(s) == <<Passes!BlurPass("pingA", s)>> \o Left4(s)
Left2(s) == <<Passes!Sample("scene", s)>> \o Left3(s)
Left1(s) == <<Passes!Barrier("scene", "attachment", "read")>> \o Left2(s)

\* ... of the beginning and of the end of a frame.
Start4 == <<Passes!ScenePass(1)>>
Start3 == <<Passes!Barrier("pingB", "read", "read")>> \o Start4
Start2 == <<Passes!Barrier("pingA", "read", "read")>> \o Start3
Start1 == <<Passes!Barrier("scene", "read", "read")>> \o Start2
End2(s) == <<Passes!Sample("scene", s)>>
End1(s) == <<Passes!Barrier("scene", "attachment", "read")>> \o End2(s)

\* An image in this layout shows this frame up to segment s.
Shows(image, l, s) ==
  layout[image] = l /\ content[image] = [frame |-> frame, part |-> s]

\* In the commands of a marker.
InMarker(s) ==
  \/ commands = Left1(s) /\ Shows("scene", "attachment", s)
  \/ commands = Left2(s) /\ Shows("scene", "read", s) /\ "scene" \in visible /\ sampled = {}
  \/ commands = Left3(s) /\ Shows("scene", "read", s) /\ sampled = {"scene"}
  \/ commands = Left4(s) /\ Shows("scene", "read", s) /\ Shows("pingA", "read", s)
  \/ commands = Left5(s) /\ Shows("scene", "read", s) /\ Shows("pingA", "read", s)
       /\ "pingA" \in visible /\ sampled = {}
  \/ commands = Left6(s) /\ Shows("scene", "read", s) /\ sampled = {"pingA"}
  \/ commands = Left7(s) /\ Shows("scene", "read", s) /\ Shows("pingB", "read", s)
  \/ commands = Left8(s) /\ Shows("scene", "read", s) /\ Shows("pingB", "read", s)
       /\ "pingB" \in visible
  \/ commands = Left9(s) /\ Shows("scene", "attachment", s) /\ Shows("pingB", "read", s)
       /\ "pingB" \in visible /\ sampled = {}
  \/ commands = Left10(s) /\ Shows("scene", "attachment", s + 1) /\ Shows("pingB", "read", s)
       /\ "pingB" \in visible /\ sampled = {}
  \/ commands = <<Passes!ScenePass(s + 1)>> /\ Shows("scene", "attachment", s)
       /\ "scene" \notin sampled

InStart ==
  \/ commands \in {Start1, Start2, Start3}
  \/ commands = Start4 /\ sampled = {}

InEnd(s) ==
  \/ commands = End1(s) /\ Shows("scene", "attachment", s)
  \/ commands = End2(s) /\ Shows("scene", "read", s) /\ "scene" \in visible

PassTypes ==
  /\ layout \in [Passes!Image -> Passes!Layout]
  /\ DOMAIN content = Passes!Image
  /\ visible \subseteq Passes!Image /\ sampled \subseteq Passes!Image

PassInv ==
  /\ PassTypes
  /\ offscreenUsedOnce \in BOOLEAN
  /\ ahead \in Seq(BOOLEAN) /\ drawing \in Nat
  /\ \/ commands = << >> /\ (offscreenUsedOnce \/ sampled = {})
     \/ offscreenUsedOnce /\ drawing = 1 /\ InStart
     \/ offscreenUsedOnce /\ drawing - 1 \in Nat \ {0} /\ InMarker(drawing - 1)
     \/ offscreenUsedOnce /\ drawing = 0 /\ ahead = << >> /\ \E s \in Nat \ {0} : InEnd(s)

\* What a sequence begins with and what is behind it.
LEMMA FirstAndRest ==
  ASSUME NEW S, NEW c \in S, NEW rest \in Seq(S)
  PROVE  /\ <<c>> \o rest \in Seq(S) /\ <<c>> \o rest # << >>
         /\ Head(<<c>> \o rest) = c /\ Tail(<<c>> \o rest) = rest
  BY HeadTailProperties, ConcatProperties, LenProperties

LEMMA OneOnly ==
  ASSUME NEW S, NEW c \in S
  PROVE  <<c>> \in Seq(S) /\ <<c>> # << >> /\ Head(<<c>>) = c /\ Tail(<<c>>) = << >>
  OBVIOUS

LEMMA CommandsAre ==
  ASSUME NEW s \in Nat
  PROVE  /\ \A i \in Passes!Image : Passes!Sample(i, s) \in GpuCommand
         /\ \A i \in Passes!Image, f, t \in Passes!Layout :
              Passes!Barrier(i, f, t) \in GpuCommand
         /\ \A i \in Passes!Image : Passes!BlurPass(i, s) \in GpuCommand
         /\ Passes!ScenePass(s) \in GpuCommand
  BY DEF GpuCommand, Passes!Sample, Passes!Barrier, Passes!BlurPass, Passes!ScenePass,
         Passes!Pass, Passes!Image, Passes!Layout

\* Each part of a block begins with its command and goes on with the next part.
LEMMA BlocksUnroll ==
  ASSUME NEW s \in Nat
  PROVE  /\ Left10(s) # << >> /\ Head(Left10(s)) = Passes!Sample("pingB", s)
         /\ Tail(Left10(s)) = << >>
         /\ Left9(s) # << >> /\ Head(Left9(s)) = Passes!ScenePass(s + 1)
         /\ Tail(Left9(s)) = Left10(s)
         /\ Left8(s) # << >> /\ Head(Left8(s)) = Passes!Barrier("scene", "read", "attachment")
         /\ Tail(Left8(s)) = Left9(s)
         /\ Left7(s) # << >> /\ Head(Left7(s)) = Passes!Barrier("pingB", "read", "read")
         /\ Tail(Left7(s)) = Left8(s)
         /\ Left6(s) # << >> /\ Head(Left6(s)) = Passes!BlurPass("pingB", s)
         /\ Tail(Left6(s)) = Left7(s)
         /\ Left5(s) # << >> /\ Head(Left5(s)) = Passes!Sample("pingA", s)
         /\ Tail(Left5(s)) = Left6(s)
         /\ Left4(s) # << >> /\ Head(Left4(s)) = Passes!Barrier("pingA", "read", "read")
         /\ Tail(Left4(s)) = Left5(s)
         /\ Left3(s) # << >> /\ Head(Left3(s)) = Passes!BlurPass("pingA", s)
         /\ Tail(Left3(s)) = Left4(s)
         /\ Left2(s) # << >> /\ Head(Left2(s)) = Passes!Sample("scene", s)
         /\ Tail(Left2(s)) = Left3(s)
         /\ Left1(s) # << >> /\ Head(Left1(s)) = Passes!Barrier("scene", "attachment", "read")
         /\ Tail(Left1(s)) = Left2(s)
         /\ End2(s) # << >> /\ Head(End2(s)) = Passes!Sample("scene", s) /\ Tail(End2(s)) = << >>
         /\ End1(s) # << >> /\ Head(End1(s)) = Passes!Barrier("scene", "attachment", "read")
         /\ Tail(End1(s)) = End2(s)
         /\ Start4 # << >> /\ Head(Start4) = Passes!ScenePass(1) /\ Tail(Start4) = << >>
         /\ Start3 # << >> /\ Head(Start3) = Passes!Barrier("pingB", "read", "read")
         /\ Tail(Start3) = Start4
         /\ Start2 # << >> /\ Head(Start2) = Passes!Barrier("pingA", "read", "read")
         /\ Tail(Start2) = Start3
         /\ Start1 # << >> /\ Head(Start1) = Passes!Barrier("scene", "read", "read")
         /\ Tail(Start1) = Start2
<1>0. /\ "scene" \in Passes!Image /\ "pingA" \in Passes!Image /\ "pingB" \in Passes!Image
      /\ "attachment" \in Passes!Layout /\ "read" \in Passes!Layout
      /\ 1 \in Nat /\ s + 1 \in Nat
  BY DEF Passes!Image, Passes!Layout
<1>10. /\ Left10(s) \in Seq(GpuCommand) /\ Left10(s) # << >>
       /\ Head(Left10(s)) = Passes!Sample("pingB", s) /\ Tail(Left10(s)) = << >>
  BY <1>0, CommandsAre, OneOnly DEF Left10
<1>9. /\ Left9(s) \in Seq(GpuCommand) /\ Left9(s) # << >>
      /\ Head(Left9(s)) = Passes!ScenePass(s + 1) /\ Tail(Left9(s)) = Left10(s)
  BY <1>0, <1>10, CommandsAre, FirstAndRest DEF Left9
<1>8. /\ Left8(s) \in Seq(GpuCommand) /\ Left8(s) # << >>
      /\ Head(Left8(s)) = Passes!Barrier("scene", "read", "attachment")
      /\ Tail(Left8(s)) = Left9(s)
  BY <1>0, <1>9, CommandsAre, FirstAndRest DEF Left8
<1>7. /\ Left7(s) \in Seq(GpuCommand) /\ Left7(s) # << >>
      /\ Head(Left7(s)) = Passes!Barrier("pingB", "read", "read") /\ Tail(Left7(s)) = Left8(s)
  BY <1>0, <1>8, CommandsAre, FirstAndRest DEF Left7
<1>6. /\ Left6(s) \in Seq(GpuCommand) /\ Left6(s) # << >>
      /\ Head(Left6(s)) = Passes!BlurPass("pingB", s) /\ Tail(Left6(s)) = Left7(s)
  BY <1>0, <1>7, CommandsAre, FirstAndRest DEF Left6
<1>5. /\ Left5(s) \in Seq(GpuCommand) /\ Left5(s) # << >>
      /\ Head(Left5(s)) = Passes!Sample("pingA", s) /\ Tail(Left5(s)) = Left6(s)
  BY <1>0, <1>6, CommandsAre, FirstAndRest DEF Left5
<1>4. /\ Left4(s) \in Seq(GpuCommand) /\ Left4(s) # << >>
      /\ Head(Left4(s)) = Passes!Barrier("pingA", "read", "read") /\ Tail(Left4(s)) = Left5(s)
  BY <1>0, <1>5, CommandsAre, FirstAndRest DEF Left4
<1>3. /\ Left3(s) \in Seq(GpuCommand) /\ Left3(s) # << >>
      /\ Head(Left3(s)) = Passes!BlurPass("pingA", s) /\ Tail(Left3(s)) = Left4(s)
  BY <1>0, <1>4, CommandsAre, FirstAndRest DEF Left3
<1>2. /\ Left2(s) \in Seq(GpuCommand) /\ Left2(s) # << >>
      /\ Head(Left2(s)) = Passes!Sample("scene", s) /\ Tail(Left2(s)) = Left3(s)
  BY <1>0, <1>3, CommandsAre, FirstAndRest DEF Left2
<1>1. /\ Left1(s) # << >> /\ Tail(Left1(s)) = Left2(s)
      /\ Head(Left1(s)) = Passes!Barrier("scene", "attachment", "read")
  BY <1>0, <1>2, CommandsAre, FirstAndRest DEF Left1
<1>11. /\ End2(s) \in Seq(GpuCommand) /\ End2(s) # << >>
       /\ Head(End2(s)) = Passes!Sample("scene", s) /\ Tail(End2(s)) = << >>
  BY <1>0, CommandsAre, OneOnly DEF End2
<1>12. /\ End1(s) # << >> /\ Tail(End1(s)) = End2(s)
       /\ Head(End1(s)) = Passes!Barrier("scene", "attachment", "read")
  BY <1>0, <1>11, CommandsAre, FirstAndRest DEF End1
<1>13. /\ Start4 \in Seq(GpuCommand) /\ Start4 # << >> /\ Head(Start4) = Passes!ScenePass(1)
       /\ Tail(Start4) = << >>
  BY <1>0, CommandsAre, OneOnly DEF Start4
<1>14. /\ Start3 \in Seq(GpuCommand) /\ Start3 # << >> /\ Tail(Start3) = Start4
       /\ Head(Start3) = Passes!Barrier("pingB", "read", "read")
  BY <1>0, <1>13, CommandsAre, FirstAndRest DEF Start3
<1>15. /\ Start2 \in Seq(GpuCommand) /\ Start2 # << >> /\ Tail(Start2) = Start3
       /\ Head(Start2) = Passes!Barrier("pingA", "read", "read")
  BY <1>0, <1>14, CommandsAre, FirstAndRest DEF Start2
<1>16. /\ Start1 # << >> /\ Tail(Start1) = Start2
       /\ Head(Start1) = Passes!Barrier("scene", "read", "read")
  BY <1>0, <1>15, CommandsAre, FirstAndRest DEF Start1
<1> QED
  BY <1>1, <1>2, <1>3, <1>4, <1>5, <1>6, <1>7, <1>8, <1>9, <1>10, <1>11, <1>12, <1>13, <1>14,
     <1>15, <1>16

\* A list written out is its first element in front of the others.
LEMMA FirstInFront ==
  ASSUME NEW S, NEW t \in Seq(S), t # << >>
  PROVE  t = <<Head(t)>> \o Tail(t)
<1>1. Head(t) \in S /\ Tail(t) \in Seq(S) /\ Len(Tail(t)) = Len(t) - 1
      /\ \A i \in 1 .. Len(Tail(t)) : Tail(t)[i] = t[i + 1]
  BY HeadTailProperties
<1> DEFINE u == <<Head(t)>> \o Tail(t)
<1>2. /\ u \in Seq(S) /\ Len(u) = Len(t) /\ u[1] = t[1]
      /\ \A i \in 2 .. Len(t) : u[i] = t[i]
  BY <1>1
<1> HIDE DEF u
<1>3. \A i \in 1 .. Len(t) : u[i] = t[i]
  BY <1>2
<1>4. t = u
  BY <1>2, <1>3, SeqEqual
<1> QED
  BY <1>4 DEF u

\* The blocks as the code records them.
LEMMA MarkerIs ==
  ASSUME NEW s \in Nat
  PROVE  Passes!Marker(TRUE, s) = Left1(s)
<1> DEFINE a == Passes!Barrier("scene", "attachment", "read")
           b == Passes!Sample("scene", s)
           c == Passes!BlurPass("pingA", s)
           d == Passes!Barrier("pingA", "read", "read")
           e == Passes!Sample("pingA", s)
           f == Passes!BlurPass("pingB", s)
           g == Passes!Barrier("pingB", "read", "read")
           h == Passes!Barrier("scene", "read", "attachment")
           i == Passes!ScenePass(s + 1)
           j == Passes!Sample("pingB", s)
<1>i. /\ "scene" \in Passes!Image /\ "pingA" \in Passes!Image /\ "pingB" \in Passes!Image
      /\ "attachment" \in Passes!Layout /\ "read" \in Passes!Layout
      /\ 1 \in Nat /\ s + 1 \in Nat
  BY DEF Passes!Image, Passes!Layout
<1>d. /\ a \in GpuCommand /\ b \in GpuCommand /\ c \in GpuCommand /\ d \in GpuCommand
      /\ e \in GpuCommand /\ f \in GpuCommand /\ g \in GpuCommand /\ h \in GpuCommand
      /\ i \in GpuCommand /\ j \in GpuCommand
  BY <1>i, CommandsAre
<1>e. Passes!Marker(TRUE, s) = <<a, b, c, d, e, f, g, h>> \o <<i, j>>
  BY DEF Passes!Marker, Passes!Backdrop
<1>f. Left1(s) = <<a>> \o (<<b>> \o (<<c>> \o (<<d>> \o (<<e>> \o (<<f>> \o (<<g>> \o
                   (<<h>> \o (<<i>> \o <<j>>))))))))
  BY DEF Left1, Left2, Left3, Left4, Left5, Left6, Left7, Left8, Left9, Left10
<1> HIDE DEF a, b, c, d, e, f, g, h, i, j
<1>1. <<a, b, c, d, e, f, g, h>> \o <<i, j>> = <<a, b, c, d, e, f, g, h, i, j>>
  <2> DEFINE l == <<a, b, c, d, e, f, g, h>> \o <<i, j>>
             r == <<a, b, c, d, e, f, g, h, i, j>>
  <2>1. l \in Seq(GpuCommand) /\ Len(l) = 10
    BY <1>d
  <2>2. r \in Seq(GpuCommand) /\ Len(r) = 10
    BY <1>d
  <2>3. /\ l[1] = r[1] /\ l[2] = r[2] /\ l[3] = r[3] /\ l[4] = r[4] /\ l[5] = r[5]
        /\ l[6] = r[6] /\ l[7] = r[7] /\ l[8] = r[8] /\ l[9] = r[9] /\ l[10] = r[10]
    OBVIOUS
  <2>4. \A k \in 1 .. 10 : k = 1 \/ k = 2 \/ k = 3 \/ k = 4 \/ k = 5
                          \/ k = 6 \/ k = 7 \/ k = 8 \/ k = 9 \/ k = 10
    OBVIOUS
  <2> HIDE DEF l, r
  <2>5. \A k \in 1 .. 10 : l[k] = r[k]
    BY <2>3, <2>4
  <2>6. l = r
    BY <2>1, <2>2, <2>5, SeqEqual
  <2> QED
    BY <2>6 DEF l, r
<1>2. <<i, j>> = <<i>> \o <<j>>
  <2>1. /\ <<i, j>> \in Seq(GpuCommand) /\ <<i, j>> # << >>
        /\ Head(<<i, j>>) = i /\ Tail(<<i, j>>) = <<j>>
    BY <1>d
  <2> QED
    BY <2>1, FirstInFront
<1>3. <<h, i, j>> = <<h>> \o <<i, j>>
  <2>1. /\ <<h, i, j>> \in Seq(GpuCommand) /\ <<h, i, j>> # << >>
        /\ Head(<<h, i, j>>) = h /\ Tail(<<h, i, j>>) = <<i, j>>
    BY <1>d
  <2> QED
    BY <2>1, FirstInFront
<1>4. <<g, h, i, j>> = <<g>> \o <<h, i, j>>
  <2>1. /\ <<g, h, i, j>> \in Seq(GpuCommand) /\ <<g, h, i, j>> # << >>
        /\ Head(<<g, h, i, j>>) = g /\ Tail(<<g, h, i, j>>) = <<h, i, j>>
    BY <1>d
  <2> QED
    BY <2>1, FirstInFront
<1>5. <<f, g, h, i, j>> = <<f>> \o <<g, h, i, j>>
  <2>1. /\ <<f, g, h, i, j>> \in Seq(GpuCommand) /\ <<f, g, h, i, j>> # << >>
        /\ Head(<<f, g, h, i, j>>) = f /\ Tail(<<f, g, h, i, j>>) = <<g, h, i, j>>
    BY <1>d
  <2> QED
    BY <2>1, FirstInFront
<1>6. <<e, f, g, h, i, j>> = <<e>> \o <<f, g, h, i, j>>
  <2>1. /\ <<e, f, g, h, i, j>> \in Seq(GpuCommand) /\ <<e, f, g, h, i, j>> # << >>
        /\ Head(<<e, f, g, h, i, j>>) = e /\ Tail(<<e, f, g, h, i, j>>) = <<f, g, h, i, j>>
    BY <1>d
  <2> QED
    BY <2>1, FirstInFront
<1>7. <<d, e, f, g, h, i, j>> = <<d>> \o <<e, f, g, h, i, j>>
  <2>1. /\ <<d, e, f, g, h, i, j>> \in Seq(GpuCommand) /\ <<d, e, f, g, h, i, j>> # << >>
        /\ Head(<<d, e, f, g, h, i, j>>) = d /\ Tail(<<d, e, f, g, h, i, j>>) = <<e, f, g, h, i, j>>
    BY <1>d
  <2> QED
    BY <2>1, FirstInFront
<1>8. <<c, d, e, f, g, h, i, j>> = <<c>> \o <<d, e, f, g, h, i, j>>
  <2>1. /\ <<c, d, e, f, g, h, i, j>> \in Seq(GpuCommand) /\ <<c, d, e, f, g, h, i, j>> # << >>
        /\ Head(<<c, d, e, f, g, h, i, j>>) = c
        /\ Tail(<<c, d, e, f, g, h, i, j>>) = <<d, e, f, g, h, i, j>>
    BY <1>d
  <2> QED
    BY <2>1, FirstInFront
<1>9. <<b, c, d, e, f, g, h, i, j>> = <<b>> \o <<c, d, e, f, g, h, i, j>>
  <2>1. /\ <<b, c, d, e, f, g, h, i, j>> \in Seq(GpuCommand)
        /\ <<b, c, d, e, f, g, h, i, j>> # << >>
        /\ Head(<<b, c, d, e, f, g, h, i, j>>) = b
        /\ Tail(<<b, c, d, e, f, g, h, i, j>>) = <<c, d, e, f, g, h, i, j>>
    BY <1>d
  <2> QED
    BY <2>1, FirstInFront
<1>10. <<a, b, c, d, e, f, g, h, i, j>> = <<a>> \o <<b, c, d, e, f, g, h, i, j>>
  <2>1. /\ <<a, b, c, d, e, f, g, h, i, j>> \in Seq(GpuCommand)
        /\ <<a, b, c, d, e, f, g, h, i, j>> # << >>
        /\ Head(<<a, b, c, d, e, f, g, h, i, j>>) = a
        /\ Tail(<<a, b, c, d, e, f, g, h, i, j>>) = <<b, c, d, e, f, g, h, i, j>>
    BY <1>d
  <2> QED
    BY <2>1, FirstInFront
<1> QED
  BY <1>e, <1>f, <1>1, <1>2, <1>3, <1>4, <1>5, <1>6, <1>7, <1>8, <1>9, <1>10, Zenon

LEMMA StartIs ==
  << Passes!Barrier("scene", "read", "read"), Passes!Barrier("pingA", "read", "read"),
     Passes!Barrier("pingB", "read", "read") >> \o <<Passes!ScenePass(1)>> = Start1
<1> DEFINE a == Passes!Barrier("scene", "read", "read")
           b == Passes!Barrier("pingA", "read", "read")
           c == Passes!Barrier("pingB", "read", "read")
           d == Passes!ScenePass(1)
<1>i. /\ "scene" \in Passes!Image /\ "pingA" \in Passes!Image /\ "pingB" \in Passes!Image
      /\ "attachment" \in Passes!Layout /\ "read" \in Passes!Layout
      /\ 1 \in Nat
  BY DEF Passes!Image, Passes!Layout
<1>d. a \in GpuCommand /\ b \in GpuCommand /\ c \in GpuCommand /\ d \in GpuCommand
  BY <1>i, CommandsAre
<1>e. Start1 = <<a>> \o (<<b>> \o (<<c>> \o <<d>>))
  BY DEF Start1, Start2, Start3, Start4
<1>f. << Passes!Barrier("scene", "read", "read"), Passes!Barrier("pingA", "read", "read"),
         Passes!Barrier("pingB", "read", "read") >> \o <<Passes!ScenePass(1)>>
        = <<a, b, c>> \o <<d>>
  OBVIOUS
<1> HIDE DEF a, b, c, d
<1>1. <<a, b, c>> \o <<d>> = <<a, b, c, d>>
  <2> DEFINE l == <<a, b, c>> \o <<d>>
             r == <<a, b, c, d>>
  <2>1. l \in Seq(GpuCommand) /\ Len(l) = 4
    BY <1>d
  <2>2. r \in Seq(GpuCommand) /\ Len(r) = 4
    BY <1>d
  <2>3. /\ l[1] = r[1] /\ l[2] = r[2] /\ l[3] = r[3] /\ l[4] = r[4]
    OBVIOUS
  <2>4. \A k \in 1 .. 4 : k = 1 \/ k = 2 \/ k = 3 \/ k = 4
    OBVIOUS
  <2> HIDE DEF l, r
  <2>5. \A k \in 1 .. 4 : l[k] = r[k]
    BY <2>3, <2>4
  <2>6. l = r
    BY <2>1, <2>2, <2>5, SeqEqual
  <2> QED
    BY <2>6 DEF l, r
<1>2. <<c, d>> = <<c>> \o <<d>>
  <2>1. /\ <<c, d>> \in Seq(GpuCommand) /\ <<c, d>> # << >>
        /\ Head(<<c, d>>) = c /\ Tail(<<c, d>>) = <<d>>
    BY <1>d
  <2> QED
    BY <2>1, FirstInFront
<1>3. <<b, c, d>> = <<b>> \o <<c, d>>
  <2>1. /\ <<b, c, d>> \in Seq(GpuCommand) /\ <<b, c, d>> # << >>
        /\ Head(<<b, c, d>>) = b /\ Tail(<<b, c, d>>) = <<c, d>>
    BY <1>d
  <2> QED
    BY <2>1, FirstInFront
<1>4. <<a, b, c, d>> = <<a>> \o <<b, c, d>>
  <2>1. /\ <<a, b, c, d>> \in Seq(GpuCommand) /\ <<a, b, c, d>> # << >>
        /\ Head(<<a, b, c, d>>) = a /\ Tail(<<a, b, c, d>>) = <<b, c, d>>
    BY <1>d
  <2> QED
    BY <2>1, FirstInFront
<1> QED
  BY <1>e, <1>f, <1>1, <1>2, <1>3, <1>4, Zenon

LEMMA BlocksAre ==
  ASSUME NEW s \in Nat
  PROVE  /\ Passes!Marker(FALSE, s) = <<Passes!ScenePass(s + 1)>>
         /\ Passes!Finish(s) = End1(s)
         /\ << >> \o <<Passes!ScenePass(1)>> = Start4
  BY DEF Passes!Marker, Passes!Finish, End1, End2, Start4

(***************************************************************************)
(* What a step does to the images, and where it leaves the commands.       *)
(***************************************************************************)

LEMMA BarrierDoes ==
  ASSUME NEW i \in Passes!Image, NEW f \in Passes!Layout, NEW t \in Passes!Layout,
         commands # << >>, Head(commands) = Passes!Barrier(i, f, t), Passes!Next
  PROVE  /\ layout' = [layout EXCEPT ![i] = t] /\ sampled' = {} /\ visible' = visible \cup {i}
         /\ content' = content /\ frame' = frame /\ offscreenUsedOnce' = offscreenUsedOnce
         /\ Passes!GoOn
<1>1. Head(commands).op = "barrier" /\ Head(commands).image = i /\ Head(commands).to = t
  BY DEF Passes!Barrier
<1> QED
  BY <1>1 DEF Passes!Next, Passes!Record, Passes!Recreate, Passes!ExecuteBarrier,
     Passes!ExecutePass, Passes!ExecuteSample, Passes!Is, Passes!Command

LEMMA PassDoes ==
  ASSUME NEW i \in Passes!Image, NEW f \in Passes!Layout, NEW t \in Passes!Layout, NEW p \in Nat,
         commands # << >>, Head(commands) = Passes!Pass(i, f, t, p), Passes!Next
  PROVE  /\ layout' = [layout EXCEPT ![i] = t] /\ sampled' = sampled /\ visible' = visible \ {i}
         /\ content' = [content EXCEPT ![i] = [frame |-> frame, part |-> p]]
         /\ frame' = frame /\ offscreenUsedOnce' = offscreenUsedOnce
         /\ Passes!GoOn
<1>1. /\ Head(commands).op = "pass" /\ Head(commands).image = i /\ Head(commands).to = t
      /\ Head(commands).part = p
  BY DEF Passes!Pass
<1> QED
  BY <1>1 DEF Passes!Next, Passes!Record, Passes!Recreate, Passes!ExecuteBarrier,
     Passes!ExecutePass, Passes!ExecuteSample, Passes!Is, Passes!Command

LEMMA SampleDoes ==
  ASSUME NEW i \in Passes!Image, NEW p \in Nat,
         commands # << >>, Head(commands) = Passes!Sample(i, p), Passes!Next
  PROVE  /\ layout' = layout /\ sampled' = sampled \cup {i} /\ visible' = visible
         /\ content' = content /\ frame' = frame /\ offscreenUsedOnce' = offscreenUsedOnce
         /\ Passes!GoOn
<1>1. Head(commands).op = "sample" /\ Head(commands).image = i
  BY DEF Passes!Sample
<1> QED
  BY <1>1 DEF Passes!Next, Passes!Record, Passes!Recreate, Passes!ExecuteBarrier,
     Passes!ExecutePass, Passes!ExecuteSample, Passes!Is, Passes!Command

LEMMA GoesOn ==
  ASSUME Tail(commands) # << >>, Passes!GoOn
  PROVE  commands' = Tail(commands) /\ ahead' = ahead /\ drawing' = drawing
  BY DEF Passes!GoOn

\* At the end of a block: the next marker, on the screen or not, or the end.
LEMMA NextBlock ==
  ASSUME Tail(commands) = << >>, Passes!GoOn, ahead \in Seq(BOOLEAN),
         drawing \in Nat \ {0}
  PROVE  /\ ahead' \in Seq(BOOLEAN)
         /\ \/ /\ drawing' = drawing + 1
               /\ commands' \in {Left1(drawing), <<Passes!ScenePass(drawing + 1)>>}
            \/ drawing' = 0 /\ ahead' = << >> /\ commands' = End1(drawing)
<1>1. CASE ahead # << >>
  <2>1. Head(ahead) \in BOOLEAN /\ Tail(ahead) \in Seq(BOOLEAN)
    BY <1>1
  <2>2. commands' = Passes!Marker(Head(ahead), drawing) /\ ahead' = Tail(ahead)
        /\ drawing' = drawing + 1
    BY <1>1 DEF Passes!GoOn
  <2>3. CASE Head(ahead) = TRUE
    BY <2>1, <2>2, <2>3, MarkerIs
  <2>4. CASE Head(ahead) = FALSE
    BY <2>1, <2>2, <2>4, BlocksAre
  <2> QED
    BY <2>1, <2>3, <2>4
<1>2. CASE ahead = << >>
  <2>1. commands' = Passes!Finish(drawing) /\ ahead' = ahead /\ drawing' = 0
    BY <1>2 DEF Passes!GoOn
  <2> QED
    BY <1>2, <2>1, BlocksAre
<1> QED
  BY <1>1, <1>2

LEMMA Left1Step ==
  ASSUME PassTypes, NEW s \in Nat \ {0}, commands = Left1(s), Passes!Next,
         Shows("scene", "attachment", s)
  PROVE  /\ PassTypes' /\ InMarker(s)' /\ offscreenUsedOnce' = offscreenUsedOnce
         /\ ahead' = ahead /\ drawing' = drawing
<1>0. /\ "scene" \in Passes!Image /\ "pingA" \in Passes!Image /\ "pingB" \in Passes!Image
      /\ "attachment" \in Passes!Layout /\ "read" \in Passes!Layout /\ "undefined" \in Passes!Layout
      /\ "scene" # "pingA" /\ "scene" # "pingB" /\ "pingA" # "pingB"
  BY DEF Passes!Image, Passes!Layout
<1>1. /\ commands # << >> /\ Head(commands) = Passes!Barrier("scene", "attachment", "read")
      /\ Tail(commands) = Left2(s) /\ Tail(commands) # << >>
  BY BlocksUnroll
<1>2. /\ layout' = [layout EXCEPT !["scene"] = "read"] /\ sampled' = {}
      /\ visible' = visible \cup {"scene"} /\ content' = content /\ frame' = frame
      /\ offscreenUsedOnce' = offscreenUsedOnce /\ Passes!GoOn
  BY <1>0, <1>1, BarrierDoes
<1>3. commands' = Left2(s) /\ ahead' = ahead /\ drawing' = drawing
  BY <1>1, <1>2, GoesOn
<1>4. PassTypes'
  BY <1>0, <1>2 DEF PassTypes
<1>5. InMarker(s)'
  BY <1>0, <1>2, <1>3 DEF PassTypes, InMarker, Shows
<1> QED
  BY <1>2, <1>3, <1>4, <1>5

LEMMA Left2Step ==
  ASSUME PassTypes, NEW s \in Nat \ {0}, commands = Left2(s), Passes!Next,
         Shows("scene", "read", s), "scene" \in visible, sampled = {}
  PROVE  /\ PassTypes' /\ InMarker(s)' /\ offscreenUsedOnce' = offscreenUsedOnce
         /\ ahead' = ahead /\ drawing' = drawing
<1>0. /\ "scene" \in Passes!Image /\ "pingA" \in Passes!Image /\ "pingB" \in Passes!Image
      /\ "attachment" \in Passes!Layout /\ "read" \in Passes!Layout /\ "undefined" \in Passes!Layout
      /\ "scene" # "pingA" /\ "scene" # "pingB" /\ "pingA" # "pingB"
  BY DEF Passes!Image, Passes!Layout
<1>1. /\ commands # << >> /\ Head(commands) = Passes!Sample("scene", s)
      /\ Tail(commands) = Left3(s) /\ Tail(commands) # << >>
  BY BlocksUnroll
<1>2. /\ layout' = layout /\ sampled' = sampled \cup {"scene"}
      /\ visible' = visible /\ content' = content /\ frame' = frame
      /\ offscreenUsedOnce' = offscreenUsedOnce /\ Passes!GoOn
  BY <1>0, <1>1, SampleDoes
<1>3. commands' = Left3(s) /\ ahead' = ahead /\ drawing' = drawing
  BY <1>1, <1>2, GoesOn
<1>4. PassTypes'
  BY <1>0, <1>2 DEF PassTypes
<1>5. InMarker(s)'
  BY <1>0, <1>2, <1>3 DEF PassTypes, InMarker, Shows
<1> QED
  BY <1>2, <1>3, <1>4, <1>5

LEMMA Left3Step ==
  ASSUME PassTypes, NEW s \in Nat \ {0}, commands = Left3(s), Passes!Next,
         Shows("scene", "read", s), sampled = {"scene"}
  PROVE  /\ PassTypes' /\ InMarker(s)' /\ offscreenUsedOnce' = offscreenUsedOnce
         /\ ahead' = ahead /\ drawing' = drawing
<1>0. /\ "scene" \in Passes!Image /\ "pingA" \in Passes!Image /\ "pingB" \in Passes!Image
      /\ "attachment" \in Passes!Layout /\ "read" \in Passes!Layout /\ "undefined" \in Passes!Layout
      /\ "scene" # "pingA" /\ "scene" # "pingB" /\ "pingA" # "pingB"
  BY DEF Passes!Image, Passes!Layout
<1>1. /\ commands # << >> /\ Head(commands) = Passes!Pass("pingA", "undefined", "read", s)
      /\ Tail(commands) = Left4(s) /\ Tail(commands) # << >>
  BY BlocksUnroll DEF Passes!BlurPass
<1>2. /\ layout' = [layout EXCEPT !["pingA"] = "read"] /\ sampled' = sampled
      /\ visible' = visible \ {"pingA"} /\ frame' = frame
      /\ content' = [content EXCEPT !["pingA"] = [frame |-> frame, part |-> s]]
      /\ offscreenUsedOnce' = offscreenUsedOnce /\ Passes!GoOn
  BY <1>0, <1>1, PassDoes
<1>3. commands' = Left4(s) /\ ahead' = ahead /\ drawing' = drawing
  BY <1>1, <1>2, GoesOn
<1>4. PassTypes'
  BY <1>0, <1>2 DEF PassTypes
<1>5. InMarker(s)'
  BY <1>0, <1>2, <1>3 DEF PassTypes, InMarker, Shows
<1> QED
  BY <1>2, <1>3, <1>4, <1>5

LEMMA Left4Step ==
  ASSUME PassTypes, NEW s \in Nat \ {0}, commands = Left4(s), Passes!Next,
         Shows("scene", "read", s), Shows("pingA", "read", s)
  PROVE  /\ PassTypes' /\ InMarker(s)' /\ offscreenUsedOnce' = offscreenUsedOnce
         /\ ahead' = ahead /\ drawing' = drawing
<1>0. /\ "scene" \in Passes!Image /\ "pingA" \in Passes!Image /\ "pingB" \in Passes!Image
      /\ "attachment" \in Passes!Layout /\ "read" \in Passes!Layout /\ "undefined" \in Passes!Layout
      /\ "scene" # "pingA" /\ "scene" # "pingB" /\ "pingA" # "pingB"
  BY DEF Passes!Image, Passes!Layout
<1>1. /\ commands # << >> /\ Head(commands) = Passes!Barrier("pingA", "read", "read")
      /\ Tail(commands) = Left5(s) /\ Tail(commands) # << >>
  BY BlocksUnroll
<1>2. /\ layout' = [layout EXCEPT !["pingA"] = "read"] /\ sampled' = {}
      /\ visible' = visible \cup {"pingA"} /\ content' = content /\ frame' = frame
      /\ offscreenUsedOnce' = offscreenUsedOnce /\ Passes!GoOn
  BY <1>0, <1>1, BarrierDoes
<1>3. commands' = Left5(s) /\ ahead' = ahead /\ drawing' = drawing
  BY <1>1, <1>2, GoesOn
<1>4. PassTypes'
  BY <1>0, <1>2 DEF PassTypes
<1>5. InMarker(s)'
  BY <1>0, <1>2, <1>3 DEF PassTypes, InMarker, Shows
<1> QED
  BY <1>2, <1>3, <1>4, <1>5

LEMMA Left5Step ==
  ASSUME PassTypes, NEW s \in Nat \ {0}, commands = Left5(s), Passes!Next,
         Shows("scene", "read", s), Shows("pingA", "read", s), "pingA" \in visible, sampled = {}
  PROVE  /\ PassTypes' /\ InMarker(s)' /\ offscreenUsedOnce' = offscreenUsedOnce
         /\ ahead' = ahead /\ drawing' = drawing
<1>0. /\ "scene" \in Passes!Image /\ "pingA" \in Passes!Image /\ "pingB" \in Passes!Image
      /\ "attachment" \in Passes!Layout /\ "read" \in Passes!Layout /\ "undefined" \in Passes!Layout
      /\ "scene" # "pingA" /\ "scene" # "pingB" /\ "pingA" # "pingB"
  BY DEF Passes!Image, Passes!Layout
<1>1. /\ commands # << >> /\ Head(commands) = Passes!Sample("pingA", s)
      /\ Tail(commands) = Left6(s) /\ Tail(commands) # << >>
  BY BlocksUnroll
<1>2. /\ layout' = layout /\ sampled' = sampled \cup {"pingA"}
      /\ visible' = visible /\ content' = content /\ frame' = frame
      /\ offscreenUsedOnce' = offscreenUsedOnce /\ Passes!GoOn
  BY <1>0, <1>1, SampleDoes
<1>3. commands' = Left6(s) /\ ahead' = ahead /\ drawing' = drawing
  BY <1>1, <1>2, GoesOn
<1>4. PassTypes'
  BY <1>0, <1>2 DEF PassTypes
<1>5. InMarker(s)'
  BY <1>0, <1>2, <1>3 DEF PassTypes, InMarker, Shows
<1> QED
  BY <1>2, <1>3, <1>4, <1>5

LEMMA Left6Step ==
  ASSUME PassTypes, NEW s \in Nat \ {0}, commands = Left6(s), Passes!Next,
         Shows("scene", "read", s), sampled = {"pingA"}
  PROVE  /\ PassTypes' /\ InMarker(s)' /\ offscreenUsedOnce' = offscreenUsedOnce
         /\ ahead' = ahead /\ drawing' = drawing
<1>0. /\ "scene" \in Passes!Image /\ "pingA" \in Passes!Image /\ "pingB" \in Passes!Image
      /\ "attachment" \in Passes!Layout /\ "read" \in Passes!Layout /\ "undefined" \in Passes!Layout
      /\ "scene" # "pingA" /\ "scene" # "pingB" /\ "pingA" # "pingB"
  BY DEF Passes!Image, Passes!Layout
<1>1. /\ commands # << >> /\ Head(commands) = Passes!Pass("pingB", "undefined", "read", s)
      /\ Tail(commands) = Left7(s) /\ Tail(commands) # << >>
  BY BlocksUnroll DEF Passes!BlurPass
<1>2. /\ layout' = [layout EXCEPT !["pingB"] = "read"] /\ sampled' = sampled
      /\ visible' = visible \ {"pingB"} /\ frame' = frame
      /\ content' = [content EXCEPT !["pingB"] = [frame |-> frame, part |-> s]]
      /\ offscreenUsedOnce' = offscreenUsedOnce /\ Passes!GoOn
  BY <1>0, <1>1, PassDoes
<1>3. commands' = Left7(s) /\ ahead' = ahead /\ drawing' = drawing
  BY <1>1, <1>2, GoesOn
<1>4. PassTypes'
  BY <1>0, <1>2 DEF PassTypes
<1>5. InMarker(s)'
  BY <1>0, <1>2, <1>3 DEF PassTypes, InMarker, Shows
<1> QED
  BY <1>2, <1>3, <1>4, <1>5

LEMMA Left7Step ==
  ASSUME PassTypes, NEW s \in Nat \ {0}, commands = Left7(s), Passes!Next,
         Shows("scene", "read", s), Shows("pingB", "read", s)
  PROVE  /\ PassTypes' /\ InMarker(s)' /\ offscreenUsedOnce' = offscreenUsedOnce
         /\ ahead' = ahead /\ drawing' = drawing
<1>0. /\ "scene" \in Passes!Image /\ "pingA" \in Passes!Image /\ "pingB" \in Passes!Image
      /\ "attachment" \in Passes!Layout /\ "read" \in Passes!Layout /\ "undefined" \in Passes!Layout
      /\ "scene" # "pingA" /\ "scene" # "pingB" /\ "pingA" # "pingB"
  BY DEF Passes!Image, Passes!Layout
<1>1. /\ commands # << >> /\ Head(commands) = Passes!Barrier("pingB", "read", "read")
      /\ Tail(commands) = Left8(s) /\ Tail(commands) # << >>
  BY BlocksUnroll
<1>2. /\ layout' = [layout EXCEPT !["pingB"] = "read"] /\ sampled' = {}
      /\ visible' = visible \cup {"pingB"} /\ content' = content /\ frame' = frame
      /\ offscreenUsedOnce' = offscreenUsedOnce /\ Passes!GoOn
  BY <1>0, <1>1, BarrierDoes
<1>3. commands' = Left8(s) /\ ahead' = ahead /\ drawing' = drawing
  BY <1>1, <1>2, GoesOn
<1>4. PassTypes'
  BY <1>0, <1>2 DEF PassTypes
<1>5. InMarker(s)'
  BY <1>0, <1>2, <1>3 DEF PassTypes, InMarker, Shows
<1> QED
  BY <1>2, <1>3, <1>4, <1>5

LEMMA Left8Step ==
  ASSUME PassTypes, NEW s \in Nat \ {0}, commands = Left8(s), Passes!Next,
         Shows("scene", "read", s), Shows("pingB", "read", s), "pingB" \in visible
  PROVE  /\ PassTypes' /\ InMarker(s)' /\ offscreenUsedOnce' = offscreenUsedOnce
         /\ ahead' = ahead /\ drawing' = drawing
<1>0. /\ "scene" \in Passes!Image /\ "pingA" \in Passes!Image /\ "pingB" \in Passes!Image
      /\ "attachment" \in Passes!Layout /\ "read" \in Passes!Layout /\ "undefined" \in Passes!Layout
      /\ "scene" # "pingA" /\ "scene" # "pingB" /\ "pingA" # "pingB"
  BY DEF Passes!Image, Passes!Layout
<1>1. /\ commands # << >> /\ Head(commands) = Passes!Barrier("scene", "read", "attachment")
      /\ Tail(commands) = Left9(s) /\ Tail(commands) # << >>
  BY BlocksUnroll
<1>2. /\ layout' = [layout EXCEPT !["scene"] = "attachment"] /\ sampled' = {}
      /\ visible' = visible \cup {"scene"} /\ content' = content /\ frame' = frame
      /\ offscreenUsedOnce' = offscreenUsedOnce /\ Passes!GoOn
  BY <1>0, <1>1, BarrierDoes
<1>3. commands' = Left9(s) /\ ahead' = ahead /\ drawing' = drawing
  BY <1>1, <1>2, GoesOn
<1>4. PassTypes'
  BY <1>0, <1>2 DEF PassTypes
<1>5. InMarker(s)'
  BY <1>0, <1>2, <1>3 DEF PassTypes, InMarker, Shows
<1> QED
  BY <1>2, <1>3, <1>4, <1>5

LEMMA Left9Step ==
  ASSUME PassTypes, NEW s \in Nat \ {0}, commands = Left9(s), Passes!Next,
         Shows("scene", "attachment", s), Shows("pingB", "read", s),
         "pingB" \in visible, sampled = {}
  PROVE  /\ PassTypes' /\ InMarker(s)' /\ offscreenUsedOnce' = offscreenUsedOnce
         /\ ahead' = ahead /\ drawing' = drawing
<1>0. /\ "scene" \in Passes!Image /\ "pingA" \in Passes!Image /\ "pingB" \in Passes!Image
      /\ "attachment" \in Passes!Layout /\ "read" \in Passes!Layout /\ "undefined" \in Passes!Layout
      /\ "scene" # "pingA" /\ "scene" # "pingB" /\ "pingA" # "pingB"
  BY DEF Passes!Image, Passes!Layout
<1>n. s + 1 \in Nat /\ s + 1 # 1
  OBVIOUS
<1>1. /\ commands # << >>
      /\ Head(commands) = Passes!Pass("scene", "attachment", "attachment", s + 1)
      /\ Tail(commands) = Left10(s) /\ Tail(commands) # << >>
  BY <1>n, BlocksUnroll DEF Passes!ScenePass
<1>2. /\ layout' = [layout EXCEPT !["scene"] = "attachment"] /\ sampled' = sampled
      /\ visible' = visible \ {"scene"} /\ frame' = frame
      /\ content' = [content EXCEPT !["scene"] = [frame |-> frame, part |-> s + 1]]
      /\ offscreenUsedOnce' = offscreenUsedOnce /\ Passes!GoOn
  BY <1>0, <1>1, <1>n, PassDoes
<1>3. commands' = Left10(s) /\ ahead' = ahead /\ drawing' = drawing
  BY <1>1, <1>2, GoesOn
<1>4. PassTypes'
  BY <1>0, <1>2 DEF PassTypes
<1>5. InMarker(s)'
  BY <1>0, <1>2, <1>3 DEF PassTypes, InMarker, Shows
<1> QED
  BY <1>2, <1>3, <1>4, <1>5

\* Where a block ends that has drawn the scene up to a segment.
LEMMA DrawnStep ==
  ASSUME PassTypes', Tail(commands) = << >>, Passes!GoOn, ahead \in Seq(BOOLEAN),
         NEW s \in Nat \ {0}, drawing = s, layout'["scene"] = "attachment",
         content'["scene"] = [frame |-> frame', part |-> s],
         "scene" \notin sampled', offscreenUsedOnce' = TRUE
  PROVE  PassInv'
<1>1. /\ ahead' \in Seq(BOOLEAN)
      /\ \/ drawing' = s + 1 /\ commands' \in {Left1(s), <<Passes!ScenePass(s + 1)>>}
         \/ drawing' = 0 /\ ahead' = << >> /\ commands' = End1(s)
  BY NextBlock
<1>2. CASE drawing' = s + 1 /\ commands' \in {Left1(s), <<Passes!ScenePass(s + 1)>>}
  <2>1. drawing' - 1 = s
    BY <1>2
  <2>2. InMarker(s)'
    BY <1>2 DEF InMarker, Shows
  <2>3. InMarker(drawing - 1)'
    BY <2>1, <2>2 DEF InMarker, Shows
  <2> QED
    BY <1>1, <2>1, <2>3 DEF PassInv
<1>3. CASE drawing' = 0 /\ ahead' = << >> /\ commands' = End1(s)
  <2>1. InEnd(s)'
    BY <1>3 DEF InEnd, Shows
  <2> QED
    BY <1>1, <1>3, <2>1 DEF PassInv
<1> QED
  BY <1>1, <1>2, <1>3

LEMMA Left10Step ==
  ASSUME PassInv, PassTypes, NEW s \in Nat \ {0}, drawing = s + 1, commands = Left10(s),
         Passes!Next, Shows("scene", "attachment", s + 1), sampled = {},
         offscreenUsedOnce = TRUE
  PROVE  PassInv'
<1>0. /\ "scene" \in Passes!Image /\ "pingA" \in Passes!Image /\ "pingB" \in Passes!Image
      /\ "attachment" \in Passes!Layout /\ "read" \in Passes!Layout
      /\ "undefined" \in Passes!Layout
      /\ "scene" # "pingA" /\ "scene" # "pingB" /\ "pingA" # "pingB"
  BY DEF Passes!Image, Passes!Layout
<1>1. /\ commands # << >> /\ Head(commands) = Passes!Sample("pingB", s)
      /\ Tail(commands) = << >>
  BY BlocksUnroll
<1>2. /\ layout' = layout /\ sampled' = sampled \cup {"pingB"}
      /\ visible' = visible /\ content' = content /\ frame' = frame
      /\ offscreenUsedOnce' = offscreenUsedOnce /\ Passes!GoOn
  BY <1>0, <1>1, SampleDoes
<1>3. PassTypes'
  BY <1>0, <1>2 DEF PassTypes
<1>4. ahead \in Seq(BOOLEAN) /\ s + 1 \in Nat \ {0}
  BY DEF PassInv
<1>5. layout'["scene"] = "attachment" /\ content'["scene"] = [frame |-> frame', part |-> s + 1]
      /\ "scene" \notin sampled'
  BY <1>0, <1>2 DEF Shows
<1> QED
  BY <1>1, <1>2, <1>3, <1>4, <1>5, DrawnStep

LEMMA SceneDoes ==
  ASSUME NEW s \in Nat \ {0}, commands # << >>, Head(commands) = Passes!ScenePass(s),
         Passes!Next
  PROVE  /\ layout' = [layout EXCEPT !["scene"] = "attachment"] /\ sampled' = sampled
         /\ visible' = visible \ {"scene"} /\ frame' = frame
         /\ content' = [content EXCEPT !["scene"] = [frame |-> frame, part |-> s]]
         /\ offscreenUsedOnce' = offscreenUsedOnce /\ Passes!GoOn
<1>1. PICK from \in Passes!Layout :
        Passes!ScenePass(s) = Passes!Pass("scene", from, "attachment", s)
  BY DEF Passes!ScenePass, Passes!Layout
<1>2. "scene" \in Passes!Image /\ "attachment" \in Passes!Layout /\ s \in Nat
  BY DEF Passes!Image, Passes!Layout
<1>3. Head(commands) = Passes!Pass("scene", from, "attachment", s)
  BY <1>1
<1> QED
  BY <1>2, <1>3, PassDoes

\* A segment behind a region off the screen, and the first of a frame.
LEMMA SceneStep ==
  ASSUME PassInv, PassTypes, NEW s \in Nat \ {0}, drawing = s,
         commands # << >>, Head(commands) = Passes!ScenePass(s), Tail(commands) = << >>,
         Passes!Next, "scene" \notin sampled, offscreenUsedOnce = TRUE
  PROVE  PassInv'
<1>0. /\ "scene" \in Passes!Image /\ "pingA" \in Passes!Image /\ "pingB" \in Passes!Image
      /\ "attachment" \in Passes!Layout /\ "read" \in Passes!Layout
      /\ "undefined" \in Passes!Layout
      /\ "scene" # "pingA" /\ "scene" # "pingB" /\ "pingA" # "pingB"
  BY DEF Passes!Image, Passes!Layout
<1>2. /\ layout' = [layout EXCEPT !["scene"] = "attachment"] /\ sampled' = sampled
      /\ visible' = visible \ {"scene"} /\ frame' = frame
      /\ content' = [content EXCEPT !["scene"] = [frame |-> frame, part |-> s]]
      /\ offscreenUsedOnce' = offscreenUsedOnce /\ Passes!GoOn
  BY SceneDoes
<1>3. PassTypes'
  BY <1>0, <1>2 DEF PassTypes
<1>4. ahead \in Seq(BOOLEAN)
  BY DEF PassInv
<1>5. layout'["scene"] = "attachment" /\ content'["scene"] = [frame |-> frame', part |-> s]
      /\ "scene" \notin sampled'
  BY <1>0, <1>2 DEF PassTypes
<1> QED
  BY <1>2, <1>3, <1>4, <1>5, DrawnStep

LEMMA MarkerStep ==
  ASSUME PassInv, PassTypes, NEW s \in Nat \ {0}, drawing = s + 1, InMarker(s), Passes!Next,
         offscreenUsedOnce = TRUE
  PROVE  PassInv'
<1>1. ASSUME InMarker(s)', PassTypes', offscreenUsedOnce' = offscreenUsedOnce, ahead' = ahead,
             drawing' = drawing
      PROVE  PassInv'
  <2>1. InMarker(drawing - 1)'
    <3>1. drawing' - 1 = s
      BY <1>1
    <3> QED
      BY <1>1, <3>1 DEF InMarker, Shows
  <2>2. drawing' - 1 \in Nat \ {0}
    BY <1>1
  <2> QED
    BY <1>1, <2>1, <2>2 DEF PassInv
<1>2. CASE commands = Left10(s) /\ Shows("scene", "attachment", s + 1) /\ sampled = {}
  BY <1>2, Left10Step
<1>3. CASE commands = <<Passes!ScenePass(s + 1)>> /\ "scene" \notin sampled
  <2>1. s + 1 \in Nat \ {0}
    OBVIOUS
  <2>2. /\ commands # << >> /\ Head(commands) = Passes!ScenePass(s + 1)
        /\ Tail(commands) = << >>
    BY <1>3
  <2> QED
    BY <1>3, <2>1, <2>2, SceneStep
<1> QED
  BY <1>1, <1>2, <1>3, Left1Step, Left2Step, Left3Step, Left4Step, Left5Step, Left6Step,
     Left7Step, Left8Step, Left9Step DEF InMarker

LEMMA StartStep ==
  ASSUME PassInv, PassTypes, drawing = 1, InStart, Passes!Next, offscreenUsedOnce = TRUE
  PROVE  PassInv'
<1>0. /\ "scene" \in Passes!Image /\ "pingA" \in Passes!Image /\ "pingB" \in Passes!Image
      /\ "attachment" \in Passes!Layout /\ "read" \in Passes!Layout
      /\ "undefined" \in Passes!Layout
      /\ "scene" # "pingA" /\ "scene" # "pingB" /\ "pingA" # "pingB"
  BY DEF Passes!Image, Passes!Layout
<1>1. ASSUME NEW i \in Passes!Image, NEW rest, rest \in {Start2, Start3, Start4},
             commands # << >>, Head(commands) = Passes!Barrier(i, "read", "read"),
             Tail(commands) = rest
      PROVE  PassInv'
  <2>1. rest # << >>
    <3>1. 1 \in Nat
      OBVIOUS
    <3> QED
      BY <1>1, <3>1, BlocksUnroll
  <2>2. /\ layout' = [layout EXCEPT ![i] = "read"] /\ sampled' = {} /\ visible' = visible \cup {i}
        /\ content' = content /\ offscreenUsedOnce' = offscreenUsedOnce /\ Passes!GoOn
    BY <1>0, <1>1, BarrierDoes
  <2>3. commands' = rest /\ ahead' = ahead /\ drawing' = drawing
    BY <1>1, <2>1, <2>2, GoesOn
  <2>4. PassTypes'
    BY <1>0, <2>2 DEF PassTypes
  <2>5. InStart'
    BY <1>1, <2>2, <2>3 DEF InStart
  <2> QED
    BY <2>2, <2>3, <2>4, <2>5 DEF PassInv
<1>2. CASE commands = Start4 /\ sampled = {}
  <2>1. /\ commands # << >> /\ Head(commands) = Passes!ScenePass(1)
        /\ Tail(commands) = << >> /\ 1 \in Nat \ {0}
    BY <1>2 DEF Start4
  <2> QED
    BY <1>2, <2>1, SceneStep
<1>3. 1 \in Nat
  OBVIOUS
<1>4. CASE commands = Start1
  BY <1>0, <1>1, <1>3, <1>4, BlocksUnroll
<1>5. CASE commands = Start2
  BY <1>0, <1>1, <1>3, <1>5, BlocksUnroll
<1>6. CASE commands = Start3
  BY <1>0, <1>1, <1>3, <1>6, BlocksUnroll
<1> QED
  BY <1>2, <1>4, <1>5, <1>6 DEF InStart

LEMMA EndStep ==
  ASSUME PassInv, PassTypes, drawing = 0, ahead = << >>, NEW s \in Nat \ {0}, InEnd(s),
         Passes!Next, offscreenUsedOnce = TRUE
  PROVE  PassInv'
<1>0. /\ "scene" \in Passes!Image /\ "pingA" \in Passes!Image /\ "pingB" \in Passes!Image
      /\ "attachment" \in Passes!Layout /\ "read" \in Passes!Layout
      /\ "undefined" \in Passes!Layout
      /\ "scene" # "pingA" /\ "scene" # "pingB" /\ "pingA" # "pingB"
  BY DEF Passes!Image, Passes!Layout
<1>1. CASE commands = End1(s) /\ Shows("scene", "attachment", s)
  <2>1. /\ commands # << >> /\ Head(commands) = Passes!Barrier("scene", "attachment", "read")
        /\ Tail(commands) = End2(s) /\ Tail(commands) # << >>
    BY <1>1, BlocksUnroll
  <2>2. /\ layout' = [layout EXCEPT !["scene"] = "read"] /\ sampled' = {}
        /\ visible' = visible \cup {"scene"} /\ content' = content /\ frame' = frame
        /\ offscreenUsedOnce' = offscreenUsedOnce /\ Passes!GoOn
    BY <1>0, <2>1, BarrierDoes
  <2>3. commands' = End2(s) /\ ahead' = ahead /\ drawing' = drawing
    BY <2>1, <2>2, GoesOn
  <2>4. PassTypes'
    BY <1>0, <2>2 DEF PassTypes
  <2>5. InEnd(s)'
    BY <1>0, <1>1, <2>2, <2>3 DEF InEnd, Shows, PassTypes
  <2> QED
    BY <2>2, <2>3, <2>4, <2>5 DEF PassInv
<1>2. CASE commands = End2(s)
  <2>1. /\ commands # << >> /\ Head(commands) = Passes!Sample("scene", s)
        /\ Tail(commands) = << >>
    BY <1>2, BlocksUnroll
  <2>2. /\ layout' = layout /\ sampled' = sampled \cup {"scene"} /\ visible' = visible
        /\ content' = content /\ offscreenUsedOnce' = offscreenUsedOnce /\ Passes!GoOn
    BY <1>0, <2>1, SampleDoes
  <2>3. commands' = << >> /\ ahead' = << >> /\ drawing' = 0
    BY <2>1, <2>2 DEF Passes!GoOn
  <2>4. PassTypes'
    BY <1>0, <2>2 DEF PassTypes
  <2> QED
    BY <2>2, <2>3, <2>4 DEF PassInv
<1> QED
  BY <1>1, <1>2 DEF InEnd

LEMMA IdleStep ==
  ASSUME PassInv, PassTypes, commands = << >>, offscreenUsedOnce \/ sampled = {}, Passes!Next
  PROVE  PassInv'
<1>1. CASE Passes!Record
  <2>1. /\ layout' = layout /\ content' = content /\ sampled' = sampled /\ visible' = visible
        /\ offscreenUsedOnce' = TRUE /\ drawing' = 1
        /\ commands' = Passes!AcrossFrames \o <<Passes!ScenePass(1)>>
    BY <1>1 DEF Passes!Record
  <2>2. ahead' \in Seq(BOOLEAN)
    <3>1. PICK n \in 1 .. MaxBlurs : \E markers \in [1 .. n -> BOOLEAN] : ahead' = markers
      BY <1>1 DEF Passes!Record
    <3> QED
      BY <3>1
  <2>3. PassTypes'
    BY <2>1 DEF PassTypes
  <2>4. 1 \in Nat
    OBVIOUS
  <2>5. CASE offscreenUsedOnce
    <3>1. commands' = Start1
      BY <2>1, <2>5, StartIs DEF Passes!AcrossFrames
    <3> QED
      BY <2>1, <2>2, <2>3, <3>1 DEF PassInv, InStart
  <2>6. CASE ~offscreenUsedOnce
    <3>1. commands' = Start4
      BY <2>1, <2>4, <2>6, BlocksAre DEF Passes!AcrossFrames
    <3> QED
      BY <2>1, <2>2, <2>3, <2>6, <3>1 DEF PassInv, InStart
  <2> QED
    BY <2>5, <2>6
<1>2. CASE Passes!Recreate
  <2>1. PassTypes' /\ sampled' = {}
    BY <1>2 DEF Passes!Recreate, Passes!Fresh, PassTypes, Passes!Layout
  <2> QED
    BY <1>2, <2>1 DEF Passes!Recreate, PassInv
<1> QED
  BY <1>1, <1>2 DEF Passes!Next, Passes!ExecuteBarrier, Passes!ExecutePass,
     Passes!ExecuteSample, Passes!Is

LEMMA PassSteps == PassInv /\ [Passes!Next]_(Passes!vars) => PassInv'
<1> SUFFICES ASSUME PassInv, [Passes!Next]_(Passes!vars) PROVE PassInv'
  OBVIOUS
<1>1. PassTypes
  BY DEF PassInv
<1>2. CASE UNCHANGED Passes!vars
  BY <1>2 DEF PassInv, PassTypes, InStart, InMarker, InEnd, Shows, Passes!vars, Passes!passVars
<1>3. CASE Passes!Next
  <2>1. CASE commands = << >> /\ (offscreenUsedOnce \/ sampled = {})
    BY <1>1, <1>3, <2>1, IdleStep
  <2>2. CASE offscreenUsedOnce /\ drawing = 1 /\ InStart
    <3>1. offscreenUsedOnce = TRUE
      BY <2>2 DEF PassInv
    <3> QED
      BY <1>1, <1>3, <2>2, <3>1, StartStep
  <2>3. CASE offscreenUsedOnce /\ drawing - 1 \in Nat \ {0} /\ InMarker(drawing - 1)
    <3>1. offscreenUsedOnce = TRUE
      BY <2>3 DEF PassInv
    <3>2. PICK s \in Nat \ {0} : s = drawing - 1
      BY <2>3
    <3>3. drawing = s + 1 /\ InMarker(s)
      BY <2>3, <3>2 DEF PassInv
    <3> QED
      BY <1>1, <1>3, <3>1, <3>3, MarkerStep
  <2>4. ASSUME offscreenUsedOnce, drawing = 0, ahead = << >>, NEW s \in Nat \ {0}, InEnd(s)
        PROVE  PassInv'
    <3>1. offscreenUsedOnce = TRUE
      BY <2>4 DEF PassInv
    <3> QED
      BY <1>1, <1>3, <2>4, <3>1, EndStep
  <2> QED
    BY <2>1, <2>2, <2>3, <2>4 DEF PassInv
<1> QED
  BY <1>2, <1>3

\* The inductive invariant of the images a frame with backdrops goes through.
THEOREM PassInvariant == Passes!Spec => []PassInv
<1>1. Passes!Init => PassInv
  <2> SUFFICES ASSUME Passes!Init PROVE PassInv
    OBVIOUS
  <2>1. PassTypes
    BY DEF Passes!Init, PassTypes, Passes!Layout
  <2>2. commands = << >> /\ sampled = {} /\ offscreenUsedOnce = FALSE
        /\ ahead = << >> /\ drawing = 0
    BY DEF Passes!Init
  <2>3. << >> \in Seq(BOOLEAN)
    OBVIOUS
  <2> QED
    BY <2>1, <2>2, <2>3 DEF PassInv
<1> QED
  BY <1>1, PassSteps, PTL DEF Passes!Spec

LEMMA BarrierHolds ==
  ASSUME NEW i, NEW f, NEW t, Head(commands) = Passes!Barrier(i, f, t)
  PROVE  ImagesHoldWhatIsSampled
<1>1. Head(commands).op = "barrier"
  BY DEF Passes!Barrier
<1> QED
  BY <1>1 DEF ImagesHoldWhatIsSampled, Is, Command

LEMMA SampleHolds ==
  ASSUME NEW i, NEW p, Head(commands) = Passes!Sample(i, p), Shows(i, "read", p), i \in visible
  PROVE  ImagesHoldWhatIsSampled
<1>1. /\ Head(commands).op = "sample" /\ Head(commands).image = i
      /\ Head(commands).part = p
  BY DEF Passes!Sample
<1> QED
  BY <1>1 DEF ImagesHoldWhatIsSampled, Is, Command, Shows

LEMMA PassHolds ==
  ASSUME NEW i, NEW f, NEW t, NEW p, Head(commands) = Passes!Pass(i, f, t, p),
         i \notin sampled, f = "attachment" => Shows(i, f, p - 1)
  PROVE  ImagesHoldWhatIsSampled
<1>1. /\ Head(commands).op = "pass" /\ Head(commands).image = i
      /\ Head(commands).from = f /\ Head(commands).part = p
  BY DEF Passes!Pass
<1> QED
  BY <1>1 DEF ImagesHoldWhatIsSampled, Is, Command, Shows

LEMMA SceneHolds ==
  ASSUME NEW s \in Nat \ {0}, Head(commands) = Passes!ScenePass(s), "scene" \notin sampled,
         s # 1 => Shows("scene", "attachment", s - 1)
  PROVE  ImagesHoldWhatIsSampled
<1>1. CASE s = 1
  <2>1. Head(commands) = Passes!Pass("scene", "undefined", "attachment", s)
    BY <1>1 DEF Passes!ScenePass
  <2>2. "undefined" # "attachment"
    OBVIOUS
  <2> QED
    BY <2>1, <2>2, PassHolds
<1>2. CASE s # 1
  <2>1. Head(commands) = Passes!Pass("scene", "attachment", "attachment", s)
    BY <1>2 DEF Passes!ScenePass
  <2> QED
    BY <1>2, <2>1, PassHolds
<1> QED
  BY <1>1, <1>2

LEMMA MarkerHolds ==
  ASSUME NEW s \in Nat \ {0}, InMarker(s)
  PROVE  ImagesHoldWhatIsSampled
<1>0. /\ commands = Left1(s) => Head(commands) = Passes!Barrier("scene", "attachment", "read")
      /\ commands = Left2(s) => Head(commands) = Passes!Sample("scene", s)
      /\ commands = Left3(s) => Head(commands) = Passes!BlurPass("pingA", s)
      /\ commands = Left4(s) => Head(commands) = Passes!Barrier("pingA", "read", "read")
      /\ commands = Left5(s) => Head(commands) = Passes!Sample("pingA", s)
      /\ commands = Left6(s) => Head(commands) = Passes!BlurPass("pingB", s)
      /\ commands = Left7(s) => Head(commands) = Passes!Barrier("pingB", "read", "read")
      /\ commands = Left8(s) => Head(commands) = Passes!Barrier("scene", "read", "attachment")
      /\ commands = Left9(s) => Head(commands) = Passes!ScenePass(s + 1)
      /\ commands = Left10(s) => Head(commands) = Passes!Sample("pingB", s)
  BY BlocksUnroll
<1>1. CASE commands \in {Left1(s), Left4(s), Left7(s), Left8(s)}
  BY <1>0, <1>1, BarrierHolds
<1>2. CASE commands = Left2(s) /\ Shows("scene", "read", s) /\ "scene" \in visible
  BY <1>0, <1>2, SampleHolds
<1>3. CASE commands = Left3(s) /\ sampled = {"scene"}
  <2>1. Head(commands) = Passes!Pass("pingA", "undefined", "read", s)
    BY <1>0, <1>3 DEF Passes!BlurPass
  <2>2. "pingA" \notin sampled /\ "undefined" # "attachment"
    BY <1>3
  <2> QED
    BY <2>1, <2>2, PassHolds
<1>4. CASE commands = Left5(s) /\ Shows("pingA", "read", s) /\ "pingA" \in visible
  BY <1>0, <1>4, SampleHolds
<1>5. CASE commands = Left6(s) /\ sampled = {"pingA"}
  <2>1. Head(commands) = Passes!Pass("pingB", "undefined", "read", s)
    BY <1>0, <1>5 DEF Passes!BlurPass
  <2>2. "pingB" \notin sampled /\ "undefined" # "attachment"
    BY <1>5
  <2> QED
    BY <2>1, <2>2, PassHolds
<1>6. CASE commands = Left10(s) /\ Shows("pingB", "read", s) /\ "pingB" \in visible
  BY <1>0, <1>6, SampleHolds
<1>7. CASE Head(commands) = Passes!ScenePass(s + 1) /\ Shows("scene", "attachment", s)
           /\ "scene" \notin sampled
  <2>1. s + 1 \in Nat \ {0} /\ (s + 1) - 1 = s
    OBVIOUS
  <2> QED
    BY <1>7, <2>1, SceneHolds
<1>8. CASE commands = Left9(s) /\ Shows("scene", "attachment", s) /\ sampled = {}
  BY <1>0, <1>7, <1>8
<1>9. CASE commands = <<Passes!ScenePass(s + 1)>> /\ Shows("scene", "attachment", s)
           /\ "scene" \notin sampled
  <2>1. Head(commands) = Passes!ScenePass(s + 1)
    BY <1>9
  <2> QED
    BY <1>7, <1>9, <2>1
<1> QED
  BY <1>1, <1>2, <1>3, <1>4, <1>5, <1>6, <1>8, <1>9 DEF InMarker

\* However many backdrops a frame blurs, on the screen and off it, and however
\* often the images were made anew: a draw samples what this frame drew up to this
\* segment, made visible to it and in the layout its descriptor names, and no
\* pass draws over what a draw before it may still be sampling
\* (Renderer::recordCommandBuffer, Renderer::recordBlurBackdrop).
THEOREM ImagesHold == Passes!Spec => []ImagesHoldWhatIsSampled
<1>1. ASSUME PassInv PROVE ImagesHoldWhatIsSampled
  <2>0. 1 \in Nat \ {0}
    OBVIOUS
  <2>1. CASE commands = << >>
    BY <2>1 DEF ImagesHoldWhatIsSampled, Is
  <2>2. CASE InStart
    <3>1. CASE commands \in {Start1, Start2, Start3}
      <4>1. \/ Head(commands) = Passes!Barrier("scene", "read", "read")
            \/ Head(commands) = Passes!Barrier("pingA", "read", "read")
            \/ Head(commands) = Passes!Barrier("pingB", "read", "read")
        BY <2>0, <3>1, BlocksUnroll
      <4> QED
        BY <4>1, BarrierHolds
    <3>2. CASE commands = Start4 /\ sampled = {}
      <4>1. Head(commands) = Passes!ScenePass(1)
        BY <2>0, <3>2, BlocksUnroll
      <4> QED
        BY <2>0, <3>2, <4>1, SceneHolds
    <3> QED
      BY <2>2, <3>1, <3>2 DEF InStart
  <2>3. CASE drawing - 1 \in Nat \ {0} /\ InMarker(drawing - 1)
    BY <2>3, MarkerHolds
  <2>4. ASSUME NEW s \in Nat \ {0}, InEnd(s) PROVE ImagesHoldWhatIsSampled
    <3>1. CASE commands = End1(s)
      <4>1. Head(commands) = Passes!Barrier("scene", "attachment", "read")
        BY <3>1, BlocksUnroll
      <4> QED
        BY <4>1, BarrierHolds
    <3>2. CASE commands = End2(s) /\ Shows("scene", "read", s) /\ "scene" \in visible
      <4>1. Head(commands) = Passes!Sample("scene", s)
        BY <3>2, BlocksUnroll
      <4> QED
        BY <3>2, <4>1, SampleHolds
    <3> QED
      BY <2>4, <3>1, <3>2 DEF InEnd
  <2> QED
    BY <1>1, <2>1, <2>2, <2>3, <2>4 DEF PassInv
<1> QED
  BY <1>1, PassInvariant, PTL
=============================================================================
