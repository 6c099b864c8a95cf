------------------------------ MODULE Renderer ------------------------------
(***************************************************************************)
(* evk::Renderer::render (core/src/vulkan_renderer.cpp) with the rebuild   *)
(* of the swapchain (core/src/gpu/swapchain.cpp): the raster thread, one   *)
(* Vulkan call at a time, against a GPU queue that runs behind it and a    *)
(* surface that changes its size under it.                                 *)
(*                                                                         *)
(* The queue, the semaphores, the fences and the surface are Vulkan's,     *)
(* seen through the calls this code makes: graphics and presentation share *)
(* one queue, which executes in order, and a swapchain that does not match *)
(* its surface is reported by vkQueuePresentKHR at the latest.             *)
(***************************************************************************)
EXTENDS Integers, Sequences

CONSTANTS
  NumImages,    \* the images of a swapchain
  kMaxFramesInFlight,
  kMaxFrameAttempts,
  MaxTurns,     \* bound on the changes of the surface
  MaxLag        \* rebuilds after a change that may still see the old size

ASSUME RendererAssumption ==
  /\ NumImages \in Nat \ {0}
  /\ kMaxFramesInFlight \in Nat \ {0} /\ kMaxFrameAttempts \in Nat \ {0}
  /\ MaxTurns \in Nat /\ MaxLag \in Nat

Slot == 0 .. kMaxFramesInFlight - 1
Image == 1 .. NumImages
NoImage == 0

VARIABLES
  pc,           \* where the raster thread is in render
  attempt, imageIndex, rebuilt,   \* its locals; rebuilt: where a rebuild goes on
  currentFrame, framebufferResized,
  available, finished,            \* imageAvailableSemaphores_, renderFinishedSemaphores_
  inFlight,                       \* inFlightFences_: TRUE when signalled
  queue,                          \* submitted and not executed: draws and presents
  images,                         \* the owner of each image
  chain,                          \* which swapchain, and the size it was made for
  surface, lag,                   \* the size of the surface, rebuilds that may miss it
  told,                           \* a new size is on its way with the next frame
  wanted,                         \* a frame is requested
  screen                          \* the size the image on screen was drawn for

rasterVars == <<pc, attempt, imageIndex, rebuilt, currentFrame, framebufferResized>>
gpuVars == <<available, finished, inFlight, queue, images>>
windowVars == <<chain, surface, lag, told, wanted, screen>>
vars == <<rasterVars, gpuVars, windowVars>>

Init ==
  /\ pc = "idle" /\ attempt = 0 /\ imageIndex = NoImage /\ rebuilt = "wait"
  /\ currentFrame = 0 /\ framebufferResized = FALSE
  /\ available = [s \in Slot |-> FALSE] /\ finished = [s \in Slot |-> FALSE]
  /\ inFlight = [s \in Slot |-> TRUE]
  /\ queue = << >>
  /\ images = [i \in Image |-> "free"]
  /\ chain = [made |-> 0, size |-> 0]
  /\ surface = 0 /\ lag = 0 /\ told = FALSE
  /\ wanted = TRUE /\ screen = 0

-----------------------------------------------------------------------------
(* The way through render *)

\* Compositor::raster: Retry asks for another frame, Failed stops the pipeline.
Return(result) ==
  /\ pc' = IF result = "Failed" THEN "failed" ELSE "idle"
  /\ wanted' = (wanted \/ result = "Retry")

Fail ==
  /\ pc \in {"rebuild", "wait", "acquire", "upload", "submit", "present"}
  /\ pc = "rebuild" => queue = << >>
  /\ Return("Failed")
  /\ UNCHANGED <<attempt, imageIndex, rebuilt, currentFrame, framebufferResized, gpuVars,
                 chain, surface, lag, told, screen>>

Begin ==
  /\ pc = "idle" /\ wanted
  /\ wanted' = FALSE
  /\ framebufferResized' = (framebufferResized \/ told)
  /\ told' = FALSE
  /\ attempt' = 0 /\ pc' = "top"
  /\ UNCHANGED <<imageIndex, rebuilt, currentFrame, gpuVars, chain, surface, lag, screen>>

TakeRebuildRequest ==
  /\ pc = "top"
  /\ framebufferResized' = FALSE
  /\ pc' = IF framebufferResized THEN "rebuild" ELSE "wait"
  /\ rebuilt' = "wait"
  /\ UNCHANGED <<attempt, imageIndex, currentFrame, gpuVars, windowVars>>

\* Slip: one attempt too many.
NextAttemptOneMore ==
  /\ attempt' = attempt + 1
  /\ IF attempt' <= kMaxFrameAttempts THEN pc' = "top" /\ UNCHANGED wanted ELSE Return("Retry")

\* continue: the next attempt, or the frame is given up.
NextAttempt ==
  /\ attempt' = attempt + 1
  /\ IF attempt' < kMaxFrameAttempts THEN pc' = "top" /\ UNCHANGED wanted ELSE Return("Retry")

\* The new swapchain; right after a change its size may still be the old one.
MakeSwapchain ==
  /\ \/ chain' = [made |-> 1 - chain.made, size |-> surface] /\ UNCHANGED lag
     \/ lag > 0 /\ lag' = lag - 1 /\ chain' = [made |-> 1 - chain.made, size |-> chain.size]
  /\ images' = [i \in Image |-> "free"]

\* Slip: the rebuild does not wait for the device.
RecreateBusy ==
  /\ pc = "rebuild"
  /\ MakeSwapchain
  /\ IF rebuilt = "wait" THEN pc' = "wait" /\ UNCHANGED <<attempt, wanted>> ELSE NextAttempt
  /\ UNCHANGED <<imageIndex, rebuilt, currentFrame, framebufferResized, available,
                 finished, inFlight, queue, surface, told, screen>>

\* vkDeviceWaitIdle returns when the queue is empty.
RecreateSwapchain ==
  /\ pc = "rebuild" /\ queue = << >>
  /\ MakeSwapchain
  /\ IF rebuilt = "wait" THEN pc' = "wait" /\ UNCHANGED <<attempt, wanted>> ELSE NextAttempt
  /\ UNCHANGED <<imageIndex, rebuilt, currentFrame, framebufferResized, available,
                 finished, inFlight, queue, surface, told, screen>>

\* Slip: a slot is taken whether or not its last frame is done.
WaitNothing ==
  /\ pc = "wait"
  /\ pc' = "acquire"
  /\ UNCHANGED <<attempt, imageIndex, rebuilt, currentFrame, framebufferResized,
                 gpuVars, windowVars>>

WaitFence ==
  /\ pc = "wait" /\ inFlight[currentFrame]
  /\ pc' = "acquire"
  /\ UNCHANGED <<attempt, imageIndex, rebuilt, currentFrame, framebufferResized,
                 gpuVars, windowVars>>

FenceTimesOut ==
  /\ pc = "wait" /\ ~inFlight[currentFrame]
  /\ Return("Retry")
  /\ UNCHANGED <<attempt, imageIndex, rebuilt, currentFrame, framebufferResized, gpuVars,
                 chain, surface, lag, told, screen>>

AcquireTimesOut ==
  /\ pc = "acquire" /\ \A i \in Image : images[i] # "free"
  /\ Return("Retry")
  /\ UNCHANGED <<attempt, imageIndex, rebuilt, currentFrame, framebufferResized, gpuVars,
                 chain, surface, lag, told, screen>>

\* Slip: SUBOPTIMAL is taken for OUT_OF_DATE, although an image was acquired.
AcquireSuboptimal ==
  /\ pc = "acquire" /\ chain.size # surface
  /\ \E i \in {j \in Image : images[j] = "free"} : images' = [images EXCEPT ![i] = "acquired"]
  /\ available' = [available EXCEPT ![currentFrame] = TRUE]
  /\ pc' = "rebuild" /\ rebuilt' = "continue"
  /\ UNCHANGED <<attempt, imageIndex, currentFrame, framebufferResized, finished, inFlight,
                 queue, windowVars>>

OutOfDate ==
  /\ pc = "acquire" /\ chain.size # surface
  /\ pc' = "rebuild" /\ rebuilt' = "continue"
  /\ UNCHANGED <<attempt, imageIndex, currentFrame, framebufferResized, gpuVars, windowVars>>

\* Slip: the fence is reset before it is certain that the frame is submitted.
AcquireAndReset ==
  /\ pc = "acquire"
  /\ inFlight' = [inFlight EXCEPT ![currentFrame] = FALSE]
  /\ \/ \E i \in {j \in Image : images[j] = "free"} :
          /\ imageIndex' = i
          /\ images' = [images EXCEPT ![i] = "acquired"]
          /\ pc' = "upload"
          /\ available' = [available EXCEPT ![currentFrame] = TRUE]
          /\ UNCHANGED rebuilt
     \/ /\ chain.size # surface
        /\ pc' = "rebuild" /\ rebuilt' = "continue"
        /\ UNCHANGED <<imageIndex, images, available>>
  /\ UNCHANGED <<attempt, currentFrame, framebufferResized, finished, queue, windowVars>>

\* SUCCESS, or SUBOPTIMAL, which is taken for a success.
Acquire ==
  /\ pc = "acquire"
  /\ \E i \in {j \in Image : images[j] = "free"} :
       /\ imageIndex' = i
       /\ images' = [images EXCEPT ![i] = "acquired"]
  /\ available' = [available EXCEPT ![currentFrame] = TRUE]
  /\ pc' = "upload"
  /\ UNCHANGED <<attempt, rebuilt, currentFrame, framebufferResized, finished, inFlight,
                 queue, windowVars>>

\* Vertices go to the slot's buffer, commands to its command buffer.
UploadAndRecord ==
  /\ pc = "upload"
  /\ inFlight' = [inFlight EXCEPT ![currentFrame] = FALSE]
  /\ pc' = "submit"
  /\ UNCHANGED <<attempt, imageIndex, rebuilt, currentFrame, framebufferResized, available,
                 finished, queue, images, windowVars>>

Op(what) ==
  [what |-> what, slot |-> currentFrame, image |-> imageIndex, chain |-> chain.made]

Submit ==
  /\ pc = "submit"
  /\ queue' = Append(queue, Op("draw"))
  /\ pc' = "present"
  /\ UNCHANGED <<attempt, imageIndex, rebuilt, currentFrame, framebufferResized, available,
                 finished, inFlight, images, windowVars>>

PresentIt ==
  /\ pc = "present"
  /\ queue' = Append(queue, Op("present"))
  /\ images' = [images EXCEPT ![imageIndex] = "queued"]
  /\ imageIndex' = NoImage
  /\ UNCHANGED <<rebuilt, available, finished, inFlight, chain, surface, lag, told, screen>>

\* Slip: a frame drawn for the wrong size is taken for rendered.
PresentMismatchIgnored ==
  /\ PresentIt /\ chain.size # surface
  /\ currentFrame' = (currentFrame + 1) % kMaxFramesInFlight
  /\ Return("Rendered")
  /\ UNCHANGED <<attempt, framebufferResized>>

\* OUT_OF_DATE or SUBOPTIMAL: drawn for the wrong size, rebuild and draw again.
PresentMismatch ==
  /\ PresentIt /\ chain.size # surface
  /\ framebufferResized' = TRUE
  /\ NextAttempt
  /\ UNCHANGED currentFrame

Present ==
  /\ PresentIt /\ chain.size = surface
  /\ currentFrame' = (currentFrame + 1) % kMaxFramesInFlight
  /\ Return("Rendered")
  /\ UNCHANGED <<attempt, framebufferResized>>

-----------------------------------------------------------------------------
(* The GPU, the presentation engine and the window *)

ExecuteDraw ==
  /\ queue # << >> /\ Head(queue).what = "draw"
  /\ available[Head(queue).slot]
  /\ available' = [available EXCEPT ![Head(queue).slot] = FALSE]
  /\ finished' = [finished EXCEPT ![Head(queue).slot] = TRUE]
  /\ inFlight' = [inFlight EXCEPT ![Head(queue).slot] = TRUE]
  /\ queue' = Tail(queue)
  /\ UNCHANGED <<rasterVars, images, windowVars>>

\* The image on screen before is free again.
ExecutePresent ==
  /\ queue # << >> /\ Head(queue).what = "present"
  /\ finished[Head(queue).slot]
  /\ finished' = [finished EXCEPT ![Head(queue).slot] = FALSE]
  /\ images' = [i \in Image |-> IF i = Head(queue).image THEN "shown"
                                ELSE IF images[i] = "shown" THEN "free" ELSE images[i]]
  /\ screen' = chain.size
  /\ queue' = Tail(queue)
  /\ UNCHANGED <<rasterVars, available, inFlight, chain, surface, lag, told, wanted>>

\* The window turns; the platform reports it and asks for a frame.
Turn ==
  /\ surface < MaxTurns
  /\ surface' = surface + 1
  /\ lag' = MaxLag
  /\ told' = TRUE /\ wanted' = TRUE
  /\ UNCHANGED <<rasterVars, gpuVars, chain, screen>>

RequestRender ==
  /\ ~wanted /\ wanted' = TRUE
  /\ UNCHANGED <<rasterVars, gpuVars, chain, surface, lag, told, screen>>

Render ==
  \/ Begin \/ TakeRebuildRequest \/ RecreateSwapchain
  \/ WaitFence \/ FenceTimesOut \/ AcquireTimesOut \/ OutOfDate \/ Acquire
  \/ UploadAndRecord \/ Submit \/ PresentMismatch \/ Present

Next == Render \/ Fail \/ ExecuteDraw \/ ExecutePresent \/ Turn \/ RequestRender

Spec ==
  /\ Init /\ [][Next]_vars
  /\ WF_vars(Render) /\ WF_vars(ExecuteDraw) /\ WF_vars(ExecutePresent)

-----------------------------------------------------------------------------
(* Properties *)

TypeOK ==
  /\ pc \in {"idle", "top", "rebuild", "wait", "acquire", "upload", "submit", "present", "failed"}
  /\ attempt \in 0 .. kMaxFrameAttempts /\ currentFrame \in Slot
  /\ imageIndex \in Image \cup {NoImage}
  /\ images \in [Image -> {"free", "acquired", "queued", "shown"}]
  /\ available \in [Slot -> BOOLEAN] /\ finished \in [Slot -> BOOLEAN]
  /\ inFlight \in [Slot -> BOOLEAN]
  /\ Len(queue) <= NumImages + kMaxFramesInFlight

Draws(s) == \E i \in DOMAIN queue : queue[i].what = "draw" /\ queue[i].slot = s

\* The vertex and command buffers of a slot are written only when no draw the
\* GPU still has to do reads them.
SlotIsQuiet == pc = "upload" => ~Draws(currentFrame)

\* A fence waits for a draw that is on its way: one reset for a frame that was
\* then not submitted would never be signalled, and no frame would follow.
FenceIsAnswered ==
  \A s \in Slot : ~inFlight[s] =>
    \/ Draws(s) \/ pc = "failed" \/ (pc = "submit" /\ s = currentFrame)

\* No path through render but failure keeps an image it acquired, or leaves the
\* semaphore of an acquire signalled with no draw to wait for it.
NothingLeftBehind ==
  pc \in {"idle", "top", "wait", "acquire"} =>
    /\ \A i \in Image : images[i] # "acquired"
    /\ \A s \in Slot : available[s] => Draws(s)

\* A swapchain is destroyed only when nothing of it is left in the queue.
QueueIsOfChain == \A i \in DOMAIN queue : queue[i].chain = chain.made

\* Once the window rests, the screen comes to show a frame drawn for its size,
\* on a static interface too: nothing but the retries asks for frames.
ScreenConverges == <>[](pc = "failed" \/ screen = surface)
=============================================================================
