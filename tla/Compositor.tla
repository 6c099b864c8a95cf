----------------------------- MODULE Compositor -----------------------------
(***************************************************************************)
(* The way of a frame from a change of the UI to the screen: the dirty     *)
(* flag of core/src/frame_scheduler.cpp, evk::Compositor                   *)
(* (core/src/compositor.cpp) on top of FramePipeline, and the create and   *)
(* destroy sequences of the platform bridges (platform/android/cpp/        *)
(* android_jni_bridge.cpp; the iOS and HarmonyOS bridges run the same).    *)
(*                                                                         *)
(* The UI thread owns the view tree, abstracted to the number view of      *)
(* edits made to it.  Edit number n also puts content n into the           *)
(* TextureStore (a glyph in an atlas, an image), so a frame that shows the *)
(* view v draws with the contents 1..v.  Contents travel to the raster     *)
(* thread as deltas: only what became dirty since the last frame.          *)
(***************************************************************************)
EXTENDS Integers, Sequences, FiniteSets

CONSTANTS
  NumSlots,        \* slots of the pipeline (2 in the code)
  Widths,          \* surface widths a resize can report besides 0
  MaxEdits,        \* bound on the edits of the view tree
  MaxGeneration,   \* bound on resizes: generation stops there
  MaxSurfaces      \* bound on the surfaces created one after the other

ASSUME BoundsAssumption ==
  /\ NumSlots \in Nat \ {0} /\ Widths \subseteq Nat \ {0}
  /\ MaxEdits \in Nat /\ MaxGeneration \in Nat \ {0} /\ MaxSurfaces \in Nat

Frame == [view : 0 .. MaxEdits, width : Widths \cup {0},
          generation : 0 .. MaxGeneration, textures : SUBSET (1 .. MaxEdits)]
BlankFrame == [view |-> 0, width |-> 0, generation |-> 0, textures |-> {}]

VARIABLES
  \* of the FramePipeline of the current compositor
  frames, busy, queue, head, queued, running, stopping, started, failure, ready,
  ui, uiSlot, raster, rasterSlot,
  \* the UI thread
  surface,          \* "none", "starting", "live", "closing": life of compositor and window
  surfaces,         \* surfaces created so far
  frame,            \* where renderFrame is: "none", "check", "produce", "build", "built"
  framePending,     \* g_framePending
  frameFunc,        \* g_frameFunc is set
  width, generation, firstFrame,   \* Compositor::Impl; generation is atomic
  view,             \* edits of the view tree
  dirty,            \* texture contents dirty since the last takeUpdates
  \* the raster thread
  step,             \* where raster(frame) is: "idle", "apply", "check", "draw", "return"
  textures,         \* contents in the raster thread's TextureStoreSource
  rasterGeneration,
  rendererWidth,    \* the size the renderer draws at
  shown             \* last presented [view, width] on this surface

pipelineVars == <<frames, busy, queue, head, queued, running, stopping, started,
                  failure, ready, ui, uiSlot, raster, rasterSlot>>
surfaceVars == <<surface, surfaces>>
schedulerVars == <<framePending, frameFunc>>
implVars == <<width, generation, firstFrame>>
treeVars == <<view, dirty>>
renderVars == <<step, textures, rasterGeneration, rendererWidth, shown>>
uiVars == <<surfaceVars, frame, schedulerVars, implVars, treeVars>>
vars == <<pipelineVars, uiVars, renderVars>>

Pipe == INSTANCE FramePipeline

Nothing == [view |-> 0, width |-> 0]

Init ==
  /\ Pipe!Init
  /\ surface = "none"
  /\ surfaces = 0
  /\ frame = "none"
  /\ framePending = FALSE
  /\ frameFunc = FALSE
  /\ width = 0
  /\ generation = 1
  /\ firstFrame = TRUE
  /\ view = 0
  /\ dirty = {}
  /\ step = "idle"
  /\ textures = {}
  /\ rasterGeneration = 0
  /\ rendererWidth = 0
  /\ shown = Nothing

\* The UI thread is in its event loop, in no call into the engine.
UiIdle == ui = "idle" /\ frame = "none" /\ surface \in {"none", "live"}

-----------------------------------------------------------------------------
(* Changes of the UI, on the UI thread *)

\* Application code, a UI task or an animation tick changes the tree; every
\* such change ends in requestRender.
Edit ==
  /\ UiIdle
  /\ view < MaxEdits
  /\ view' = view + 1
  /\ dirty' = dirty \cup {view'}
  /\ framePending' = TRUE
  /\ UNCHANGED <<pipelineVars, surfaceVars, frame, frameFunc, implVars, renderVars>>

\* Slip: setSize stores the size without a new generation.
ResizeSameGeneration(w) ==
  /\ UiIdle
  /\ surface = "live"
  /\ generation < MaxGeneration
  /\ width' = w
  /\ framePending' = TRUE
  /\ UNCHANGED <<pipelineVars, surfaceVars, frame, frameFunc, generation, firstFrame,
                 treeVars, renderVars>>

\* nativeResize -> setSize -> requestSwapchainRebuild.
Resize(w) ==
  /\ UiIdle
  /\ surface = "live"
  /\ generation < MaxGeneration
  /\ width' = w
  /\ generation' = generation + 1
  /\ framePending' = TRUE
  /\ UNCHANGED <<pipelineVars, surfaceVars, frame, frameFunc, firstFrame, treeVars,
                 renderVars>>

-----------------------------------------------------------------------------
(* beginFrame and renderFrame, on the UI thread *)

\* The VSync callback.  Without frame function or request it does nothing more
\* than run UI tasks and animations, which are Edit steps.
BeginFrame ==
  /\ UiIdle
  /\ frameFunc
  /\ framePending
  /\ framePending' = FALSE
  /\ frame' = "check"
  /\ UNCHANGED <<pipelineVars, surfaceVars, frameFunc, implVars, treeVars, renderVars>>

\* renderFrame gives up silently without size or pipeline.
CheckRunning ==
  /\ frame = "check"
  /\ frame' = IF width = 0 \/ ~Pipe!Accepting THEN "none" ELSE "produce"
  /\ UNCHANGED <<pipelineVars, surfaceVars, schedulerVars, implVars, treeVars, renderVars>>

ProduceClaims ==
  /\ frame = "produce"
  /\ \E s \in Pipe!Slots : Pipe!Claim(s)
  /\ frame' = "build"
  /\ UNCHANGED <<surfaceVars, schedulerVars, implVars, treeVars, renderVars>>

\* Slip: a refused frame is only counted.
ProduceRefusedForgets ==
  /\ frame = "produce"
  /\ ~Pipe!Accepting \/ \A s \in Pipe!Slots : busy[s]
  /\ frame' = "none"
  /\ UNCHANGED <<pipelineVars, surfaceVars, schedulerVars, implVars, treeVars, renderVars>>

\* produce returned false: count the deferral and keep the request.
ProduceRefused ==
  /\ frame = "produce"
  /\ ~Pipe!Accepting \/ \A s \in Pipe!Slots : busy[s]
  /\ framePending' = TRUE
  /\ frame' = "none"
  /\ UNCHANGED <<pipelineVars, surfaceVars, frameFunc, implVars, treeVars, renderVars>>

\* What takeUpdates hands over: everything for the first frame of a compositor.
Updates == IF firstFrame THEN 1 .. view ELSE dirty

\* The builder: buildFrame, takeUpdates, the size and the generation.
BuildFrame ==
  /\ frame = "build"
  /\ Pipe!WriteFrame([view |-> view, width |-> width, generation |-> generation,
                      textures |-> Updates])
  /\ dirty' = {}
  /\ firstFrame' = FALSE
  /\ frame' = "built"
  /\ UNCHANGED <<surfaceVars, schedulerVars, width, generation, view, renderVars>>

SubmitFrame ==
  /\ frame = "built"
  /\ Pipe!Enqueue
  /\ frame' = "none"
  /\ UNCHANGED <<surfaceVars, schedulerVars, implVars, treeVars, renderVars>>

NotifyRaster ==
  /\ Pipe!NotifyWork
  /\ UNCHANGED <<uiVars, renderVars>>

-----------------------------------------------------------------------------
(* Creation and destruction, on the UI thread *)

\* A compositor has a pipeline of its own, as FramePipeline's Init describes it.
NewPipeline ==
  /\ frames' = [s \in Pipe!Slots |-> BlankFrame]
  /\ busy' = [s \in Pipe!Slots |-> FALSE]
  /\ queue' = [s \in Pipe!Slots |-> 0]
  /\ head' = 0 /\ queued' = 0
  /\ running' = FALSE /\ stopping' = FALSE /\ started' = FALSE /\ failure' = FALSE
  /\ ready' = "unset"
  /\ ui' = "idle" /\ uiSlot' = 0
  /\ raster' = "none" /\ rasterSlot' = 0

\* nativeInit: a window, a new Compositor on it, initialize.  Without a size
\* initialize fails before anything is started, and both are destroyed again.
CreateCompositor(w) ==
  /\ UiIdle
  /\ surface = "none"
  /\ surfaces < MaxSurfaces
  /\ surface' = "starting"
  /\ surfaces' = surfaces + 1
  /\ NewPipeline
  /\ width' = w
  /\ generation' = 1
  /\ firstFrame' = TRUE
  /\ step' = "idle"
  /\ textures' = {}
  /\ rasterGeneration' = 0
  /\ rendererWidth' = 0
  /\ shown' = Nothing
  /\ UNCHANGED <<frame, schedulerVars, treeVars>>

StartPipeline ==
  /\ surface = "starting"
  /\ width # 0
  /\ Pipe!Start
  /\ UNCHANGED <<uiVars, renderVars>>

\* initialize returned true: register the frame function, become ready, and
\* request the first frame.
EngineStarted ==
  /\ surface = "starting"
  /\ Pipe!StartReturns
  /\ surface' = "live"
  /\ frameFunc' = TRUE
  /\ framePending' = TRUE
  /\ UNCHANGED <<surfaces, frame, implVars, treeVars, renderVars>>

\* start() returned false or was not reached: ~Impl stops the pipeline (again).
EngineFailed ==
  /\ surface = "starting"
  /\ \/ Pipe!StartFails /\ surface' = surface
     \/ (width = 0 \/ started) /\ Pipe!Stop /\ surface' = "closing"
  /\ UNCHANGED <<surfaces, frame, schedulerVars, implVars, treeVars, renderVars>>

\* Slip: the platform object is destroyed before the compositor.
DestroyPlatformFirst ==
  /\ UiIdle
  /\ surface = "live"
  /\ framePending' = FALSE
  /\ frameFunc' = FALSE
  /\ surface' = "none"
  /\ Pipe!Stop
  /\ UNCHANGED <<surfaces, frame, implVars, treeVars, renderVars>>

\* nativeDestroy: cancelPendingFrame, setFrameFunc(nullptr), setEngineReady(false),
\* then delete the compositor, whose destructor stops the pipeline.
DestroyCompositor ==
  /\ UiIdle
  /\ surface = "live"
  /\ framePending' = FALSE
  /\ frameFunc' = FALSE
  /\ surface' = "closing"
  /\ Pipe!Stop
  /\ UNCHANGED <<surfaces, frame, implVars, treeVars, renderVars>>

NotifyStop ==
  /\ Pipe!NotifyStop
  /\ UNCHANGED <<uiVars, renderVars>>

\* The join of stop() returned.  When the compositor is being deleted, the bridge
\* destroys the platform object, and with it the native window, right after it.
JoinRaster ==
  /\ Pipe!Join
  /\ surface' = IF surface = "closing" THEN "none" ELSE surface
  /\ UNCHANGED <<surfaces, frame, schedulerVars, implVars, treeVars, renderVars>>

-----------------------------------------------------------------------------
(* The raster thread *)

\* The initialize callback of Compositor::initialize; ok is what
\* Renderer::initialize returns.
InitializeRenderer(ok) ==
  /\ Pipe!InitializeReturns(ok)
  /\ rendererWidth' = width
  /\ rasterGeneration' = generation
  /\ UNCHANGED <<uiVars, step, textures, shown>>

\* Slip: a stale frame is skipped before its texture deltas are taken.
TakeFrameSkipsFirst ==
  /\ Pipe!Dequeue
  /\ step' = IF frames[queue[head]].generation = generation THEN "apply" ELSE "return"
  /\ UNCHANGED <<uiVars, textures, rasterGeneration, rendererWidth, shown>>

TakeFrame ==
  /\ Pipe!Dequeue
  /\ step' = "apply"
  /\ UNCHANGED <<uiVars, textures, rasterGeneration, rendererWidth, shown>>

\* The texture deltas of a frame are taken even when its geometry is not drawn.
ApplyTextures ==
  /\ step = "apply"
  /\ textures' = textures \cup frames[rasterSlot].textures
  /\ step' = "check"
  /\ UNCHANGED <<pipelineVars, uiVars, rasterGeneration, rendererWidth, shown>>

SkipStaleFrame ==
  /\ step = "check"
  /\ frames[rasterSlot].generation # generation
  /\ step' = "return"
  /\ UNCHANGED <<pipelineVars, uiVars, textures, rasterGeneration, rendererWidth, shown>>

BeginDraw ==
  /\ step = "check"
  /\ frames[rasterSlot].generation = generation
  /\ IF rasterGeneration # frames[rasterSlot].generation
       THEN /\ rendererWidth' = frames[rasterSlot].width
            /\ rasterGeneration' = frames[rasterSlot].generation
       ELSE UNCHANGED <<rendererWidth, rasterGeneration>>
  /\ step' = "draw"
  /\ UNCHANGED <<pipelineVars, uiVars, textures, shown>>

\* render() -> Rendered.
Present ==
  /\ step = "draw"
  /\ shown' = [view |-> frames[rasterSlot].view, width |-> rendererWidth]
  /\ step' = "return"
  /\ UNCHANGED <<pipelineVars, uiVars, textures, rasterGeneration, rendererWidth>>

\* Slip: Retry drops the frame without asking for another.
RetryForgets ==
  /\ step = "draw"
  /\ step' = "return"
  /\ UNCHANGED <<pipelineVars, uiVars, textures, rasterGeneration, rendererWidth, shown>>

\* render() -> Retry: ask for another frame, from the raster thread.
RetryLater ==
  /\ step = "draw"
  /\ framePending' = TRUE
  /\ step' = "return"
  /\ UNCHANGED <<pipelineVars, surfaceVars, frame, frameFunc, implVars, treeVars,
                 textures, rasterGeneration, rendererWidth, shown>>

\* render() -> Failed: the exception leaves consume.
RenderFails ==
  /\ step = "draw"
  /\ Pipe!ConsumeThrows
  /\ step' = "idle"
  /\ UNCHANGED <<uiVars, textures, rasterGeneration, rendererWidth, shown>>

ReturnSlot ==
  /\ step = "return"
  /\ Pipe!ConsumeReturns
  /\ step' = "idle"
  /\ UNCHANGED <<uiVars, textures, rasterGeneration, rendererWidth, shown>>

RasterLoop ==
  /\ Pipe!Sleep \/ Pipe!LeaveLoop
  /\ UNCHANGED <<uiVars, renderVars>>

\* The finish callback: renderer and texture source are destroyed.
FinishRenderer ==
  /\ Pipe!FinishReturns
  /\ textures' = {}
  /\ UNCHANGED <<uiVars, step, rasterGeneration, rendererWidth, shown>>

-----------------------------------------------------------------------------
UiCallReturns ==
  \/ CheckRunning \/ ProduceClaims \/ ProduceRefused
  \/ BuildFrame \/ SubmitFrame \/ NotifyRaster
  \/ StartPipeline \/ EngineStarted \/ EngineFailed
  \/ NotifyStop \/ JoinRaster

RasterReturns ==
  \/ \E ok \in BOOLEAN : InitializeRenderer(ok)
  \/ TakeFrame \/ ApplyTextures \/ SkipStaleFrame \/ BeginDraw
  \/ Present \/ RetryLater \/ RenderFails \/ ReturnSlot
  \/ RasterLoop \/ FinishRenderer

Next ==
  \/ Edit
  \/ \E w \in Widths \cup {0} : Resize(w) \/ CreateCompositor(w)
  \/ BeginFrame
  \/ DestroyCompositor
  \/ UiCallReturns
  \/ RasterReturns

Spec == Init /\ [][Next]_vars

(***************************************************************************)
(* Both threads are scheduled and their calls return; the platform keeps   *)
(* delivering VSync while the surface is there (Choreographer,             *)
(* CADisplayLink and DisplaySync run continuously); and a GPU that is      *)
(* asked to draw again and again succeeds at some point or fails for good  *)
(* (Retry is a 16 ms fence or acquire timeout).                            *)
(***************************************************************************)
Fairness ==
  /\ WF_vars(BeginFrame)
  /\ WF_vars(UiCallReturns)
  /\ WF_vars(RasterReturns)
  /\ SF_vars(Present)

FairSpec == Spec /\ Fairness

-----------------------------------------------------------------------------
(* Properties *)

TypeOK ==
  /\ Pipe!TypeOK
  /\ surface \in {"none", "starting", "live", "closing"}
  /\ surfaces \in 0 .. MaxSurfaces
  /\ frame \in {"none", "check", "produce", "build", "built"}
  /\ framePending \in BOOLEAN
  /\ frameFunc \in BOOLEAN
  /\ width \in Widths \cup {0}
  /\ generation \in 1 .. MaxGeneration
  /\ firstFrame \in BOOLEAN
  /\ view \in 0 .. MaxEdits
  /\ dirty \subseteq 1 .. MaxEdits
  /\ step \in {"idle", "apply", "check", "draw", "return"}
  /\ textures \subseteq 1 .. MaxEdits
  /\ rasterGeneration \in 0 .. MaxGeneration
  /\ rendererWidth \in Widths \cup {0}
  /\ shown \in [view : 0 .. MaxEdits, width : Widths \cup {0}]

Drawn == frames[rasterSlot]

\* When a frame is drawn, every texture content it refers to has reached the
\* raster thread, whatever frames before it were skipped as stale, refused or lost
\* with an earlier surface (compositor.cpp line 45: "texture deltas must be
\* received in order, atlas glyphs must not be lost").
TexturesArrived == step = "draw" => 1 .. Drawn.view \subseteq textures

\* A frame is drawn at the size it was laid out for, although the UI thread can
\* resize at any point between build and draw.
DrawnAtItsSize == step = "draw" => rendererWidth = Drawn.width

\* A frame is drawn with all the textures it refers to and at the size it was laid
\* out for, whatever frames before it were skipped, refused or lost, and whenever
\* the UI thread resizes (compositor.cpp, raster).
DrawnAsBuilt == TexturesArrived /\ DrawnAtItsSize

\* The raster thread exists only while the native window does (compositor.h lines
\* 18-20: "the platform can release the window only after the destructor's join").
RasterWithinSurface == surface = "none" => raster \in {"none", "done"}

\* What is on screen is the newest state of the UI, at the newest size.
Shown == shown = [view |-> view, width |-> width]

Newest(f) == f.view = view /\ f.generation = generation

\* Frames on their way to the screen that will not be skipped.
OnTheWay ==
  \/ \E i \in 0 .. queued - 1 : Newest(frames[Pipe!Entry(i)])
  \/ raster = "consume" /\ step \in {"apply", "check", "draw"} /\ Newest(Drawn)

\* No change is forgotten: while the UI thread is between calls on a live surface,
\* the newest state is on screen, on its way, or a frame request is pending.  The
\* request survives a refused produce, a stale frame and a Retry of the renderer.
NoChangeForgotten ==
  surface = "live" /\ UiIdle /\ width # 0 /\ ~stopping =>
    Shown \/ OnTheWay \/ framePending

\* Once the UI stops changing, the screen catches up, unless the surface goes
\* away, has no size, or the renderer failed.
ScreenCatchesUp == []<>(Shown \/ surface # "live" \/ width = 0 \/ stopping)

\* Creating or destroying a surface always completes.
SurfaceSettles == surface \in {"starting", "closing"} ~> surface \in {"none", "live"}
=============================================================================
