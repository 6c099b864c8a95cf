----------------------------- MODULE GpuObjects -----------------------------
(***************************************************************************)
(* The life of the renderer's Vulkan objects: what Renderer::initialize,   *)
(* recreateSwapchain and shutdown (core/src/vulkan_renderer.cpp) create    *)
(* and destroy, in their order, through VulkanContext, TextureCache,       *)
(* Swapchain, UiPipeline and OffscreenEffects (core/src/gpu).  Any         *)
(* creation may fail, the first of a group or a later one.                 *)
(*                                                                         *)
(* A function of the renderer is the sequence of the objects it creates    *)
(* or destroys; todo is what the raster thread has still to do.            *)
(***************************************************************************)
EXTENDS Integers, Sequences, SequencesExt

CONSTANTS
  Slot,          \* frame slots, kMaxFramesInFlight of them
  MaxChains,     \* bound on the swapchains built one after the other
  First,         \* kInitialVertexCapacity
  Biggest        \* the largest uint32_t, 2^w - 1

-----------------------------------------------------------------------------
(* What each part creates, in the order of its code *)

InstanceObjects == <<"instance", "messenger">>
DeviceObjects == <<"surface", "device">>
CacheObjects == <<"sampler", "setLayout", "descriptorPool">>
WhiteTexture == <<"whiteTexture">>
ChainObjects == <<"swapchain", "views">>
ColorImage == <<"colorImage">>
ChainPass == <<"mainPass">>
UiModules == <<"uiModules">>
UiPipelines == <<"uiLayout", "uiPipelines">>
ChainFramebuffers == <<"framebuffers">>
OffscreenImages == <<"sceneImages">>
OffscreenPasses == <<"scenePasses", "blurPass">>
OffscreenTargets == <<"sceneFramebuffers">>
OffscreenSets == <<"sceneSets">>
OffscreenModules == <<"sceneModules">>
OffscreenPipelines == <<"scenePipelines">>
FrameObjects == <<"commandPool", "vertexBuffers", "commandBuffers", "sync">>

Offscreen ==
  OffscreenImages \o OffscreenPasses \o OffscreenTargets \o OffscreenSets
    \o OffscreenModules \o OffscreenPipelines
OfTheChain ==
  ChainObjects \o ColorImage \o ChainPass \o UiModules \o UiPipelines
    \o ChainFramebuffers \o Offscreen
OfTheDevice == InstanceObjects \o DeviceObjects \o CacheObjects \o WhiteTexture

Object == ToSet(OfTheDevice) \cup ToSet(OfTheChain) \cup ToSet(FrameObjects)
ChainObject == ToSet(OfTheChain)
OffscreenObject == ToSet(Offscreen)

\* Shader modules live in local variables of the function that creates them;
\* everything else has a member that destroy() or shutdown() looks at.
Modules == {"uiModules", "sceneModules"}

\* What the creation of an object names.
Needs(o) ==
  CASE o \in {"messenger", "surface"} -> {"instance"}
    [] o = "device" -> {"instance", "surface"}
    [] o \in {"sampler", "setLayout", "descriptorPool", "commandPool", "vertexBuffers",
              "sync", "colorImage", "mainPass"} \cup Modules -> {"device"}
    [] o = "whiteTexture" -> {"device", "sampler", "setLayout", "descriptorPool"}
    [] o = "swapchain" -> {"device", "surface"}
    [] o = "views" -> {"swapchain"}
    [] o = "uiLayout" -> {"device", "setLayout", "uiModules"}
    [] o = "uiPipelines" -> {"uiModules", "uiLayout", "mainPass"}
    [] o = "framebuffers" -> {"views", "mainPass"}
    [] o \in {"sceneImages", "scenePasses", "blurPass"} -> {"device", "swapchain"}
    [] o = "sceneFramebuffers" -> {"sceneImages", "scenePasses", "blurPass"}
    [] o = "sceneSets" -> {"sceneImages", "setLayout"}
    [] o = "scenePipelines" -> {"sceneModules", "uiLayout", "mainPass", "scenePasses", "blurPass"}
    [] o = "commandBuffers" -> {"commandPool"}
    [] OTHER -> {}

\* What Vulkan wants destroyed no sooner than the object.
Owner(o) ==
  CASE o = "instance" -> {}
    [] o \in {"messenger", "surface", "device"} -> {"instance"}
    [] o = "swapchain" -> {"device", "surface"}
    [] o = "views" -> {"device", "swapchain"}
    [] o = "commandBuffers" -> {"device", "commandPool"}
    [] OTHER -> {"device"}

\* What a command buffer handed to the GPU uses.
Used ==
  (ChainObject \ Modules) \cup {"whiteTexture", "vertexBuffers", "commandBuffers", "sync"}

-----------------------------------------------------------------------------

VARIABLES
  made,      \* made[o]: the swapchain the object was made for, 0 if there is none
  chain,     \* swapchains built so far
  partial,   \* groups of which only some objects exist
  ready,     \* OffscreenEffects::ready_
  todo,      \* steps of the call under way
  call,      \* "new", "initialize", "recreate", "running", "failed", "shutdown", "gone"
  busy,      \* slots whose commands the GPU has not finished
  capacity,  \* vertexBufferCapacities_
  drawn      \* vertices of the frame of each slot the GPU has not finished

vars == <<made, chain, partial, ready, todo, call, busy, capacity, drawn>>

TypeOK ==
  /\ made \in [Object -> 0 .. MaxChains]
  /\ chain \in 0 .. MaxChains
  /\ partial \subseteq Object
  /\ ready \in BOOLEAN
  /\ todo \in Seq([op : {"create", "destroy", "wait"}, object : Object \cup {"queue"}])
  /\ call \in {"new", "initialize", "recreate", "running", "failed", "shutdown", "gone"}
  /\ busy \subseteq Slot
  /\ capacity \in [Slot -> 0 .. Biggest]
  /\ drawn \in [Slot -> 0 .. Biggest]

Init ==
  /\ made = [o \in Object |-> 0]
  /\ chain = 0
  /\ partial = {}
  /\ ready = FALSE
  /\ todo = << >>
  /\ call = "new"
  /\ busy = {}
  /\ capacity = [s \in Slot |-> 0]
  /\ drawn = [s \in Slot |-> 0]

Creates(objects) == [i \in DOMAIN objects |-> [op |-> "create", object |-> objects[i]]]
Destroys(objects) == [i \in DOMAIN objects |-> [op |-> "destroy", object |-> objects[i]]]
Wait == <<[op |-> "wait", object |-> "queue"]>>

\* OffscreenEffects::destroy, UiPipeline::destroy and Swapchain::cleanup.
DestroyOffscreen ==
  Destroys(<<"scenePipelines", "sceneSets", "sceneFramebuffers", "scenePasses", "blurPass",
             "sceneImages">>)
DestroyPipelines == Destroys(<<"uiPipelines", "uiLayout">>)
CleanupChain == Destroys(<<"framebuffers", "mainPass", "colorImage", "views", "swapchain">>)
DestroyFrames == Destroys(<<"sync", "vertexBuffers", "commandBuffers", "commandPool">>)
DestroyCache == Destroys(<<"whiteTexture", "descriptorPool", "setLayout", "sampler">>)
DestroyContext == Destroys(<<"device", "messenger", "surface", "instance">>)

\* Swapchain::create up to createOffscreenEffects, which initialize and
\* recreateSwapchain have in common; each create() ends by destroying its
\* shader modules.
CreateChain ==
  Creates(ChainObjects \o ColorImage \o ChainPass \o UiModules \o UiPipelines)
    \o Destroys(UiModules) \o Creates(ChainFramebuffers)
    \o DestroyOffscreen \o Creates(Offscreen) \o Destroys(OffscreenModules)

InitializeSteps == Creates(OfTheDevice) \o CreateChain \o Creates(FrameObjects)

\* Slip: a rebuild that does not wait for the GPU.
RecreateAtOnce == DestroyOffscreen \o DestroyPipelines \o CleanupChain \o CreateChain
\* Slip: a rebuild that keeps the pipelines.
RecreateKeepsPipelines ==
  Wait \o DestroyOffscreen \o CleanupChain
    \o Creates(ChainObjects \o ColorImage \o ChainPass \o ChainFramebuffers)
    \o Creates(Offscreen) \o Destroys(OffscreenModules)

RecreateSteps ==
  Wait \o DestroyOffscreen \o DestroyPipelines \o CleanupChain \o CreateChain

\* Slip: a shutdown that leaves the offscreen objects to the device.
ShutdownForgets ==
  (IF made["device"] = 0 THEN << >>
   ELSE Wait \o DestroyFrames \o DestroyCache \o DestroyPipelines \o CleanupChain)
    \o DestroyContext

ShutdownSteps ==
  (IF made["device"] = 0 THEN << >>
   ELSE Wait \o DestroyFrames \o DestroyCache \o DestroyOffscreen \o DestroyPipelines
          \o CleanupChain)
    \o DestroyContext

-----------------------------------------------------------------------------
(* The calls *)

Initialize ==
  /\ call = "new"
  /\ call' = "initialize"
  /\ todo' = InitializeSteps
  /\ UNCHANGED <<made, chain, partial, ready, busy, capacity, drawn>>

Recreate ==
  /\ call = "running"
  /\ chain < MaxChains
  /\ call' = "recreate"
  /\ todo' = RecreateSteps
  /\ UNCHANGED <<made, chain, partial, ready, busy, capacity, drawn>>

\* The raster thread ends, after a call that failed or when it is told to stop.
Shutdown ==
  /\ call \in {"running", "failed"}
  /\ todo = << >>
  /\ call' = "shutdown"
  /\ todo' = ShutdownSteps
  /\ UNCHANGED <<made, chain, partial, ready, busy, capacity, drawn>>

Return ==
  /\ todo = << >>
  /\ call \in {"initialize", "recreate", "shutdown"}
  /\ call' = IF call = "shutdown" THEN "gone" ELSE "running"
  /\ UNCHANGED <<made, chain, partial, ready, todo, busy, capacity, drawn>>

-----------------------------------------------------------------------------
(* Their steps *)

Due(op) == todo # << >> /\ Head(todo).op = op

WaitIdle ==
  /\ Due("wait")
  /\ busy' = {}
  /\ drawn' = [s \in Slot |-> 0]
  /\ todo' = Tail(todo)
  /\ UNCHANGED <<made, chain, partial, ready, call, capacity>>

Create ==
  /\ Due("create")
  /\ LET o == Head(todo).object
         number == IF o = "swapchain" THEN chain + 1 ELSE IF chain = 0 THEN 1 ELSE chain
     IN /\ chain' = IF o = "swapchain" THEN number ELSE chain
        /\ made' = [made EXCEPT ![o] = number]
        /\ partial' = partial \ {o}
        /\ ready' = (ready \/ o = "scenePipelines")
        /\ capacity' = IF o = "vertexBuffers" THEN [s \in Slot |-> First] ELSE capacity
  /\ todo' = Tail(todo)
  /\ UNCHANGED <<call, busy, drawn>>

\* Objects of a group made before the one that failed stay behind a handle,
\* except where the function undoes them.
KeepsSome == {"views", "uiPipelines", "framebuffers", "sceneImages", "scenePasses",
              "sceneFramebuffers", "sceneSets", "scenePipelines", "sync"} \cup Modules

\* After a failure the rest of the function is left out: a messenger or a
\* multisampled image is done without, offscreen effects are given up, and any
\* other failure ends the call.  A function that made shader modules destroys
\* them if it gets that far.
AfterFailure(o, rest) ==
  CASE o \in {"messenger", "colorImage"} -> rest
    [] o = "scenePipelines" -> rest
    [] o \in OffscreenObject ->
         SelectSeq(rest, LAMBDA step : step.object \notin OffscreenObject)
    [] o \in {"uiLayout", "uiPipelines"} -> Destroys(UiModules)
    [] OTHER -> << >>

CreateFails ==
  /\ Due("create")
  /\ LET o == Head(todo).object
         number == IF chain = 0 THEN 1 ELSE chain
     IN /\ \E some \in {FALSE} \cup (IF o \in KeepsSome THEN {TRUE} ELSE {}) :
             /\ made' = [made EXCEPT ![o] = IF some THEN number ELSE 0]
             /\ partial' = IF some THEN partial \cup {o} ELSE partial
        /\ todo' = AfterFailure(o, Tail(todo))
        /\ call' = IF o \in {"messenger", "colorImage"} \cup OffscreenObject THEN call
                   ELSE "failed"
  /\ UNCHANGED <<chain, ready, busy, capacity, drawn>>

Destroy ==
  /\ Due("destroy")
  /\ LET o == Head(todo).object
     IN /\ made' = [made EXCEPT ![o] = 0]
        /\ partial' = partial \ {o}
        /\ ready' = (ready /\ o # "scenePipelines")
        /\ capacity' = IF o = "vertexBuffers" THEN [s \in Slot |-> 0] ELSE capacity
  /\ todo' = Tail(todo)
  /\ UNCHANGED <<chain, call, busy, drawn>>

-----------------------------------------------------------------------------
(* A frame *)

\* Slip: doubling without a look at the end of the range.
GrowsAround(from, count) ==
  LET grown[c \in 1 .. Biggest] ==
        IF c >= count THEN c
        ELSE IF c * 2 > Biggest THEN (c * 2) % (Biggest + 1) ELSE grown[c * 2]
  IN grown[IF from > First THEN from ELSE First]

\* uploadVertices and ensureTextureUploadCapacity double the capacity until
\* the data fit.
Grown(from, count) ==
  LET grown[c \in 1 .. Biggest] ==
        IF c >= count THEN c
        ELSE IF c > Biggest \div 2 THEN count ELSE grown[c * 2]
  IN grown[IF from > First THEN from ELSE First]

\* render, after the fence of the slot: upload, growing the buffer of the slot
\* if need be, record and submit.
Render(s, count) ==
  /\ call = "running"
  /\ s \notin busy
  /\ capacity' = [capacity EXCEPT ![s] = IF count > @ THEN Grown(@, count) ELSE @]
  /\ drawn' = [drawn EXCEPT ![s] = count]
  /\ busy' = busy \cup {s}
  /\ UNCHANGED <<made, chain, partial, ready, todo, call>>

\* The larger buffer cannot be had: the old one stays, the frame fails.
RenderFails(s) ==
  /\ call = "running"
  /\ s \notin busy
  /\ call' = "failed"
  /\ UNCHANGED <<made, chain, partial, ready, todo, busy, capacity, drawn>>

\* The GPU signals the fence of a slot.
Finishes(s) ==
  /\ s \in busy
  /\ busy' = busy \ {s}
  /\ drawn' = [drawn EXCEPT ![s] = 0]
  /\ UNCHANGED <<made, chain, partial, ready, todo, call, capacity>>

Next ==
  \/ Initialize \/ Recreate \/ Shutdown \/ Return
  \/ WaitIdle \/ Create \/ CreateFails \/ Destroy
  \/ \E s \in Slot : RenderFails(s) \/ Finishes(s)
  \/ \E s \in Slot, count \in 0 .. Biggest : Render(s, count)

Spec == Init /\ [][Next]_vars

-----------------------------------------------------------------------------
(* Properties *)

Whole(o) == made[o] # 0 /\ o \notin partial
OfThisChain(o) == o \in ChainObject => made[o] = chain

\* An object is created only from whole objects, of the current swapchain
\* where they belong to one, and never over a handle whose object is alive
\* (initialize and recreateSwapchain after any failure and any rebuild).
\* Modules left behind by an earlier failure have no handle to overwrite.
CreatedSoundly ==
  Due("create") =>
    LET o == Head(todo).object
    IN /\ \A n \in Needs(o) : Whole(n) /\ OfThisChain(n)
       /\ o \notin Modules => made[o] = 0

\* An object is destroyed after those it owns, modules apart, and when the
\* GPU is done with the frames that use it (recreateSwapchain and shutdown).
DestroyedSoundly ==
  Due("destroy") =>
    LET o == Head(todo).object
    IN /\ \A p \in Object \ Modules : o \in Owner(p) => made[p] = 0 \/ made[o] = 0
       /\ o \in Used /\ made[o] # 0 => busy = {}

LifeIsSound == CreatedSoundly /\ DestroyedSoundly

\* A frame finds everything it draws with, whole and of the swapchain it is
\* drawn for, in buffers its vertices fit in: without the multisampled image
\* or the offscreen objects if those could not be had, but then not ready
\* (render, after initialize, rebuilds and growing).
FramesHaveAll ==
  /\ call = "running" =>
       /\ \A o \in Used \ (OffscreenObject \cup {"colorImage"}) : Whole(o) /\ OfThisChain(o)
       /\ ready => \A o \in OffscreenObject \ Modules : Whole(o) /\ OfThisChain(o)
  /\ \A s \in busy : drawn[s] <= capacity[s]

\* shutdown leaves nothing behind, whatever had failed before, but the shader
\* modules of a create() that could not load all four.
NothingIsLeft ==
  call = "gone" => \A o \in Object : made[o] = 0 \/ o \in Modules

\* vulkan_context.cpp:107: when the device is destroyed its owner has destroyed
\* all objects made from it.
DeviceIsLast ==
  Due("destroy") /\ Head(todo).object = "device" =>
    \A o \in Object : "device" \in Owner(o) => made[o] = 0
=============================================================================
