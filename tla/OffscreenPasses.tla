--------------------------- MODULE OffscreenPasses --------------------------
(***************************************************************************)
(* A frame with blurred backdrops, as recordCommandBuffer and              *)
(* recordBlurBackdrop (core/src/vulkan_renderer.cpp) record it for the     *)
(* images of OffscreenEffects (core/src/gpu/offscreen_effects.cpp): the    *)
(* scene, drawn in segments, and the two images a blur goes through.  All  *)
(* frames share these images, and the GPU runs the commands of one queue   *)
(* in their order but overlaps them where no barrier stands between.       *)
(*                                                                         *)
(* A frame is recorded whole; what the GPU has not executed of it are the  *)
(* commands up to the next marker and, written out when it gets there, the *)
(* markers ahead.  A barrier orders everything before it with everything   *)
(* after it (its stages cover all of these commands) but makes visible the *)
(* writes of its own image only.                                           *)
(*                                                                         *)
(* With multisampling every segment loads a multisampled image and         *)
(* resolves it into the scene, the only one of the two that is sampled.    *)
(* Both are one image here: what the load sees is not asked.               *)
(***************************************************************************)
EXTENDS OffscreenState

CONSTANTS
  MaxFrames,    \* bound on the frames drawn
  MaxChains,    \* bound on the swapchains built
  MaxBlurs      \* bound on the backdrops of one frame

Image == {"scene", "pingA", "pingB"}
Layout == {"undefined", "attachment", "read"}

VARIABLES
  offscreenUsedOnce,   \* Renderer::offscreenUsedOnce_
  ahead,               \* on the screen or off it, for each marker not reached yet
  drawing,             \* the segment being drawn, 0 once the last is
  chain                \* swapchains built

vars == <<passVars, offscreenUsedOnce, ahead, drawing, chain>>

TypeOK ==
  /\ layout \in [Image -> Layout]
  /\ content \in [Image -> [frame : 0 .. MaxFrames, part : 0 .. MaxBlurs + 1]]
  /\ sampled \subseteq Image
  /\ visible \subseteq Image
  /\ offscreenUsedOnce \in BOOLEAN
  /\ ahead \in Seq(BOOLEAN) /\ drawing \in 0 .. MaxBlurs + 1
  /\ frame \in 0 .. MaxFrames /\ chain \in 1 .. MaxChains

\* What create() makes of the images; the part of a content is the segment.
Fresh ==
  /\ layout' = [i \in Image |-> "undefined"]
  /\ content' = [i \in Image |-> [frame |-> 0, part |-> 0]]
  /\ sampled' = {}
  /\ visible' = {}

Init ==
  /\ layout = [i \in Image |-> "undefined"]
  /\ content = [i \in Image |-> [frame |-> 0, part |-> 0]]
  /\ sampled = {} /\ visible = {}
  /\ offscreenUsedOnce = FALSE
  /\ commands = << >> /\ ahead = << >> /\ drawing = 0
  /\ frame = 0 /\ chain = 1

-----------------------------------------------------------------------------
(* Commands *)

Barrier(image, from, to) == [op |-> "barrier", image |-> image, from |-> from, to |-> to]
\* A render pass that starts in layout from, leaves its target in layout to
\* and draws the part.
Pass(image, from, to, part) ==
  [op |-> "pass", image |-> image, from |-> from, to |-> to, part |-> part]
\* A draw that samples an image, expecting the part.
Sample(image, part) == [op |-> "sample", image |-> image, part |-> part]

\* beginScenePass: the first segment clears, later ones load what is there.
ScenePass(segment) ==
  Pass("scene", IF segment = 1 THEN "undefined" ELSE "attachment", "attachment", segment)
BlurPass(image, segment) == Pass(image, "undefined", "read", segment)

\* Slip: the second pass samples without a barrier.
BackdropNoBarrier(segment) ==
  << Barrier("scene", "attachment", "read"),
     Sample("scene", segment), BlurPass("pingA", segment),
     Sample("pingA", segment), BlurPass("pingB", segment),
     Barrier("pingB", "read", "read"),
     Barrier("scene", "read", "attachment") >>
\* Slip: the scene stays readable.
BackdropStaysRead(segment) ==
  << Barrier("scene", "attachment", "read"),
     Sample("scene", segment), BlurPass("pingA", segment),
     Barrier("pingA", "read", "read"),
     Sample("pingA", segment), BlurPass("pingB", segment),
     Barrier("pingB", "read", "read") >>

\* recordBlurBackdrop of the segments drawn so far.
Backdrop(segment) ==
  << Barrier("scene", "attachment", "read"),
     Sample("scene", segment), BlurPass("pingA", segment),
     Barrier("pingA", "read", "read"),
     Sample("pingA", segment), BlurPass("pingB", segment),
     Barrier("pingB", "read", "read"),
     Barrier("scene", "read", "attachment") >>

\* The marker that ends a segment: a region off the screen is not blurred.
Marker(onScreen, segment) ==
  IF onScreen
  THEN Backdrop(segment) \o <<ScenePass(segment + 1), Sample("pingB", segment)>>
  ELSE <<ScenePass(segment + 1)>>

\* Slip: the first frame's exemption for every frame.
NeverOrdered == << >>

\* The barriers at the start of a frame, behind the frames before it.
AcrossFrames ==
  IF offscreenUsedOnce
  THEN <<Barrier("scene", "read", "read"), Barrier("pingA", "read", "read"),
         Barrier("pingB", "read", "read")>>
  ELSE << >>

\* After the last segment the scene is drawn to the window.
Finish(last) == <<Barrier("scene", "attachment", "read"), Sample("scene", last)>>

-----------------------------------------------------------------------------

\* recordCommandBuffer of a frame with these markers.
Record ==
  /\ commands = << >>
  /\ frame < MaxFrames
  /\ \E n \in 1 .. MaxBlurs : \E markers \in [1 .. n -> BOOLEAN] : ahead' = markers
  /\ commands' = AcrossFrames \o <<ScenePass(1)>>
  /\ drawing' = 1
  /\ frame' = frame + 1
  /\ offscreenUsedOnce' = TRUE
  /\ UNCHANGED <<layout, content, sampled, visible, chain>>

\* The recreation of the swapchain waits for the GPU and makes new images.
Recreate ==
  /\ commands = << >>
  /\ chain < MaxChains
  /\ chain' = chain + 1
  /\ Fresh
  /\ UNCHANGED <<offscreenUsedOnce, commands, ahead, drawing, frame>>

\* What was recorded behind the command that is executed.
GoOn ==
  \/ /\ Tail(commands) # << >>
     /\ commands' = Tail(commands)
     /\ UNCHANGED <<ahead, drawing>>
  \/ /\ Tail(commands) = << >> /\ ahead # << >>
     /\ commands' = Marker(Head(ahead), drawing)
     /\ ahead' = Tail(ahead) /\ drawing' = drawing + 1
  \/ /\ Tail(commands) = << >> /\ ahead = << >>
     /\ commands' = IF drawing = 0 THEN << >> ELSE Finish(drawing)
     /\ drawing' = 0 /\ ahead' = ahead

ExecuteBarrier ==
  /\ Is("barrier")
  /\ layout' = [layout EXCEPT ![Command.image] = Command.to]
  /\ sampled' = {}
  /\ visible' = visible \cup {Command.image}
  /\ GoOn
  /\ UNCHANGED <<content, offscreenUsedOnce, frame, chain>>

ExecutePass ==
  /\ Is("pass")
  /\ layout' = [layout EXCEPT ![Command.image] = Command.to]
  /\ content' = [content EXCEPT ![Command.image] = [frame |-> frame, part |-> Command.part]]
  /\ visible' = visible \ {Command.image}
  /\ GoOn
  /\ UNCHANGED <<sampled, offscreenUsedOnce, frame, chain>>

ExecuteSample ==
  /\ Is("sample")
  /\ sampled' = sampled \cup {Command.image}
  /\ GoOn
  /\ UNCHANGED <<layout, content, visible, offscreenUsedOnce, frame, chain>>

Next == Record \/ Recreate \/ ExecuteBarrier \/ ExecutePass \/ ExecuteSample

Spec == Init /\ [][Next]_vars

-----------------------------------------------------------------------------
(* Properties *)

\* vulkan_renderer.cpp:883 calls the barriers at the start of a frame barriers
\* that keep the layout: each names the layout its image has.
BarriersNameTheLayout ==
  Is("barrier") => layout[Command.image] = Command.from
=============================================================================
