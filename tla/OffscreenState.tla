--------------------------- MODULE OffscreenState ---------------------------
(***************************************************************************)
(* The images of OffscreenEffects (core/src/gpu/offscreen_effects.cpp), the *)
(* commands that draw into them and sample them, and what is promised of   *)
(* these.  OffscreenPasses has the operations.                             *)
(***************************************************************************)
EXTENDS Integers, Sequences

VARIABLES
  layout,              \* layout of each image
  content,             \* [frame, part]: what each image shows
  sampled,             \* images read by commands that no barrier has ordered yet
  visible,             \* images whose last writes a barrier has made visible
  commands,            \* those the GPU executes next, up to the next marker
  frame                \* frames recorded so far

passVars == <<layout, content, sampled, visible, commands, frame>>

Is(op) == commands # << >> /\ Head(commands).op = op
Command == Head(commands)

-----------------------------------------------------------------------------
(* Properties *)

\* A draw samples what this frame drew into the image up to this segment,
\* made visible and in the layout its descriptor names; a segment that loads
\* finds the segments before it; and no pass overwrites what a draw before it,
\* of this frame or the last, may still be sampling (recordCommandBuffer with
\* any number of backdrops, on and off the screen, and rebuilds in between).
ImagesHoldWhatIsSampled ==
  /\ Is("sample") =>
       /\ content[Command.image] = [frame |-> frame, part |-> Command.part]
       /\ layout[Command.image] = "read"
       /\ Command.image \in visible
  /\ Is("pass") =>
       /\ Command.image \notin sampled
       /\ Command.from = "attachment" =>
            /\ layout[Command.image] = "attachment"
            /\ content[Command.image] = [frame |-> frame, part |-> Command.part - 1]
=============================================================================
