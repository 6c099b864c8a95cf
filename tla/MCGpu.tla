-------------------------------- MODULE MCGpu --------------------------------
(***************************************************************************)
(* Small instances of what the raster thread does with the GPU: the frames *)
(* in flight, with the numbers of the code on a swapchain of three images  *)
(* (Renderer), the pixels of an atlas page and of a bitmap with mip levels *)
(* on their way to it (TextureUpload), the life of the Vulkan objects      *)
(* (GpuObjects), the commands of a frame with backdrops to blur            *)
(* (OffscreenPasses) and the draw calls that a painted frame becomes       *)
(* (Painting).                                                             *)
(*                                                                         *)
(* They are checked side by side: "part", chosen once, says which of them  *)
(* runs, and the others rest in their initial states.                      *)
(***************************************************************************)
EXTENDS Renderer, TextureState, OffscreenState

VARIABLES
  part,
  made, chains, partial, ready, todo, call, busy, capacity, drawn,
  offscreenUsedOnce, ahead, drawing, passChain,
  open, vertices, batches, effectParams, roundClipStack, blurs, views, draws, recorded,
  turned

\* A view in the corner, one off the grid of pixels and one that is cut by the edge;
\* a background, a shadow under a rounded view, and a blurred rounded one.
Halves(x, y, w, h) == [x |-> x, y |-> y, w |-> w, h |-> h]
MCBounds == {Halves(0, 0, 4, 4), Halves(1, 1, 4, 2), Halves(6, 0, 2, 2)}
MCStyles ==
  { [shadow |-> FALSE, blur |-> FALSE, round |-> FALSE, background |-> TRUE],
    [shadow |-> TRUE, blur |-> FALSE, round |-> TRUE, background |-> TRUE],
    [shadow |-> FALSE, blur |-> TRUE, round |-> TRUE, background |-> FALSE] }

Uploads == INSTANCE TextureUpload WITH
  Mipmapped <- {2}, MaxWrites <- 3, MaxQueued <- 2,
  MaxFailures <- 2, MaxRestarts <- 1
Objects == INSTANCE GpuObjects WITH
  Slot <- {1, 2}, MaxChains <- 2, First <- 1, Biggest <- 3, chain <- chains
Passes == INSTANCE OffscreenPasses WITH
  MaxFrames <- 2, MaxChains <- 2, MaxBlurs <- 3, chain <- passChain
Canvas == INSTANCE Painting WITH
  Width <- 3, Height <- 2, Bounds <- MCBounds, Styles <- MCStyles, Textures <- {0, 1},
  MaxViews <- 2, MaxDraws <- 2, commands <- recorded

ASSUME MCTextureAssumption == Uploads!TextureAssumption

objectsVars == <<made, chains, partial, ready, todo, call, busy, capacity, drawn>>
passesVars == <<passVars, offscreenUsedOnce, ahead, drawing, passChain>>
canvasVars == <<open, vertices, batches, effectParams, roundClipStack, blurs, views, draws,
                recorded, turned>>
suiteVars == <<part, vars, textureVars, objectsVars, passesVars, canvasVars>>

InFrames ==
  part = "frames" /\ UNCHANGED <<part, textureVars, objectsVars, passesVars, canvasVars>>
InTextures ==
  part = "textures" /\ UNCHANGED <<part, vars, objectsVars, passesVars, canvasVars>>
InObjects ==
  part = "objects" /\ UNCHANGED <<part, vars, textureVars, passesVars, canvasVars>>
InPasses ==
  part = "passes" /\ UNCHANGED <<part, vars, textureVars, objectsVars, canvasVars>>
InPainting ==
  part = "painting" /\ UNCHANGED <<part, vars, textureVars, objectsVars, passesVars>>

SuiteInit ==
  /\ part \in {"frames", "textures", "objects", "passes", "painting"}
  /\ Init /\ Uploads!Init /\ Objects!Init /\ Passes!Init /\ Canvas!Init

SuiteNext ==
  \/ InFrames /\ Next
  \/ InTextures /\ Uploads!Next
  \/ InObjects /\ Objects!Next
  \/ InPasses /\ Passes!Next
  \/ InPainting /\ Canvas!Next

\* The fairness of Renderer; the others have no property that needs any.
SuiteSpec ==
  /\ SuiteInit /\ [][SuiteNext]_suiteVars
  /\ WF_suiteVars(InFrames /\ Render)
  /\ WF_suiteVars(InFrames /\ ExecuteDraw) /\ WF_suiteVars(InFrames /\ ExecutePresent)

\* The types of the five.
Types ==
  TypeOK /\ Uploads!TypeOK /\ Objects!TypeOK /\ Passes!TypeOK /\ Canvas!TypeOK

\* Every Vulkan object is made from whole ones and destroyed after those made from
\* it and when the GPU is done with it; a frame finds all it draws with; and
\* shutdown leaves nothing but shader modules behind, whatever failed before
\* (VulkanRenderer::initialize, recreateSwapchain, shutdown and what they call).
ObjectsLiveSoundly == Objects!LifeIsSound /\ Objects!FramesHaveAll /\ Objects!NothingIsLeft

\* Every vertex of a frame with a pixel to show is drawn once, in the order of
\* painting, with its texture and its mask, onto the pixels of its clip and no others
\* however the window is turned, and a backdrop is blurred when all below it is drawn
\* and nothing above (View::paint, Canvas, VulkanRenderer::recordBatchRange).
DrawnAsPainted == Canvas!DrawnAsPainted

\* Once the window rests, the screen comes to show a frame drawn for its size, on
\* a static interface too (VulkanRenderer::render and its retries).
ScreenComesToRest == part = "frames" => ScreenConverges
=============================================================================
