----------------------------- MODULE TextureState ----------------------------
(***************************************************************************)
(* The state of the textures on their way from the UI thread to the GPU,   *)
(* and what is promised of it.  TextureUpload has the operations.          *)
(***************************************************************************)
EXTENDS Integers, FiniteSetsExt

CONSTANTS
  NumTextures,   \* bound on the textures registered
  Size           \* texels of a texture

VARIABLES
  \* TextureStore, on the UI thread
  count, pixels, dirty, region, writes, firstFrame,
  frames,                  \* deltas on their way: each maps ids to region and pixels
  \* TextureStoreSource, on the raster thread
  copies, copy, copyDirty, copyRegion,
  \* TextureCache
  image, uploaded, pendingUpload, gpu,
  step,                    \* raster: "idle", "applied", "ensured", "draw", "failed"
  uploadOk,                \* whether the last uploadPendingTextures recorded its copies
  cutShort,                \* uploaded atlas pages whose dirty region a failed upload consumed
  failures, restarts

textureVars == <<count, pixels, dirty, region, writes, firstFrame, frames, copies, copy,
                 copyDirty, copyRegion, image, uploaded, pendingUpload, gpu, step,
                 uploadOk, cutShort, failures, restarts>>

Texture == 1 .. NumTextures
Texel == 0 .. Size - 1
TexelsOf(r) == r.x .. r.x + r.w - 1

\* The frames that carry texel p of texture t.
Carriers(t, p) ==
  {i \in DOMAIN frames : t \in DOMAIN frames[i] /\ p \in TexelsOf(frames[i][t].region)}

\* What the raster thread will hold for texel p of t once every frame arrived.
OnArrival(t, p) ==
  IF Carriers(t, p) = {} THEN copy[t][p]
  ELSE frames[Max(Carriers(t, p))][t].pixels[p]

\* No write is lost between the threads: a texel the raster thread would not have
\* after the frames already built is still dirty on the UI thread, however many
\* writes were joined into one region and however the surface came and went.
NoWriteLost ==
  \A t \in 1 .. count, p \in Texel :
    \/ OnArrival(t, p) = pixels[t][p]
    \/ firstFrame
    \/ dirty[t] /\ p \in TexelsOf(region[t])

\* The raster thread never meets a delta for a texture it has not been told of
\* (the logic_error of texture_store_source.h line 30).
NeverRejected == step # "failed"

Current(t) == gpu[t] = copy[t]

\* After a successful upload every image shows what the raster thread holds, whatever
\* failed before, except the atlas pages that a failed upload cut short.
DrawnIsCurrent ==
  step = "draw" /\ uploadOk => \A t \in Texture \ cutShort : image[t] => Current(t)

\* No write to a texture is lost on its way, and no delta is refused, however
\* writes were joined and frames skipped or dropped; and what is drawn after a
\* successful upload is current but for the pages a failed one cut short
\* (TextureStore::takeUpdates, TextureStoreSource::apply and
\* TextureCache::uploadPendingTextures).
PixelsArrive == NoWriteLost /\ NeverRejected /\ DrawnIsCurrent
==============================================================================
