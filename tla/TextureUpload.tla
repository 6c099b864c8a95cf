--------------------------- MODULE TextureUpload ----------------------------
(***************************************************************************)
(* The way of pixels from the UI thread's TextureStore (core/src/ui/       *)
(* texture_store.cpp) through the texture deltas of the frames and the     *)
(* raster thread's TextureStoreSource (core/src/ui/texture_store_source.h) *)
(* into the images of the TextureCache (core/src/gpu/texture_cache.cpp).   *)
(*                                                                         *)
(* A texture is a row of Size texels: the union of rectangles and the      *)
(* clamping are done per axis in the code, so one axis shows both.  A      *)
(* texel holds the number of the write that set it.  Frames are queued and *)
(* applied in order, as FrameChannel promises.                             *)
(***************************************************************************)
EXTENDS TextureState, Sequences

CONSTANTS
  Mipmapped,     \* those registered with mip levels; the others are atlas pages
  MaxWrites,     \* bound on registrations and writes
  MaxQueued,     \* frames between the threads (2 slots)
  MaxFailures,   \* bound on failures of image creation and upload
  MaxRestarts    \* bound on compositors recreated

\* What the constants may be; an instance states it as its assumption.
TextureAssumption ==
  /\ NumTextures \in Nat /\ Mipmapped \subseteq 1 .. NumTextures
  /\ Size \in Nat \ {0, 1} /\ MaxWrites \in Nat /\ MaxQueued \in Nat \ {0}
  /\ MaxFailures \in Nat /\ MaxRestarts \in Nat

Unset == 0
Written == 0 .. MaxWrites

Region == {r \in [x : 0 .. Size, w : 0 .. Size] : r.x + r.w <= Size}
Empty == [x |-> 0, w |-> 0]
Whole == [x |-> 0, w |-> Size]

Blank == [p \in Texel |-> Unset]

storeVars == <<count, pixels, dirty, region, writes>>
sourceVars == <<copies, copy, copyDirty, copyRegion>>
cacheVars == <<image, uploaded, pendingUpload, gpu>>
historyVars == <<uploadOk, cutShort, failures, restarts>>
vars == textureVars

Init ==
  /\ count = 0
  /\ pixels = [t \in Texture |-> Blank]
  /\ dirty = [t \in Texture |-> FALSE]
  /\ region = [t \in Texture |-> Empty]
  /\ writes = 0
  /\ firstFrame = TRUE
  /\ frames = << >>
  /\ copies = 0
  /\ copy = [t \in Texture |-> Blank]
  /\ copyDirty = [t \in Texture |-> FALSE]
  /\ copyRegion = [t \in Texture |-> Empty]
  /\ image = [t \in Texture |-> FALSE]
  /\ uploaded = [t \in Texture |-> FALSE]
  /\ pendingUpload = [t \in Texture |-> TRUE]
  /\ gpu = [t \in Texture |-> Blank]
  /\ step = "idle"
  /\ uploadOk = FALSE
  /\ cutShort = {}
  /\ failures = 0
  /\ restarts = 0

-----------------------------------------------------------------------------
(* TextureStore *)

Least(a, b) == IF a < b THEN a ELSE b
Greatest(a, b) == IF a < b THEN b ELSE a

\* Slip: the right edge is stored as the width.
UnionKeepsRight(r, s) ==
  [x |-> Least(r.x, s.x), w |-> Greatest(r.x + r.w, s.x + s.w)]

\* Slip: the last rectangle wins.
UnionLast(r, s) == s

\* The bounding region of two regions.
Union(r, s) ==
  [x |-> Least(r.x, s.x),
   w |-> Greatest(r.x + r.w, s.x + s.w) - Least(r.x, s.x)]

\* markDirtyRegion: clamp to the texture, join with what is dirty already.
Marked(isDirty, old, x, w) ==
  LET r == [x |-> x, w |-> Least(w, Size - x)] IN
    IF isDirty THEN Union(old, r) ELSE r

Over(old, r, new) == [p \in Texel |-> IF p \in TexelsOf(r) THEN new[p] ELSE old[p]]

AddTexture ==
  /\ count < NumTextures
  /\ writes < MaxWrites
  /\ writes' = writes + 1
  /\ count' = count + 1
  /\ pixels' = [pixels EXCEPT ![count'] = [p \in Texel |-> writes']]
  /\ dirty' = [dirty EXCEPT ![count'] = TRUE]
  /\ region' = [region EXCEPT ![count'] = Whole]
  /\ UNCHANGED <<firstFrame, frames, sourceVars, cacheVars, step, historyVars>>

\* mutablePixels and markDirtyRegion, as the font engine does for a glyph; the
\* width may reach past the edge.
Write(t, x, w) ==
  /\ t <= count
  /\ writes < MaxWrites
  /\ writes' = writes + 1
  /\ region' = [region EXCEPT ![t] = Marked(dirty[t], region[t], x, w)]
  /\ dirty' = [dirty EXCEPT ![t] = TRUE]
  /\ pixels' = [pixels EXCEPT ![t] =
                  Over(pixels[t], [x |-> x, w |-> Least(w, Size - x)],
                       [p \in Texel |-> writes'])]
  /\ UNCHANGED <<count, firstFrame, frames, sourceVars, cacheVars, step, historyVars>>

\* Slip: only what is dirty, for the first frame of a compositor too.
UpdatesDirtyOnly ==
  [t \in {u \in 1 .. count : dirty[u]} |->
     [region |-> region[t], pixels |-> pixels[t]]]

\* takeUpdates(firstFrame); of the pixels only those in the region are copied.
Updates ==
  [t \in {u \in 1 .. count : firstFrame \/ dirty[u]} |->
     LET r == IF firstFrame THEN Whole ELSE region[t] IN
       [region |-> r, pixels |-> Over(Blank, r, pixels[t])]]

\* The builder of renderFrame takes the deltas; they are consumed only after all
\* of them were copied.
BuildFrame ==
  /\ Len(frames) < MaxQueued
  /\ frames' = Append(frames, Updates)
  /\ dirty' = [t \in Texture |-> dirty[t] /\ t \notin DOMAIN Updates]
  /\ region' = [t \in Texture |-> IF t \in DOMAIN Updates THEN Empty ELSE region[t]]
  /\ firstFrame' = FALSE
  /\ UNCHANGED <<count, pixels, writes, sourceVars, cacheVars, step, historyVars>>

-----------------------------------------------------------------------------
(* TextureStoreSource *)

\* apply() accepts known ids and, one after the other, the next new ones.
Acceptable(u) == \A t \in DOMAIN u : \A s \in copies + 1 .. t : s \in DOMAIN u

Apply ==
  /\ step = "idle"
  /\ frames # << >>
  /\ frames' = Tail(frames)
  /\ LET u == Head(frames) IN
       IF Acceptable(u)
         THEN /\ copies' = Max(DOMAIN u \cup {copies})
              /\ copy' = [t \in Texture |->
                   IF t \in DOMAIN u THEN Over(copy[t], u[t].region, u[t].pixels)
                                     ELSE copy[t]]
              /\ copyRegion' = [t \in Texture |->
                   IF t \notin DOMAIN u THEN copyRegion[t]
                   ELSE IF t > copies THEN Whole
                   ELSE Marked(copyDirty[t], copyRegion[t], u[t].region.x, u[t].region.w)]
              /\ copyDirty' = [t \in Texture |-> copyDirty[t] \/ t \in DOMAIN u]
              /\ step' = "applied"
         ELSE /\ step' = "failed"
              /\ UNCHANGED sourceVars
  /\ UNCHANGED <<storeVars, firstFrame, cacheVars, historyVars>>

\* The frame is stale, or the renderer retries before it records anything.
SkipFrame ==
  /\ step = "applied"
  /\ step' = "idle"
  /\ UNCHANGED <<storeVars, firstFrame, frames, sourceVars, cacheVars, historyVars>>

-----------------------------------------------------------------------------
(* TextureCache *)

\* ensureStoreTextures: the images in failed cannot be created this time.
EnsureTextures(failed) ==
  /\ step = "applied"
  /\ failed \subseteq {t \in 1 .. copies : ~image[t]}
  /\ failures + Cardinality(failed) <= MaxFailures
  /\ failures' = failures + Cardinality(failed)
  /\ image' = [t \in Texture |-> image[t] \/ (t <= copies /\ t \notin failed)]
  /\ step' = "ensured"
  /\ UNCHANGED <<storeVars, firstFrame, frames, sourceVars, uploaded, pendingUpload, gpu,
                 uploadOk, cutShort, restarts>>

\* consumeDirty's out parameter stays empty for a texture that is not dirty.
Consumed(t) == IF copyDirty[t] THEN copyRegion[t] ELSE Empty

ToUpload == {t \in Texture : image[t] /\ (pendingUpload[t] \/ copyDirty[t])}

\* Slip: a page that was never uploaded is uploaded in part as well.
PartialAnyway(t) ==
  t \notin Mipmapped /\ Consumed(t).w > 0 /\ Consumed(t) # Whole

\* Only the dirty region is copied.
Partial(t) ==
  /\ uploaded[t]
  /\ t \notin Mipmapped
  /\ Consumed(t).w > 0
  /\ Consumed(t) # Whole

ConsumeDirty ==
  /\ copyDirty' = [t \in Texture |-> copyDirty[t] /\ ~image[t]]
  /\ copyRegion' = [t \in Texture |-> IF image[t] THEN Empty ELSE copyRegion[t]]

\* uploadPendingTextures records every copy.
Upload ==
  /\ step = "ensured"
  /\ ConsumeDirty
  /\ gpu' = [t \in Texture |->
       IF t \notin ToUpload THEN gpu[t]
       ELSE Over(gpu[t], IF Partial(t) THEN Consumed(t) ELSE Whole, copy[t])]
  /\ uploaded' = [t \in Texture |-> uploaded[t] \/ t \in ToUpload]
  /\ pendingUpload' = [t \in Texture |-> pendingUpload[t] /\ t \notin ToUpload]
  /\ step' = "draw"
  /\ uploadOk' = TRUE
  /\ cutShort' = {t \in cutShort : t \notin ToUpload \/ Partial(t)}
  /\ UNCHANGED <<storeVars, firstFrame, frames, copies, copy, image, failures, restarts>>

\* The staging buffer cannot grow or be mapped, or a conversion fails: it returns
\* with the dirty flags consumed and pendingUpload set, and the frame is drawn.
UploadFails ==
  /\ step = "ensured"
  /\ failures < MaxFailures
  /\ failures' = failures + 1
  /\ ToUpload # {}
  /\ ConsumeDirty
  /\ pendingUpload' = [t \in Texture |-> pendingUpload[t] \/ t \in ToUpload]
  /\ step' = "draw"
  /\ uploadOk' = FALSE
  /\ cutShort' = cutShort \cup {t \in ToUpload : uploaded[t] /\ t \notin Mipmapped}
  /\ UNCHANGED <<storeVars, firstFrame, frames, copies, copy, image, uploaded, gpu,
                 restarts>>

Draw ==
  /\ step = "draw"
  /\ step' = "idle"
  /\ UNCHANGED <<storeVars, firstFrame, frames, sourceVars, cacheVars, historyVars>>

\* The surface is destroyed and created again: source and cache are new, frames in
\* between are gone, the UI thread's store stays.
Restart ==
  /\ restarts < MaxRestarts
  /\ restarts' = restarts + 1
  /\ firstFrame' = TRUE
  /\ frames' = << >>
  /\ copies' = 0
  /\ copy' = [t \in Texture |-> Blank]
  /\ copyDirty' = [t \in Texture |-> FALSE]
  /\ copyRegion' = [t \in Texture |-> Empty]
  /\ image' = [t \in Texture |-> FALSE]
  /\ uploaded' = [t \in Texture |-> FALSE]
  /\ pendingUpload' = [t \in Texture |-> TRUE]
  /\ gpu' = [t \in Texture |-> Blank]
  /\ step' = "idle"
  /\ uploadOk' = FALSE
  /\ cutShort' = {}
  /\ UNCHANGED <<storeVars, failures>>

-----------------------------------------------------------------------------
Next ==
  \/ AddTexture
  \/ \E t \in Texture, x \in Texel, w \in 1 .. Size : Write(t, x, w)
  \/ BuildFrame
  \/ Apply
  \/ SkipFrame
  \/ \E failed \in SUBSET Texture : EnsureTextures(failed)
  \/ Upload
  \/ UploadFails
  \/ Draw
  \/ Restart

Spec == Init /\ [][Next]_vars

-----------------------------------------------------------------------------
(* Properties *)

Image == [Texel -> Written]

TypeOK ==
  /\ count \in 0 .. NumTextures /\ copies \in 0 .. NumTextures
  /\ pixels \in [Texture -> Image] /\ copy \in [Texture -> Image]
  /\ gpu \in [Texture -> Image]
  /\ dirty \in [Texture -> BOOLEAN] /\ copyDirty \in [Texture -> BOOLEAN]
  /\ region \in [Texture -> Region] /\ copyRegion \in [Texture -> Region]
  /\ writes \in Written
  /\ firstFrame \in BOOLEAN /\ uploadOk \in BOOLEAN
  /\ Len(frames) <= MaxQueued
  /\ \A i \in DOMAIN frames : \A t \in DOMAIN frames[i] :
       t \in Texture /\ frames[i][t] \in [region : Region, pixels : Image]
  /\ image \in [Texture -> BOOLEAN] /\ uploaded \in [Texture -> BOOLEAN]
  /\ pendingUpload \in [Texture -> BOOLEAN]
  /\ step \in {"idle", "applied", "ensured", "draw", "failed"}
  /\ cutShort \subseteq Texture
  /\ failures \in 0 .. MaxFailures /\ restarts \in 0 .. MaxRestarts

\* texture_cache.cpp lines 328-330: a retry after a failed upload, whose dirty flag
\* was already taken, uploads the whole texture.  It does not when another region
\* became dirty in between.
RetryUploadsWhole ==
  step = "draw" /\ uploadOk => \A t \in Texture : image[t] => Current(t)
=============================================================================
