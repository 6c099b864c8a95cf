------------------------ MODULE TextureUploadProofs ------------------------
(* Theorems about TextureUpload, for any number and size of textures, any  *)
(* number of writes, of frames between the threads, of failures and of     *)
(* surfaces; about GlyphAtlas, which writes to such textures, for any      *)
(* glyphs of any extents and any size and number of pages; and about       *)
(* TextFlow, which says where such glyphs are drawn, for any text, widths  *)
(* of glyphs, breaks, width of a line and number of lines.                 *)
EXTENDS TextureUpload, TextOnScreen, SequenceTheorems, FiniteSetTheorems,
        WellFoundedInduction, TLAPS

CONSTANTS Glyph, Extents, kMaxAtlasPages
VARIABLE pages

Atlas == INSTANCE GlyphAtlas

CONSTANTS MaxGlyphs, Widths, Limits
VARIABLES maxLines, at, lineStart, lastBreak

Lines == INSTANCE TextFlow WITH i <- at

(***************************************************************************)
(* What the three parts owe each other.  Between the threads: a texture is *)
(* told of before it is written to, and no write is forgotten.  On the     *)
(* raster thread: where an image differs from the copy, a flag still says  *)
(* so, but for the pages that a failed upload cut short.                   *)
(***************************************************************************)

Delta == UNION {[ids -> [region : Region, pixels : Image]] : ids \in SUBSET Texture}

DeltasTyped == frames \in Seq(Delta)

\* A delta arrives together with or after those of all textures before it.
InOrderOfIds ==
  \A i \in DOMAIN frames : \A t \in DOMAIN frames[i] : \A s \in copies + 1 .. t :
    \E j \in 1 .. i : s \in DOMAIN frames[j]

\* A texture the raster thread has not got is on its way or will be sent.
ToBeTold ==
  ~firstFrame =>
    \A s \in 1 .. count :
      s <= copies \/ dirty[s] \/ \E j \in DOMAIN frames : s \in DOMAIN frames[j]

\* The image of texture t shows the copy, or a flag makes the next upload mend it.
FlaggedOrCurrent(t) ==
  \A p \in Texel :
    \/ gpu[t][p] = copy[t][p]
    \/ copyDirty[t] /\ p \in TexelsOf(copyRegion[t])
    \/ t \in Mipmapped /\ pendingUpload[t]

UploadsOwed ==
  \A t \in Texture :
    IF uploaded[t] THEN image[t] /\ (t \in cutShort \/ FlaggedOrCurrent(t))
                   ELSE pendingUpload[t]

SourceInv == NoWriteLost /\ InOrderOfIds /\ ToBeTold /\ NeverRejected
CacheInv == UploadsOwed /\ DrawnIsCurrent
IInv == TypeOK /\ DeltasTyped /\ SourceInv /\ CacheInv

-----------------------------------------------------------------------------
(* The greatest of some numbers, and what a texel becomes on arrival *)

\* A set of numbers up to n that is not empty has a greatest element.
LEMMA MaxExists == ASSUME NEW n \in Nat, NEW S \in SUBSET (0 .. n), S # {}
  PROVE Max(S) \in S /\ \A y \in S : y <= Max(S)
<1> DEFINE R == OpToRel(<, Nat)
           T == {n - x : x \in S}
<1>1. T \in SUBSET Nat /\ T # {}
  <2> HIDE DEF R
  <2>1. \A x \in S : n - x \in Nat
    OBVIOUS
  <2> QED BY <2>1
<1>2. IsWellFoundedOn(R, Nat)
  BY NatLessThanWellFounded
<1>a. \A x, y \in Nat : y < x => <<y, x>> \in R
  BY SMT DEF OpToRel
<1>3. \E x \in T : \A y \in T : ~(<<y, x>> \in R)
  <2> HIDE DEF R, T
  <2> QED BY <1>1, <1>2, WFMin
<1>4. PICK x \in T : \A y \in T : ~(<<y, x>> \in R)
  BY <1>3
<1>5. PICK m \in S : x = n - m
  BY <1>4
<1>6. \A y \in S : y <= m
  <2> SUFFICES ASSUME NEW y \in S, ~(y <= m) PROVE FALSE
    OBVIOUS
  <2>1. n - y \in T /\ n - y \in Nat /\ x \in Nat /\ n - y < x
    BY <1>5
  <2> HIDE DEF R, T
  <2> QED BY <2>1, <1>a, <1>4
<1>7. \E k \in S : \A y \in S : k >= y
  BY <1>6
<1> QED
  BY <1>7 DEF Max

\* There is only one.
LEMMA MaxIs == ASSUME NEW n \in Nat, NEW S \in SUBSET (0 .. n), NEW m \in S,
                      \A y \in S : y <= m
               PROVE  Max(S) = m
<1>1. Max(S) \in S /\ m <= Max(S)
  BY MaxExists
<1>2. Max(S) \in 0 .. n /\ m \in 0 .. n
  BY <1>1
<1>3. Max(S) <= m
  BY <1>1
<1> HIDE DEF Max
<1> QED
  BY <1>1, <1>2, <1>3

Carried(d, t, p) == t \in DOMAIN d /\ p \in TexelsOf(d[t].region)
CarriersOf(fs, t, p) == {i \in 1 .. Len(fs) : Carried(fs[i], t, p)}

\* The texel when the deltas fs have arrived at a copy that holds c for it.
Arriving(fs, c, t, p) ==
  IF CarriersOf(fs, t, p) = {} THEN c ELSE fs[Max(CarriersOf(fs, t, p))][t].pixels[p]

\* One more delta at the end decides the texels that it carries.
LEMMA ArrivingAppend ==
  ASSUME NEW S, NEW fs \in Seq(S), NEW d \in S, NEW c, NEW t, NEW p
  PROVE  Arriving(Append(fs, d), c, t, p)
           = IF Carried(d, t, p) THEN d[t].pixels[p] ELSE Arriving(fs, c, t, p)
<1> DEFINE n == Len(fs)
           gs == Append(fs, d)
<1>1. /\ n \in Nat /\ gs \in Seq(S) /\ Len(gs) = n + 1 /\ gs[n + 1] = d
      /\ \A i \in 1 .. n : gs[i] = fs[i]
  BY AppendProperties, LenProperties
<1> HIDE DEF gs, n
<1>2. CASE Carried(d, t, p)
  <2>1. n + 1 \in CarriersOf(gs, t, p) /\ CarriersOf(gs, t, p) \in SUBSET (0 .. n + 1)
    BY <1>1, <1>2 DEF CarriersOf
  <2>2. \A i \in CarriersOf(gs, t, p) : i <= n + 1
    BY <1>1, <2>1
  <2>3. Max(CarriersOf(gs, t, p)) = n + 1
    <3>1. n + 1 \in Nat
      BY <1>1
    <3> QED
      BY <3>1, <2>1, <2>2, MaxIs
  <2> QED
    BY <1>1, <1>2, <2>1, <2>3 DEF Arriving, gs
<1>3. CASE ~Carried(d, t, p)
  <2>1. CarriersOf(gs, t, p) = CarriersOf(fs, t, p)
    BY <1>1, <1>3 DEF CarriersOf, n
  <2>2. CarriersOf(fs, t, p) \in SUBSET (0 .. n)
    BY <1>1 DEF CarriersOf, n
  <2>3. CASE CarriersOf(fs, t, p) = {}
    BY <1>3, <2>1, <2>3 DEF Arriving, gs
  <2>4. CASE CarriersOf(fs, t, p) # {}
    <3>1. Max(CarriersOf(fs, t, p)) \in CarriersOf(fs, t, p)
      BY <1>1, <2>2, <2>4, MaxExists
    <3>2. Max(CarriersOf(fs, t, p)) \in 1 .. n
      BY <3>1 DEF CarriersOf, n
    <3> QED
      BY <1>1, <1>3, <2>1, <2>4, <3>2 DEF Arriving, gs
  <2> QED
    BY <2>3, <2>4
<1> QED
  BY <1>2, <1>3

\* The first delta changes nothing about what arrives by being copied.
LEMMA ArrivingTail ==
  ASSUME NEW S, NEW fs \in Seq(S), fs # << >>, NEW c, NEW t, NEW p
  PROVE  Arriving(fs, c, t, p)
           = Arriving(Tail(fs),
                      IF Carried(Head(fs), t, p) THEN Head(fs)[t].pixels[p] ELSE c, t, p)
<1> DEFINE n == Len(fs)
           gs == Tail(fs)
           rest == CarriersOf(gs, t, p)
           all == CarriersOf(fs, t, p)
<1>1. /\ n \in Nat \ {0} /\ gs \in Seq(S) /\ Len(gs) = n - 1 /\ Head(fs) = fs[1]
      /\ \A i \in 1 .. n - 1 : gs[i] = fs[i + 1]
  BY HeadTailProperties, LenProperties, EmptySeq
<1>2. all \in SUBSET (0 .. n) /\ rest \in SUBSET (0 .. n) /\ 0 \notin all
  BY <1>1 DEF CarriersOf
<1>3. \A i \in rest : i + 1 \in all
  BY <1>1 DEF CarriersOf
<1>4. \A i \in all : i = 1 \/ (i - 1 \in rest /\ i \in 2 .. n)
  <2> SUFFICES ASSUME NEW i \in all, i # 1 PROVE i - 1 \in rest /\ i \in 2 .. n
    OBVIOUS
  <2>1. i \in 2 .. n /\ i - 1 \in 1 .. n - 1 /\ (i - 1) + 1 = i
    BY <1>1 DEF CarriersOf
  <2>2. gs[i - 1] = fs[i]
    BY <1>1, <2>1
  <2> QED
    BY <1>1, <2>1, <2>2 DEF CarriersOf
<1>5. 1 \in all <=> Carried(Head(fs), t, p)
  BY <1>1 DEF CarriersOf
<1> HIDE DEF all, rest, gs, n
<1>6. CASE rest # {}
  <2>1. Max(rest) \in rest /\ \A y \in rest : y <= Max(rest)
    BY <1>1, <1>2, <1>6, MaxExists
  <2>2. Max(rest) \in 1 .. n - 1
    BY <1>1, <2>1 DEF rest, CarriersOf
  <2>3. Max(rest) + 1 \in all /\ \A y \in all : y <= Max(rest) + 1
    <3> SUFFICES ASSUME NEW y \in all PROVE y <= Max(rest) + 1
      BY <1>3, <2>1
    <3>1. y \in 0 .. n
      BY <1>2
    <3>2. y = 1 \/ y - 1 <= Max(rest)
      BY <1>4, <2>1
    <3> QED
      BY <2>2, <3>1, <3>2, <1>1
  <2>4. Max(all) = Max(rest) + 1
    BY <1>1, <1>2, <2>3, MaxIs
  <2>5. gs[Max(rest)] = fs[Max(all)]
    BY <1>1, <2>2, <2>4
  <2> QED
    BY <1>6, <2>3, <2>5 DEF Arriving, all, rest, gs
<1>7. CASE rest = {} /\ 1 \in all
  <2>1. \A y \in all : y <= 1
    BY <1>4, <1>7
  <2>2. Max(all) = 1
    BY <1>1, <1>2, <1>7, <2>1, MaxIs
  <2> QED
    BY <1>1, <1>5, <1>7, <2>2 DEF Arriving, all, rest, gs
<1>8. CASE rest = {} /\ 1 \notin all
  <2>1. all = {}
    BY <1>4, <1>8
  <2> QED
    BY <1>5, <1>8, <2>1 DEF Arriving, all, rest, gs
<1> QED
  BY <1>6, <1>7, <1>8

-----------------------------------------------------------------------------
(* Regions and images *)

LEMMA RegionIs ==
  TextureAssumption =>
    /\ \A r \in Region : r.x \in 0 .. Size /\ r.w \in 0 .. Size /\ r.x + r.w <= Size
    /\ \A x, w \in 0 .. Size : x + w <= Size => [x |-> x, w |-> w] \in Region
  BY DEF TextureAssumption, Region

\* markDirtyRegion keeps to the texture and forgets nothing.
LEMMA MarkedCovers ==
  ASSUME TextureAssumption, NEW old \in Region, NEW d \in BOOLEAN,
         NEW x \in 0 .. Size, NEW w \in 0 .. Size
  PROVE  /\ Marked(d, old, x, w) \in Region
         /\ TexelsOf([x |-> x, w |-> Least(w, Size - x)]) \subseteq TexelsOf(Marked(d, old, x, w))
         /\ d => TexelsOf(old) \subseteq TexelsOf(Marked(d, old, x, w))
<1> DEFINE r == [x |-> x, w |-> Least(w, Size - x)]
           u == Union(old, r)
<1>1. Size \in Nat
  BY DEF TextureAssumption
<1>2. r.x = x /\ r.w \in 0 .. Size /\ x + r.w <= Size /\ r \in Region
  BY <1>1, RegionIs DEF Least
<1>3. old.x \in 0 .. Size /\ old.w \in 0 .. Size /\ old.x + old.w <= Size
  BY RegionIs
<1>4. /\ u.x \in 0 .. Size /\ u.w \in Int /\ u.x <= x /\ u.x <= old.x
      /\ x + r.w <= u.x + u.w /\ old.x + old.w <= u.x + u.w
      /\ u.x + u.w <= Size
  <2> HIDE DEF r
  <2> QED BY <1>1, <1>2, <1>3 DEF Union, Least, Greatest
<1>5. u = [x |-> u.x, w |-> u.w]
  BY DEF Union
<1> HIDE DEF r, u
<1>6. u \in Region
  <2>1. u.w \in 0 .. Size
    BY <1>1, <1>2, <1>3, <1>4
  <2> QED
    BY <1>4, <1>5, <2>1, RegionIs
<1>7. TexelsOf(r) \subseteq TexelsOf(u) /\ TexelsOf(old) \subseteq TexelsOf(u)
  BY <1>1, <1>2, <1>3, <1>4 DEF TexelsOf
<1>8. Marked(d, old, x, w) = IF d THEN u ELSE r
  BY DEF Marked, u, r
<1> QED
  BY <1>2, <1>6, <1>7, <1>8 DEF r

LEMMA Regions ==
  TextureAssumption =>
    /\ Empty \in Region /\ Whole \in Region /\ TexelsOf(Empty) = {}
    /\ TexelsOf(Whole) = Texel
    /\ \A r \in Region : TexelsOf(r) \subseteq Texel
  BY RegionIs DEF TextureAssumption, Empty, Whole, TexelsOf, Texel

LEMMA OverIs ==
  ASSUME TextureAssumption, NEW a \in Image, NEW b \in Image, NEW r
  PROVE  /\ Over(a, r, b) \in Image
         /\ \A p \in Texel : Over(a, r, b)[p] = IF p \in TexelsOf(r) THEN b[p] ELSE a[p]
  BY DEF Over, Image

LEMMA Constants ==
  TextureAssumption =>
    /\ Blank \in Image
    /\ \A n \in Written : [p \in Texel |-> n] \in Image
    /\ NumTextures \in Nat /\ Texture \subseteq Nat /\ MaxWrites \in Nat
  BY DEF TextureAssumption, Blank, Image, Written, Unset, Texture

-----------------------------------------------------------------------------
(* Types *)

Typed == TypeOK /\ DeltasTyped

\* Of a delta.
LEMMA DeltaIs ==
  ASSUME NEW d \in Delta
  PROVE  /\ DOMAIN d \subseteq Texture
         /\ \A t \in DOMAIN d :
              d[t] \in [region : Region, pixels : Image]
              /\ d[t].region \in Region /\ d[t].pixels \in Image
  BY DEF Delta

\* What takeUpdates hands over.
LEMMA UpdatesAre ==
  ASSUME TextureAssumption, Typed
  PROVE  /\ Updates \in Delta
         /\ DOMAIN Updates = {t \in 1 .. count : firstFrame \/ dirty[t]}
         /\ \A t \in DOMAIN Updates :
              /\ Updates[t].region = (IF firstFrame THEN Whole ELSE region[t])
              /\ \A p \in TexelsOf(Updates[t].region) : Updates[t].pixels[p] = pixels[t][p]
<1> DEFINE ids == {t \in 1 .. count : firstFrame \/ dirty[t]}
           r(t) == IF firstFrame THEN Whole ELSE region[t]
<1>1. ids \in SUBSET Texture
  BY Constants DEF Typed, TypeOK, Texture
<1>2. \A t \in ids : r(t) \in Region /\ pixels[t] \in Image
  BY <1>1, Regions DEF Typed, TypeOK
<1>3. \A t \in ids :
        /\ Over(Blank, r(t), pixels[t]) \in Image
        /\ \A p \in TexelsOf(r(t)) : Over(Blank, r(t), pixels[t])[p] = pixels[t][p]
  <2> SUFFICES ASSUME NEW t \in ids
               PROVE  /\ Over(Blank, r(t), pixels[t]) \in Image
                      /\ \A p \in TexelsOf(r(t)) :
                           Over(Blank, r(t), pixels[t])[p] = pixels[t][p]
    OBVIOUS
  <2>1. r(t) \in Region /\ pixels[t] \in Image /\ Blank \in Image
    BY <1>2, Constants
  <2> HIDE DEF ids, r
  <2>2. TexelsOf(r(t)) \subseteq Texel
    BY <2>1, Regions
  <2> QED
    BY <2>1, <2>2, OverIs
<1>4. Updates = [t \in ids |-> [region |-> r(t), pixels |-> Over(Blank, r(t), pixels[t])]]
  BY DEF Updates
<1> HIDE DEF ids, r
<1>5. Updates \in [ids -> [region : Region, pixels : Image]]
  BY <1>2, <1>3, <1>4
<1>6. Updates \in Delta
  BY <1>1, <1>5 DEF Delta
<1>7. DOMAIN Updates = ids /\ \A t \in ids : Updates[t].region = r(t)
        /\ Updates[t].pixels = Over(Blank, r(t), pixels[t])
  BY <1>4
<1> QED
  BY <1>3, <1>6, <1>7 DEF ids, r

LEMMA FramesAre ==
  ASSUME TextureAssumption, Typed
  PROVE  /\ Len(frames) \in Nat /\ DOMAIN frames = 1 .. Len(frames)
         /\ \A i \in 1 .. Len(frames) : frames[i] \in Delta
  BY LenProperties DEF Typed, DeltasTyped

LEMMA TypesInitially == TextureAssumption /\ Init => Typed
<1> SUFFICES ASSUME TextureAssumption, Init PROVE Typed
  OBVIOUS
<1>1. frames \in Seq(Delta) /\ Len(frames) = 0
  BY EmptySeq DEF Init
<1>2. Len(frames) <= MaxQueued /\ \A i \in DOMAIN frames : FALSE
  BY <1>1, LenProperties DEF TextureAssumption, Init
<1>3. /\ count \in 0 .. NumTextures /\ copies \in 0 .. NumTextures /\ writes \in Written
      /\ failures \in 0 .. MaxFailures /\ restarts \in 0 .. MaxRestarts
  BY DEF Init, TextureAssumption, Written
<1>4. /\ pixels \in [Texture -> Image] /\ copy \in [Texture -> Image]
      /\ gpu \in [Texture -> Image]
      /\ region \in [Texture -> Region] /\ copyRegion \in [Texture -> Region]
  BY Constants, Regions DEF Init
<1>5. /\ dirty \in [Texture -> BOOLEAN] /\ copyDirty \in [Texture -> BOOLEAN]
      /\ image \in [Texture -> BOOLEAN] /\ uploaded \in [Texture -> BOOLEAN]
      /\ pendingUpload \in [Texture -> BOOLEAN]
      /\ step = "idle" /\ firstFrame \in BOOLEAN /\ uploadOk \in BOOLEAN
      /\ cutShort \subseteq Texture
  BY DEF Init
<1> QED
  BY <1>1, <1>2, <1>3, <1>4, <1>5 DEF Typed, TypeOK, DeltasTyped

LEMMA TypesStep == TextureAssumption /\ Typed /\ [Next]_vars => Typed'
<1> SUFFICES ASSUME TextureAssumption, Typed, [Next]_vars PROVE Typed'
  OBVIOUS
<1>1. ASSUME AddTexture PROVE Typed'
  <2>1. writes' \in Written /\ count' \in 0 .. NumTextures /\ count' \in Texture
    BY <1>1, Constants DEF AddTexture, Typed, TypeOK, Written, Texture
  <2>2. pixels' \in [Texture -> Image] /\ region' \in [Texture -> Region]
    <3>1. [p \in Texel |-> writes'] \in Image /\ Whole \in Region
      BY <2>1, Constants, Regions
    <3> QED
      BY <1>1, <2>1, <3>1 DEF AddTexture, Typed, TypeOK
  <2>3. dirty' \in [Texture -> BOOLEAN]
    BY <1>1 DEF AddTexture, Typed, TypeOK
  <2> QED
    BY <1>1, <2>1, <2>2, <2>3 DEF AddTexture, Typed, TypeOK, DeltasTyped, sourceVars,
       cacheVars, historyVars
<1>2. ASSUME NEW t \in Texture, NEW x \in Texel, NEW w \in 1 .. Size, Write(t, x, w)
      PROVE  Typed'
  <2>1. writes' \in Written
    BY <1>2, Constants DEF Write, Typed, TypeOK, Written
  <2>2. pixels' \in [Texture -> Image]
    <3>1. [p \in Texel |-> writes'] \in Image /\ pixels[t] \in Image
      BY <2>1, Constants DEF Typed, TypeOK
    <3> QED
      BY <1>2, <3>1, OverIs DEF Write, Typed, TypeOK
  <2>3. region' \in [Texture -> Region]
    <3>1. x \in 0 .. Size /\ w \in 0 .. Size /\ region[t] \in Region /\ dirty[t] \in BOOLEAN
      BY DEF Texel, TextureAssumption, Typed, TypeOK
    <3>2. Marked(dirty[t], region[t], x, w) \in Region
      BY <3>1, MarkedCovers
    <3> QED
      BY <1>2, <3>2 DEF Write, Typed, TypeOK
  <2>4. dirty' \in [Texture -> BOOLEAN]
    BY <1>2 DEF Write, Typed, TypeOK
  <2> QED
    BY <1>2, <2>1, <2>2, <2>3, <2>4 DEF Write, Typed, TypeOK, DeltasTyped, sourceVars,
       cacheVars, historyVars
<1>3. ASSUME BuildFrame PROVE Typed'
  <2>1. frames' \in Seq(Delta) /\ Len(frames') = Len(frames) + 1
    BY <1>3, UpdatesAre, AppendProperties DEF BuildFrame, Typed, DeltasTyped
  <2>2. Len(frames') <= MaxQueued
    BY <1>3, <2>1, FramesAre DEF BuildFrame, TextureAssumption
  <2>3. \A i \in DOMAIN frames' : frames'[i] \in Delta
    BY <2>1, LenProperties
  <2>4. \A i \in DOMAIN frames' : \A t \in DOMAIN frames'[i] :
          t \in Texture /\ frames'[i][t] \in [region : Region, pixels : Image]
    BY <2>3, DeltaIs
  <2>5. dirty' \in [Texture -> BOOLEAN] /\ firstFrame' \in BOOLEAN
    BY <1>3 DEF BuildFrame, Typed, TypeOK
  <2>6. region' \in [Texture -> Region]
    BY <1>3, Regions DEF BuildFrame, Typed, TypeOK
  <2> QED
    BY <1>3, <2>1, <2>2, <2>4, <2>5, <2>6 DEF BuildFrame, Typed, TypeOK, DeltasTyped,
       sourceVars, cacheVars, historyVars
<1>4. ASSUME Apply PROVE Typed'
  <2>1. frames' \in Seq(Delta) /\ Len(frames') = Len(frames) - 1 /\ Head(frames) \in Delta
    BY <1>4, HeadTailProperties DEF Apply, Typed, DeltasTyped
  <2>2. Len(frames') <= MaxQueued
    BY <1>4, <2>1, FramesAre DEF TextureAssumption, Typed, TypeOK
  <2>3. \A i \in DOMAIN frames' : frames'[i] \in Delta
    BY <2>1, LenProperties
  <2>4. \A i \in DOMAIN frames' : \A t \in DOMAIN frames'[i] :
          t \in Texture /\ frames'[i][t] \in [region : Region, pixels : Image]
    BY <2>3, DeltaIs
  <2>5. step' \in {"applied", "failed"}
    BY <1>4 DEF Apply
  <2>6. /\ copies' \in 0 .. NumTextures /\ copy' \in [Texture -> Image]
        /\ copyRegion' \in [Texture -> Region] /\ copyDirty' \in [Texture -> BOOLEAN]
    <3> DEFINE u == Head(frames)
    <3>1. CASE Acceptable(u)
      <4>1. copies' \in 0 .. NumTextures
        <5>1. DOMAIN u \cup {copies} \in SUBSET (0 .. NumTextures)
          BY <2>1, DeltaIs, Constants DEF Texture, Typed, TypeOK
        <5>2. Max(DOMAIN u \cup {copies}) \in DOMAIN u \cup {copies}
          BY <5>1, MaxExists, Constants
        <5> QED
          BY <1>4, <3>1, <5>1, <5>2 DEF Apply
      <4>2. \A t \in DOMAIN u : u[t].region \in Region /\ u[t].pixels \in Image
        BY <2>1, DeltaIs
      <4>3. copy' \in [Texture -> Image]
        <5>1. \A t \in Texture : copy[t] \in Image
          BY DEF Typed, TypeOK
        <5>2. \A t \in Texture :
                (IF t \in DOMAIN u THEN Over(copy[t], u[t].region, u[t].pixels)
                                   ELSE copy[t]) \in Image
          BY <4>2, <5>1, OverIs
        <5> QED
          BY <1>4, <3>1, <5>2 DEF Apply
      <4>4. copyRegion' \in [Texture -> Region]
        <5>1. \A t \in DOMAIN u \cap Texture :
                Marked(copyDirty[t], copyRegion[t], u[t].region.x, u[t].region.w) \in Region
          BY <4>2, RegionIs, MarkedCovers DEF Typed, TypeOK
        <5>2. \A t \in Texture : copyRegion[t] \in Region
          BY DEF Typed, TypeOK
        <5> QED
          BY <1>4, <3>1, <5>1, <5>2, Regions DEF Apply
      <4>5. copyDirty' \in [Texture -> BOOLEAN]
        <5>1. copyDirty' = [t \in Texture |-> copyDirty[t] \/ t \in DOMAIN u]
          BY <1>4, <3>1 DEF Apply
        <5> QED
          BY <5>1, Zenon
      <4> QED
        BY <4>1, <4>3, <4>4, <4>5
    <3>2. CASE ~Acceptable(u)
      BY <1>4, <3>2 DEF Apply, sourceVars, Typed, TypeOK
    <3> QED
      BY <3>1, <3>2
  <2> QED
    BY <1>4, <2>1, <2>2, <2>4, <2>5, <2>6 DEF Apply, Typed, TypeOK, DeltasTyped,
       storeVars, cacheVars, historyVars
<1>5. ASSUME SkipFrame \/ Draw PROVE Typed'
  BY <1>5 DEF SkipFrame, Draw, Typed, TypeOK, DeltasTyped, storeVars, sourceVars, cacheVars,
     historyVars
<1>6. ASSUME NEW failed \in SUBSET Texture, EnsureTextures(failed) PROVE Typed'
  <2>1. image' \in [Texture -> BOOLEAN]
    <3>1. image' = [t \in Texture |-> image[t] \/ (t <= copies /\ t \notin failed)]
      BY <1>6 DEF EnsureTextures
    <3> QED
      BY <3>1, Zenon
  <2>2. failures' \in 0 .. MaxFailures
    <3>1. IsFiniteSet(failed)
      <4>1. 1 \in Int /\ NumTextures \in Int
        BY Constants
      <4>2. IsFiniteSet(1 .. NumTextures)
        BY <4>1, FS_Interval
      <4> QED
        BY <4>2, FS_Subset DEF Texture
    <3>2. Cardinality(failed) \in Nat
      BY <3>1, FS_CardinalityType
    <3> QED
      BY <1>6, <3>2 DEF EnsureTextures, Typed, TypeOK, TextureAssumption
  <2> QED
    BY <1>6, <2>1, <2>2 DEF EnsureTextures, Typed, TypeOK, DeltasTyped, storeVars, sourceVars
<1>7. ASSUME ConsumeDirty
      PROVE  copyDirty' \in [Texture -> BOOLEAN] /\ copyRegion' \in [Texture -> Region]
  <2>1. copyDirty' \in [Texture -> BOOLEAN]
    <3>1. copyDirty' = [t \in Texture |-> copyDirty[t] /\ ~image[t]]
      BY <1>7 DEF ConsumeDirty
    <3> QED
      BY <3>1, Zenon
  <2>2. copyRegion' \in [Texture -> Region]
    BY <1>7, Regions DEF ConsumeDirty, Typed, TypeOK
  <2> QED
    BY <2>1, <2>2
<1>8. ASSUME Upload PROVE Typed'
  <2>1. gpu' \in [Texture -> Image]
    <3>1. \A t \in Texture : gpu[t] \in Image /\ copy[t] \in Image
      BY DEF Typed, TypeOK
    <3>2. \A t \in Texture :
            (IF t \notin ToUpload THEN gpu[t]
             ELSE Over(gpu[t], IF Partial(t) THEN Consumed(t) ELSE Whole, copy[t])) \in Image
      BY <3>1, OverIs
    <3> QED
      BY <1>8, <3>2 DEF Upload
  <2>2. uploaded' \in [Texture -> BOOLEAN]
    <3>1. uploaded' = [t \in Texture |-> uploaded[t] \/ t \in ToUpload]
      BY <1>8 DEF Upload
    <3> QED
      BY <3>1, Zenon
  <2>3. pendingUpload' \in [Texture -> BOOLEAN]
    <3>1. pendingUpload' = [t \in Texture |-> pendingUpload[t] /\ t \notin ToUpload]
      BY <1>8 DEF Upload
    <3> QED
      BY <3>1, Zenon
  <2>4. cutShort' \subseteq Texture
    BY <1>8 DEF Upload, Typed, TypeOK
  <2>5. copyDirty' \in [Texture -> BOOLEAN] /\ copyRegion' \in [Texture -> Region]
    BY <1>7, <1>8 DEF Upload
  <2> QED
    BY <1>8, <2>1, <2>2, <2>3, <2>4, <2>5 DEF Upload, Typed, TypeOK, DeltasTyped, storeVars
<1>9. ASSUME UploadFails PROVE Typed'
  <2>1. pendingUpload' \in [Texture -> BOOLEAN]
    <3>1. pendingUpload' = [t \in Texture |-> pendingUpload[t] \/ t \in ToUpload]
      BY <1>9 DEF UploadFails
    <3> QED
      BY <3>1, Zenon
  <2>2. cutShort' \subseteq Texture
    BY <1>9 DEF UploadFails, ToUpload, Typed, TypeOK
  <2>3. failures' \in 0 .. MaxFailures
    BY <1>9 DEF UploadFails, Typed, TypeOK, TextureAssumption
  <2>4. copyDirty' \in [Texture -> BOOLEAN] /\ copyRegion' \in [Texture -> Region]
    BY <1>7, <1>9 DEF UploadFails
  <2> QED
    BY <1>9, <2>1, <2>2, <2>3, <2>4 DEF UploadFails, Typed, TypeOK, DeltasTyped, storeVars
<1>10. ASSUME Restart PROVE Typed'
  <2>1. frames' \in Seq(Delta) /\ Len(frames') = 0
    BY <1>10, EmptySeq DEF Restart
  <2>2. Len(frames') <= MaxQueued /\ \A i \in DOMAIN frames' : FALSE
    BY <2>1, LenProperties DEF TextureAssumption
  <2>3. copies' \in 0 .. NumTextures /\ restarts' \in 0 .. MaxRestarts
    BY <1>10 DEF Restart, TextureAssumption, Typed, TypeOK
  <2>4. /\ copy' \in [Texture -> Image] /\ gpu' \in [Texture -> Image]
        /\ copyRegion' \in [Texture -> Region]
    BY <1>10, Constants, Regions DEF Restart
  <2> QED
    BY <1>10, <2>1, <2>2, <2>3, <2>4 DEF Restart, Typed, TypeOK, DeltasTyped, storeVars
<1>11. ASSUME UNCHANGED vars PROVE Typed'
  BY <1>11 DEF vars, textureVars, Typed, TypeOK, DeltasTyped, storeVars, sourceVars,
               cacheVars, historyVars
<1> QED
  BY <1>1, <1>2, <1>3, <1>4, <1>5, <1>6, <1>8, <1>9, <1>10, <1>11 DEF Next

-----------------------------------------------------------------------------
(* Between the threads *)

\* The writes, told in terms of what arrives.
NoWriteLostAt(t, p) ==
  \/ Arriving(frames, copy[t][p], t, p) = pixels[t][p]
  \/ firstFrame
  \/ dirty[t] /\ p \in TexelsOf(region[t])

LEMMA ArrivalIsArriving ==
  ASSUME TextureAssumption, Typed
  PROVE  NoWriteLost <=> \A t \in 1 .. count, p \in Texel : NoWriteLostAt(t, p)
<1>1. \A t, p : Carriers(t, p) = CarriersOf(frames, t, p)
  BY FramesAre DEF Carriers, CarriersOf, Carried
<1>2. \A t, p : OnArrival(t, p) = Arriving(frames, copy[t][p], t, p)
  BY <1>1 DEF OnArrival, Arriving
<1> QED
  BY <1>2 DEF NoWriteLost, NoWriteLostAt

SourceTold ==
  /\ \A t \in 1 .. count, p \in Texel : NoWriteLostAt(t, p)
  /\ InOrderOfIds /\ ToBeTold /\ NeverRejected

\* What the raster thread does after apply leaves all this alone.
LEMMA SourceQuiet ==
  ASSUME SourceTold, step' # "failed",
         UNCHANGED <<count, pixels, dirty, region, firstFrame, frames, copies, copy>>
  PROVE  SourceTold'
<1>1. \A t, p : NoWriteLostAt(t, p) => NoWriteLostAt(t, p)'
  BY DEF NoWriteLostAt
<1> QED
  BY <1>1 DEF SourceTold, InOrderOfIds, ToBeTold, NeverRejected

LEMMA AddKeepsSource ==
  ASSUME TextureAssumption, Typed, SourceTold, AddTexture PROVE SourceTold'
<1>1. count \in Nat /\ count' = count + 1 /\ count' \in Texture
  BY DEF AddTexture, Typed, TypeOK, TextureAssumption, Texture
<1>2. /\ dirty'[count'] /\ region'[count'] = Whole
      /\ \A t \in 1 .. count : /\ t \in Texture /\ t # count'
                               /\ dirty'[t] = dirty[t] /\ region'[t] = region[t]
                               /\ pixels'[t] = pixels[t]
  <2>1. \A t \in 1 .. count : t \in Texture /\ t # count'
    BY <1>1 DEF Texture, TextureAssumption, Typed, TypeOK
  <2> QED
    BY <1>1, <2>1 DEF AddTexture, Typed, TypeOK
<1>3. \A t \in 1 .. count', p \in Texel : NoWriteLostAt(t, p)'
  <2> SUFFICES ASSUME NEW t \in 1 .. count', NEW p \in Texel PROVE NoWriteLostAt(t, p)'
    OBVIOUS
  <2>1. CASE t = count'
    BY <1>2, <2>1, Regions DEF NoWriteLostAt
  <2>2. CASE t \in 1 .. count
    <3>1. NoWriteLostAt(t, p)
      BY <2>2 DEF SourceTold
    <3> QED
      BY <1>2, <2>2, <3>1 DEF NoWriteLostAt, AddTexture, sourceVars
  <2> QED
    BY <1>1, <2>1, <2>2
<1>4. InOrderOfIds' /\ NeverRejected'
  BY DEF AddTexture, SourceTold, InOrderOfIds, NeverRejected, sourceVars
<1>5. ToBeTold'
  <2> SUFFICES ASSUME ~firstFrame', NEW s \in 1 .. count'
               PROVE  \/ s <= copies' \/ dirty'[s]
                      \/ \E j \in DOMAIN frames' : s \in DOMAIN frames'[j]
    BY DEF ToBeTold
  <2>1. CASE s = count'
    BY <1>2, <2>1
  <2>2. CASE s \in 1 .. count
    BY <1>2, <2>2 DEF AddTexture, SourceTold, ToBeTold, sourceVars
  <2> QED
    BY <1>1, <2>1, <2>2
<1> QED
  BY <1>3, <1>4, <1>5 DEF SourceTold

LEMMA WriteKeepsSource ==
  ASSUME TextureAssumption, Typed, SourceTold,
         NEW t \in Texture, NEW x \in Texel, NEW w \in 1 .. Size, Write(t, x, w)
  PROVE  SourceTold'
<1> DEFINE r == [x |-> x, w |-> Least(w, Size - x)]
<1>1. /\ dirty'[t] /\ region'[t] = Marked(dirty[t], region[t], x, w)
      /\ \A p \in Texel : p \notin TexelsOf(r) => pixels'[t][p] = pixels[t][p]
      /\ \A s \in Texture : s # t => /\ dirty'[s] = dirty[s] /\ region'[s] = region[s]
                                    /\ pixels'[s] = pixels[s]
  BY DEF Write, Over, Typed, TypeOK
<1>2. /\ TexelsOf(r) \subseteq TexelsOf(region'[t])
      /\ dirty[t] => TexelsOf(region[t]) \subseteq TexelsOf(region'[t])
  <2>1. x \in 0 .. Size /\ w \in 0 .. Size /\ region[t] \in Region /\ dirty[t] \in BOOLEAN
    BY DEF Texel, TextureAssumption, Typed, TypeOK
  <2> QED
    BY <1>1, <2>1, MarkedCovers
<1> HIDE DEF r
<1>3. \A s \in 1 .. count', p \in Texel : NoWriteLostAt(s, p)'
  <2> SUFFICES ASSUME NEW s \in 1 .. count, NEW p \in Texel PROVE NoWriteLostAt(s, p)'
    BY DEF Write
  <2>1. NoWriteLostAt(s, p) /\ s \in Texture
    BY DEF SourceTold, Texture, Typed, TypeOK, TextureAssumption
  <2>2. CASE s # t
    BY <1>1, <2>1, <2>2 DEF NoWriteLostAt, Write, sourceVars
  <2>3. CASE s = t /\ p \in TexelsOf(r)
    BY <1>1, <1>2, <2>3 DEF NoWriteLostAt
  <2>4. CASE s = t /\ p \notin TexelsOf(r)
    BY <1>1, <1>2, <2>1, <2>4 DEF NoWriteLostAt, Write, sourceVars
  <2> QED
    BY <2>2, <2>3, <2>4
<1>4. InOrderOfIds' /\ NeverRejected'
  BY DEF Write, SourceTold, InOrderOfIds, NeverRejected, sourceVars
<1>5. ToBeTold'
  <2>1. \A s \in 1 .. count : s \in Texture /\ (dirty[s] => dirty'[s])
    BY <1>1 DEF Texture, Typed, TypeOK, TextureAssumption
  <2> QED
    BY <2>1 DEF Write, SourceTold, ToBeTold, sourceVars
<1> QED
  BY <1>3, <1>4, <1>5 DEF SourceTold

LEMMA BuildKeepsSource ==
  ASSUME TextureAssumption, Typed, SourceTold, BuildFrame PROVE SourceTold'
<1> DEFINE u == Updates
           n == Len(frames)
<1>1. /\ n \in Nat /\ frames' = Append(frames, u) /\ frames \in Seq(Delta) /\ u \in Delta
      /\ DOMAIN frames = 1 .. n /\ DOMAIN frames' = 1 .. n + 1 /\ frames'[n + 1] = u
      /\ \A i \in 1 .. n : frames'[i] = frames[i]
  <2>1. n \in Nat /\ frames \in Seq(Delta) /\ u \in Delta /\ DOMAIN frames = 1 .. n
    BY FramesAre, UpdatesAre DEF Typed, DeltasTyped
  <2>2. frames' = Append(frames, u) /\ Append(frames, u) \in Seq(Delta)
        /\ Len(Append(frames, u)) = n + 1
        /\ Append(frames, u)[n + 1] = u /\ \A i \in 1 .. n : Append(frames, u)[i] = frames[i]
    BY <2>1, AppendProperties DEF BuildFrame
  <2> QED
    BY <2>1, <2>2, LenProperties
<1>2. /\ DOMAIN u = {t \in 1 .. count : firstFrame \/ dirty[t]}
      /\ \A t \in DOMAIN u :
           /\ u[t].region = (IF firstFrame THEN Whole ELSE region[t])
           /\ \A p \in TexelsOf(u[t].region) : u[t].pixels[p] = pixels[t][p]
  BY UpdatesAre
<1>3. \A t \in 1 .. count : t \in Texture
  BY DEF Texture, Typed, TypeOK, TextureAssumption
<1> HIDE DEF u, n
<1>4. \A t \in 1 .. count', p \in Texel : NoWriteLostAt(t, p)'
  <2> SUFFICES ASSUME NEW t \in 1 .. count, NEW p \in Texel
               PROVE  Arriving(frames', copy[t][p], t, p) = pixels[t][p]
    BY DEF NoWriteLostAt, BuildFrame, sourceVars
  <2>1. Arriving(frames', copy[t][p], t, p)
          = IF Carried(u, t, p) THEN u[t].pixels[p] ELSE Arriving(frames, copy[t][p], t, p)
    BY <1>1, ArrivingAppend
  <2>2. CASE Carried(u, t, p)
    BY <1>2, <2>1, <2>2 DEF Carried
  <2>3. CASE ~Carried(u, t, p)
    <3>1. NoWriteLostAt(t, p)
      BY DEF SourceTold
    <3>2. ~firstFrame /\ ~(dirty[t] /\ p \in TexelsOf(region[t]))
      BY <1>2, <2>3, Regions DEF Carried
    <3> QED
      BY <2>1, <2>3, <3>1, <3>2 DEF NoWriteLostAt
  <2> QED
    BY <2>2, <2>3
<1>5. InOrderOfIds'
  <2> SUFFICES ASSUME NEW i \in 1 .. n + 1, NEW t \in DOMAIN frames'[i],
                      NEW s \in copies + 1 .. t
               PROVE  \E j \in 1 .. i : s \in DOMAIN frames'[j]
    BY <1>1 DEF InOrderOfIds, BuildFrame, sourceVars
  <2>1. CASE i \in 1 .. n
    <3>1. PICK j \in 1 .. i : s \in DOMAIN frames[j]
      BY <1>1, <2>1 DEF SourceTold, InOrderOfIds
    <3>2. j \in 1 .. n
      BY <1>1, <2>1
    <3> QED
      BY <1>1, <3>1, <3>2
  <2>2. CASE i = n + 1
    <3>1. t \in 1 .. count /\ s \in 1 .. count /\ ~(s <= copies)
      BY <1>1, <1>2, <2>2 DEF Typed, TypeOK, TextureAssumption
    <3>2. CASE firstFrame \/ dirty[s]
      BY <1>1, <1>2, <2>2, <3>1, <3>2
    <3>3. CASE ~firstFrame /\ ~dirty[s]
      <4>1. PICK j \in 1 .. n : s \in DOMAIN frames[j]
        BY <1>1, <3>1, <3>3 DEF SourceTold, ToBeTold
      <4>2. j \in 1 .. i
        BY <1>1, <2>2
      <4> QED
        BY <1>1, <4>1, <4>2
    <3> QED
      BY <3>2, <3>3
  <2> QED
    BY <1>1, <2>1, <2>2
<1>6. ToBeTold'
  <2> SUFFICES ASSUME NEW s \in 1 .. count
               PROVE  s <= copies \/ \E j \in 1 .. n + 1 : s \in DOMAIN frames'[j]
    BY <1>1 DEF ToBeTold, BuildFrame, sourceVars
  <2>1. CASE firstFrame \/ dirty[s]
    BY <1>1, <1>2, <2>1
  <2>2. CASE ~firstFrame /\ ~dirty[s]
    <3>1. s <= copies \/ \E j \in 1 .. n : s \in DOMAIN frames[j]
      BY <1>1, <2>2 DEF SourceTold, ToBeTold
    <3> QED
      BY <1>1, <3>1
  <2> QED
    BY <2>1, <2>2
<1>7. NeverRejected'
  BY DEF BuildFrame, SourceTold, NeverRejected
<1> QED
  BY <1>4, <1>5, <1>6, <1>7 DEF SourceTold

LEMMA ApplyKeepsSource ==
  ASSUME TextureAssumption, Typed, SourceTold, Apply PROVE SourceTold'
<1> DEFINE u == Head(frames)
           n == Len(frames)
<1>1. /\ n \in Nat \ {0} /\ frames \in Seq(Delta) /\ frames # << >> /\ u = frames[1]
      /\ u \in Delta /\ frames' = Tail(frames)
      /\ DOMAIN frames = 1 .. n /\ DOMAIN frames' = 1 .. n - 1
      /\ \A i \in 1 .. n - 1 : frames'[i] = frames[i + 1]
  <2>1. frames \in Seq(Delta) /\ frames # << >> /\ frames' = Tail(frames)
    BY DEF Apply, Typed, DeltasTyped
  <2>2. /\ n \in Nat \ {0} /\ Tail(frames) \in Seq(Delta) /\ Len(Tail(frames)) = n - 1
        /\ u = frames[1] /\ u \in Delta
        /\ \A i \in 1 .. n - 1 : Tail(frames)[i] = frames[i + 1]
    BY <2>1, HeadTailProperties, LenProperties, EmptySeq
  <2> QED
    BY <2>1, <2>2, LenProperties
<1>2. \A t \in DOMAIN u : t \in Texture /\ t \in Nat
  BY <1>1, DeltaIs, Constants
<1> HIDE DEF u, n
<1>3. Acceptable(u)
  <2> SUFFICES ASSUME NEW t \in DOMAIN u, NEW s \in copies + 1 .. t PROVE s \in DOMAIN u
    BY DEF Acceptable
  <2>1. PICK j \in 1 .. 1 : s \in DOMAIN frames[j]
    BY <1>1 DEF SourceTold, InOrderOfIds
  <2> QED
    BY <1>1, <2>1
<1>4. /\ copies' = Max(DOMAIN u \cup {copies})
      /\ copy' = [t \in Texture |-> IF t \in DOMAIN u THEN Over(copy[t], u[t].region, u[t].pixels)
                                                       ELSE copy[t]]
      /\ step' = "applied"
  BY <1>3 DEF Apply, u
<1>5. copies \in Nat /\ copies' \in Nat /\ copies <= copies'
      /\ \A s \in DOMAIN u : s <= copies'
  <2>1. DOMAIN u \cup {copies} \in SUBSET (0 .. NumTextures) /\ NumTextures \in Nat
    BY <1>2, Constants DEF Texture, Typed, TypeOK
  <2> DEFINE S == DOMAIN u \cup {copies}
  <2>2. S # {}
    OBVIOUS
  <2> HIDE DEF S
  <2>3. Max(S) \in S /\ \A y \in S : y <= Max(S)
    BY <2>1, <2>2, MaxExists DEF S
  <2> QED
    BY <1>4, <2>1, <2>3 DEF S
<1>6. \A t \in 1 .. count', p \in Texel : NoWriteLostAt(t, p)'
  <2> SUFFICES ASSUME NEW t \in 1 .. count, NEW p \in Texel
               PROVE  Arriving(frames', copy'[t][p], t, p) = Arriving(frames, copy[t][p], t, p)
    BY DEF SourceTold, NoWriteLostAt, Apply, storeVars
  <2>1. t \in Texture /\ copy[t] \in Image
    BY DEF Texture, Typed, TypeOK, TextureAssumption
  <2>2. copy'[t][p] = IF Carried(u, t, p) THEN u[t].pixels[p] ELSE copy[t][p]
    <3>1. CASE t \in DOMAIN u
      <4>1. u[t].pixels \in Image
        BY <1>1, <3>1, DeltaIs
      <4>2. Over(copy[t], u[t].region, u[t].pixels)[p]
              = IF p \in TexelsOf(u[t].region) THEN u[t].pixels[p] ELSE copy[t][p]
        BY DEF Over
      <4> QED
        BY <1>4, <2>1, <3>1, <4>2 DEF Carried
    <3>2. CASE t \notin DOMAIN u
      BY <1>4, <2>1, <3>2 DEF Carried
    <3> QED
      BY <3>1, <3>2
  <2> QED
    BY <1>1, <2>2, ArrivingTail DEF u
<1>7. InOrderOfIds'
  <2>1. \A i \in 1 .. n - 1 : /\ i + 1 \in 1 .. n /\ frames'[i] = frames[i + 1]
                             /\ \A t \in DOMAIN frames'[i] : t \in Nat
    <3> SUFFICES ASSUME NEW i \in 1 .. n - 1
                 PROVE  /\ i + 1 \in 1 .. n /\ frames'[i] = frames[i + 1]
                        /\ \A t \in DOMAIN frames'[i] : t \in Nat
      OBVIOUS
    <3>1. i + 1 \in 1 .. n /\ frames'[i] = frames[i + 1] /\ frames[i + 1] \in Delta
      BY <1>1, FramesAre
    <3> QED
      BY <3>1, DeltaIs, Constants
  <2> SUFFICES ASSUME NEW i \in 1 .. n - 1, NEW t \in Nat, t \in DOMAIN frames'[i],
                      NEW s \in Nat, copies' < s, s <= t
               PROVE  \E j \in 1 .. i : s \in DOMAIN frames'[j]
    <3>1. \A t \in Nat : \A s \in copies' + 1 .. t : s \in Nat /\ copies' < s /\ s <= t
      <4> DEFINE c == copies'
      <4> SUFFICES \A t \in Nat : \A s \in c + 1 .. t : s \in Nat /\ c < s /\ s <= t
        OBVIOUS
      <4>1. c \in Nat
        BY <1>5
      <4> HIDE DEF c
      <4> QED
        BY <4>1
    <3> QED
      BY <1>1, <2>1, <3>1 DEF InOrderOfIds
  <2>2. i + 1 \in 1 .. n /\ t \in DOMAIN frames[i + 1]
    BY <2>1
  <2>3. s \in copies + 1 .. t
    BY <1>5
  <2>4. PICK j \in 1 .. i + 1 : s \in DOMAIN frames[j]
    BY <1>1, <2>2, <2>3 DEF SourceTold, InOrderOfIds
  <2>5. j # 1
    BY <1>1, <1>5, <2>4
  <2>6. j - 1 \in 1 .. i /\ j - 1 \in 1 .. n - 1 /\ frames'[j - 1] = frames[(j - 1) + 1]
        /\ (j - 1) + 1 = j
    BY <1>1, <2>4, <2>5
  <2> QED
    BY <2>4, <2>6
<1>8. ToBeTold'
  <2> SUFFICES ASSUME ~firstFrame, NEW s \in 1 .. count, ~(s <= copies'), ~dirty[s]
               PROVE  \E j \in 1 .. n - 1 : s \in DOMAIN frames'[j]
    BY <1>1 DEF ToBeTold, Apply, storeVars
  <2>1. ~(s <= copies)
    BY <1>5, Constants DEF Typed, TypeOK
  <2>2. PICK j \in 1 .. n : s \in DOMAIN frames[j]
    BY <1>1, <2>1 DEF SourceTold, ToBeTold
  <2>3. j # 1
    BY <1>1, <1>5, <2>2
  <2>4. j - 1 \in 1 .. n - 1 /\ frames'[j - 1] = frames[(j - 1) + 1] /\ (j - 1) + 1 = j
    BY <1>1, <2>2, <2>3
  <2> QED
    BY <2>2, <2>4
<1>9. NeverRejected'
  BY <1>4 DEF NeverRejected
<1> QED
  BY <1>6, <1>7, <1>8, <1>9 DEF SourceTold

LEMMA RestartKeepsSource ==
  ASSUME TextureAssumption, Typed, SourceTold, Restart PROVE SourceTold'
<1>1. DOMAIN frames' = {}
  BY LenProperties, EmptySeq DEF Restart
<1> QED
  BY <1>1 DEF Restart, SourceTold, NoWriteLostAt, InOrderOfIds, ToBeTold, NeverRejected

LEMMA SourceStep ==
  ASSUME TextureAssumption, Typed, SourceTold, [Next]_vars PROVE SourceTold'
<1>1. CASE SkipFrame \/ Draw \/ Upload \/ UploadFails
  <2>1. step' # "failed" /\ UNCHANGED <<count, pixels, dirty, region, firstFrame, frames,
                                         copies, copy>>
    BY <1>1 DEF SkipFrame, Draw, Upload, UploadFails, storeVars, sourceVars
  <2> QED
    BY <2>1, SourceQuiet
<1>2. ASSUME NEW failed \in SUBSET Texture, EnsureTextures(failed) PROVE SourceTold'
  <2>1. step' # "failed" /\ UNCHANGED <<count, pixels, dirty, region, firstFrame, frames,
                                         copies, copy>>
    BY <1>2 DEF EnsureTextures, storeVars, sourceVars
  <2> QED
    BY <2>1, SourceQuiet
<1>3. CASE UNCHANGED vars
  <2>1. step' # "failed" /\ UNCHANGED <<count, pixels, dirty, region, firstFrame, frames,
                                         copies, copy>>
    BY <1>3 DEF vars, textureVars, storeVars, sourceVars, SourceTold, NeverRejected
  <2> QED
    BY <2>1, SourceQuiet
<1> QED
  BY <1>1, <1>2, <1>3, AddKeepsSource, WriteKeepsSource, BuildKeepsSource, ApplyKeepsSource,
     RestartKeepsSource DEF Next

-----------------------------------------------------------------------------
(* On the raster thread *)

\* What the UI thread does leaves the images and their copies alone.
LEMMA CacheQuiet ==
  ASSUME CacheInv,
         UNCHANGED <<copy, copyDirty, copyRegion, image, uploaded, pendingUpload, gpu, cutShort>>,
         step' = "draw" => step = "draw" /\ UNCHANGED uploadOk
  PROVE  CacheInv'
<1>1. UploadsOwed'
  BY DEF CacheInv, UploadsOwed, FlaggedOrCurrent
<1>2. DrawnIsCurrent'
  BY DEF CacheInv, DrawnIsCurrent, Current
<1> QED
  BY <1>1, <1>2 DEF CacheInv

LEMMA ApplyKeepsCache ==
  ASSUME TextureAssumption, Typed, CacheInv, Apply PROVE CacheInv'
<1> DEFINE u == Head(frames)
<1>1. step' # "draw" /\ UNCHANGED <<image, uploaded, pendingUpload, gpu, cutShort>>
  BY DEF Apply, cacheVars, historyVars
<1>2. u \in Delta
  BY HeadTailProperties DEF Apply, Typed, DeltasTyped
<1>3. \A t \in Texture : FlaggedOrCurrent(t) => FlaggedOrCurrent(t)'
  <2> SUFFICES ASSUME NEW t \in Texture, FlaggedOrCurrent(t) PROVE FlaggedOrCurrent(t)'
    OBVIOUS
  <2>1. CASE Acceptable(u) /\ t \in DOMAIN u
    <3>1. /\ copy'[t] = Over(copy[t], u[t].region, u[t].pixels) /\ copyDirty'[t]
          /\ copyRegion'[t] = IF t > copies THEN Whole
               ELSE Marked(copyDirty[t], copyRegion[t], u[t].region.x, u[t].region.w)
      BY <2>1 DEF Apply
    <3>2. u[t].region \in Region /\ u[t].pixels \in Image /\ copy[t] \in Image
          /\ copyRegion[t] \in Region /\ copyDirty[t] \in BOOLEAN
      BY <1>2, <2>1, DeltaIs DEF Typed, TypeOK
    <3> HIDE DEF u
    <3>3. /\ TexelsOf(u[t].region) \cap Texel \subseteq TexelsOf(copyRegion'[t])
          /\ copyDirty[t] => TexelsOf(copyRegion[t]) \subseteq TexelsOf(copyRegion'[t])
      <4>1. CASE t > copies
        BY <3>1, <3>2, <4>1, Regions
      <4>2. CASE ~(t > copies)
        <5> DEFINE x == u[t].region.x
                   w == u[t].region.w
        <5>1. x \in 0 .. Size /\ w \in 0 .. Size /\ x + w <= Size /\ Size \in Nat
          BY <3>2, RegionIs DEF TextureAssumption
        <5> HIDE DEF x, w
        <5>2. Least(w, Size - x) = w
          BY <5>1 DEF Least
        <5>3. TexelsOf([x |-> x, w |-> w]) = TexelsOf(u[t].region)
          BY DEF TexelsOf, x, w
        <5>4. copyRegion'[t] = Marked(copyDirty[t], copyRegion[t], x, w)
          BY <3>1, <4>2 DEF x, w
        <5> QED
          BY <3>2, <5>1, <5>2, <5>3, <5>4, MarkedCovers
      <4> QED
        BY <4>1, <4>2
    <3>4. \A p \in Texel : p \notin TexelsOf(u[t].region) => copy'[t][p] = copy[t][p]
      <4>1. \A p \in Texel : Over(copy[t], u[t].region, u[t].pixels)[p]
                             = IF p \in TexelsOf(u[t].region) THEN u[t].pixels[p] ELSE copy[t][p]
        BY DEF Over
      <4> QED
        BY <3>1, <4>1
    <3> QED
      BY <1>1, <3>1, <3>3, <3>4 DEF FlaggedOrCurrent
  <2>2. CASE Acceptable(u) /\ t \notin DOMAIN u
    <3>1. copy'[t] = copy[t] /\ copyRegion'[t] = copyRegion[t]
      BY <2>2 DEF Apply
    <3>2. copyDirty'[t] = copyDirty[t]
      <4>1. copyDirty' = [s \in Texture |-> copyDirty[s] \/ s \in DOMAIN u]
        BY <2>2 DEF Apply
      <4>2. copyDirty[t] \in BOOLEAN
        BY DEF Typed, TypeOK
      <4> QED
        BY <2>2, <4>1, <4>2
    <3> QED
      BY <1>1, <3>1, <3>2 DEF FlaggedOrCurrent
  <2>3. CASE ~Acceptable(u)
    BY <1>1, <2>3 DEF Apply, sourceVars, FlaggedOrCurrent
  <2> QED
    BY <2>1, <2>2, <2>3
<1>4. UploadsOwed'
  BY <1>1, <1>3 DEF CacheInv, UploadsOwed
<1> QED
  BY <1>1, <1>4 DEF CacheInv, DrawnIsCurrent

\* What an upload leaves of a flag.
LEMMA ConsumedIs ==
  ASSUME Typed, ConsumeDirty, NEW t \in Texture
  PROVE  /\ ~image[t] => copyDirty'[t] = copyDirty[t] /\ copyRegion'[t] = copyRegion[t]
         /\ image[t] => ~copyDirty'[t]
<1>1. copyDirty[t] \in BOOLEAN /\ image[t] \in BOOLEAN
  BY DEF Typed, TypeOK
<1>2. copyDirty'[t] = (copyDirty[t] /\ ~image[t])
      /\ copyRegion'[t] = IF image[t] THEN Empty ELSE copyRegion[t]
  BY DEF ConsumeDirty
<1> QED
  BY <1>1, <1>2

LEMMA UploadKeepsCache ==
  ASSUME TextureAssumption, Typed, CacheInv, Upload PROVE CacheInv'
<1> SUFFICES ASSUME NEW t \in Texture
             PROVE  /\ (IF uploaded[t] THEN image[t] /\ (t \in cutShort \/ FlaggedOrCurrent(t))
                                      ELSE pendingUpload[t])'
                    /\ t \notin cutShort' /\ image'[t] => gpu'[t] = copy'[t]
  BY DEF CacheInv, UploadsOwed, DrawnIsCurrent, Current
<1>1. /\ copy' = copy /\ image' = image /\ ConsumeDirty
      /\ gpu'[t] = (IF t \notin ToUpload THEN gpu[t]
                    ELSE Over(gpu[t], IF Partial(t) THEN Consumed(t) ELSE Whole, copy[t]))
      /\ t \in cutShort' <=> t \in cutShort /\ (t \notin ToUpload \/ Partial(t))
  BY DEF Upload
<1>2. /\ uploaded[t] \in BOOLEAN /\ pendingUpload[t] \in BOOLEAN /\ image[t] \in BOOLEAN
      /\ copyDirty[t] \in BOOLEAN /\ gpu[t] \in Image /\ copy[t] \in Image
  BY DEF Typed, TypeOK
<1>3. /\ uploaded'[t] = (uploaded[t] \/ t \in ToUpload)
      /\ pendingUpload'[t] = (pendingUpload[t] /\ t \notin ToUpload)
  BY DEF Upload
<1>4. IF uploaded[t] THEN image[t] /\ (t \in cutShort \/ FlaggedOrCurrent(t))
                     ELSE pendingUpload[t]
  BY DEF CacheInv, UploadsOwed
<1>5. t \in ToUpload <=> image[t] /\ (pendingUpload[t] \/ copyDirty[t])
  BY DEF ToUpload
<1>6. CASE ~image[t]
  BY <1>1, <1>2, <1>3, <1>4, <1>5, <1>6
<1>7. CASE image[t]
  <2>1. uploaded'[t]
    BY <1>2, <1>3, <1>4, <1>5, <1>7
  <2>2. t \notin cutShort' => \A p \in Texel : gpu'[t][p] = copy[t][p]
    <3> SUFFICES ASSUME t \notin cutShort', NEW p \in Texel PROVE gpu'[t][p] = copy[t][p]
      OBVIOUS
    <3>1. CASE t \notin ToUpload
      <4>1. uploaded[t] /\ ~copyDirty[t] /\ ~pendingUpload[t] /\ t \notin cutShort
        BY <1>1, <1>2, <1>4, <1>5, <1>7, <3>1
      <4> QED
        BY <1>1, <1>4, <3>1, <4>1 DEF FlaggedOrCurrent
    <3>2. CASE t \in ToUpload /\ ~Partial(t)
      <4>1. p \in TexelsOf(Whole) /\ gpu'[t] = Over(gpu[t], Whole, copy[t])
        BY <1>1, <3>2, Regions
      <4> QED
        BY <4>1 DEF Over
    <3>3. CASE t \in ToUpload /\ Partial(t)
      <4>1. gpu'[t][p] = IF p \in TexelsOf(Consumed(t)) THEN copy[t][p] ELSE gpu[t][p]
        BY <1>1, <3>3 DEF Over
      <4>2. uploaded[t] /\ t \notin Mipmapped /\ t \notin cutShort
        BY <1>1, <3>3 DEF Partial
      <4>3. gpu[t][p] = copy[t][p] \/ (copyDirty[t] /\ p \in TexelsOf(copyRegion[t]))
        BY <1>4, <4>2 DEF FlaggedOrCurrent
      <4> QED
        BY <4>1, <4>3 DEF Consumed
    <3> QED
      BY <3>1, <3>2, <3>3
  <2>3. gpu'[t] \in Image
    <3>1. CASE t \notin ToUpload
      BY <1>1, <1>2, <3>1
    <3>2. CASE t \in ToUpload
      <4> DEFINE r == IF Partial(t) THEN Consumed(t) ELSE Whole
      <4>1. gpu'[t] = Over(gpu[t], r, copy[t])
        BY <1>1, <3>2
      <4> HIDE DEF r
      <4> QED
        BY <1>2, <4>1, OverIs
    <3> QED
      BY <3>1, <3>2
  <2>4. t \notin cutShort' => gpu'[t] = copy[t]
    BY <1>2, <2>2, <2>3 DEF Image
  <2> QED
    BY <1>1, <1>7, <2>1, <2>2, <2>4 DEF FlaggedOrCurrent
<1> QED
  BY <1>2, <1>6, <1>7

LEMMA FailureKeepsCache ==
  ASSUME TextureAssumption, Typed, CacheInv, UploadFails PROVE CacheInv'
<1>1. /\ copy' = copy /\ image' = image /\ gpu' = gpu /\ uploaded' = uploaded /\ ConsumeDirty
      /\ cutShort' = cutShort \cup {t \in ToUpload : uploaded[t] /\ t \notin Mipmapped}
      /\ ~uploadOk'
  BY DEF UploadFails
<1>2. \A t \in Texture : pendingUpload'[t] = (pendingUpload[t] \/ t \in ToUpload)
  BY DEF UploadFails
<1>3. UploadsOwed'
  <2> SUFFICES ASSUME NEW t \in Texture
               PROVE  (IF uploaded[t] THEN image[t] /\ (t \in cutShort \/ FlaggedOrCurrent(t))
                                      ELSE pendingUpload[t])'
    BY DEF UploadsOwed
  <2>1. IF uploaded[t] THEN image[t] /\ (t \in cutShort \/ FlaggedOrCurrent(t))
                       ELSE pendingUpload[t]
    BY DEF CacheInv, UploadsOwed
  <2>2. pendingUpload[t] \in BOOLEAN /\ copyDirty[t] \in BOOLEAN /\ image[t] \in BOOLEAN
    BY DEF Typed, TypeOK
  <2>3. pendingUpload[t] => pendingUpload'[t]
    BY <1>2, <2>2
  <2>4. CASE ~uploaded[t]
    BY <1>1, <2>1, <2>3, <2>4
  <2>5. CASE uploaded[t] /\ t \in cutShort'
    BY <1>1, <2>1, <2>5
  <2>6. CASE uploaded[t] /\ t \notin cutShort'
    <3>1. image[t] /\ FlaggedOrCurrent(t) /\ (t \in ToUpload => t \in Mipmapped)
      BY <1>1, <2>1, <2>6
    <3>2. copyDirty[t] => t \in ToUpload
      BY <3>1 DEF ToUpload
    <3>3. t \in ToUpload => t \in Mipmapped /\ pendingUpload'[t]
      BY <1>2, <3>1
    <3>4. FlaggedOrCurrent(t)'
      BY <1>1, <2>3, <3>1, <3>2, <3>3 DEF FlaggedOrCurrent
    <3> QED
      BY <1>1, <2>6, <3>1, <3>4
  <2> QED
    BY <2>4, <2>5, <2>6
<1>4. DrawnIsCurrent'
  BY <1>1 DEF DrawnIsCurrent
<1> QED
  BY <1>3, <1>4 DEF CacheInv

LEMMA EnsureKeepsCache ==
  ASSUME TextureAssumption, Typed, CacheInv,
         NEW failed \in SUBSET Texture, EnsureTextures(failed)
  PROVE  CacheInv'
<1>1. \A t \in Texture : image[t] => image'[t]
  BY DEF EnsureTextures
<1>2. UploadsOwed'
  BY <1>1 DEF EnsureTextures, CacheInv, UploadsOwed, FlaggedOrCurrent, sourceVars
<1>3. DrawnIsCurrent'
  BY DEF EnsureTextures, DrawnIsCurrent
<1> QED
  BY <1>2, <1>3 DEF CacheInv

LEMMA RestartKeepsCache ==
  ASSUME Restart PROVE CacheInv'
  BY DEF Restart, CacheInv, UploadsOwed, DrawnIsCurrent

LEMMA CacheStep ==
  ASSUME TextureAssumption, Typed, CacheInv, [Next]_vars PROVE CacheInv'
<1>1. CASE AddTexture \/ BuildFrame \/ SkipFrame \/ Draw \/ UNCHANGED vars
  <2>1. /\ UNCHANGED <<copy, copyDirty, copyRegion, image, uploaded, pendingUpload, gpu,
                       cutShort>>
        /\ step' = "draw" => step = "draw" /\ UNCHANGED uploadOk
    BY <1>1 DEF AddTexture, BuildFrame, SkipFrame, Draw, vars, textureVars, sourceVars, cacheVars,
       historyVars
  <2> QED
    BY <2>1, CacheQuiet
<1>2. ASSUME NEW t \in Texture, NEW x \in Texel, NEW w \in 1 .. Size, Write(t, x, w)
      PROVE  CacheInv'
  <2>1. /\ UNCHANGED <<copy, copyDirty, copyRegion, image, uploaded, pendingUpload, gpu,
                       cutShort>>
        /\ step' = "draw" => step = "draw" /\ UNCHANGED uploadOk
    BY <1>2 DEF Write, sourceVars, cacheVars, historyVars
  <2> QED
    BY <2>1, CacheQuiet
<1> QED
  BY <1>1, <1>2, ApplyKeepsCache, UploadKeepsCache, FailureKeepsCache, EnsureKeepsCache,
     RestartKeepsCache DEF Next

-----------------------------------------------------------------------------
(* The theorems *)

LEMMA SourceIsTold ==
  ASSUME TextureAssumption, Typed
  PROVE  SourceInv <=> SourceTold
  BY ArrivalIsArriving DEF SourceInv, SourceTold

LEMMA Initially == TextureAssumption /\ Init => IInv
<1> SUFFICES ASSUME TextureAssumption, Init PROVE IInv
  OBVIOUS
<1>1. Typed
  BY TypesInitially
<1>2. DOMAIN frames = {} /\ 1 .. count = {}
  BY LenProperties, EmptySeq DEF Init
<1>3. SourceInv
  BY <1>2 DEF Init, SourceInv, NoWriteLost, InOrderOfIds, ToBeTold, NeverRejected
<1>4. CacheInv
  BY DEF Init, CacheInv, UploadsOwed, DrawnIsCurrent
<1> QED
  BY <1>1, <1>3, <1>4 DEF IInv, Typed

LEMMA Step == TextureAssumption /\ IInv /\ [Next]_vars => IInv'
<1> SUFFICES ASSUME TextureAssumption, IInv, [Next]_vars PROVE IInv'
  OBVIOUS
<1>1. Typed /\ SourceInv /\ CacheInv
  BY DEF IInv, Typed
<1>2. Typed' /\ CacheInv'
  BY <1>1, TypesStep, CacheStep
<1>3. SourceTold'
  BY <1>1, SourceIsTold, SourceStep
<1>4. SourceInv'
  <2>1. NoWriteLost' <=> (\A t \in 1 .. count, p \in Texel : NoWriteLostAt(t, p))'
    <3>1. \A t, p : Carriers(t, p)' = CarriersOf(frames', t, p)
      <4>1. DOMAIN frames' = 1 .. Len(frames')
        BY <1>2, LenProperties DEF Typed, DeltasTyped
      <4> QED
        BY <4>1 DEF Carriers, CarriersOf, Carried
    <3>2. \A t, p : OnArrival(t, p)' = Arriving(frames', copy'[t][p], t, p)
      BY <3>1 DEF OnArrival, Arriving
    <3> QED
      BY <3>2 DEF NoWriteLost, NoWriteLostAt
  <2> QED
    BY <1>3, <2>1 DEF SourceInv, SourceTold
<1> QED
  BY <1>2, <1>4 DEF IInv, Typed

\* Between the threads a texture is told of before it is written to and every write
\* is on its way, has arrived or is marked for the next frame; on the raster thread
\* a flag marks every image that differs from its copy but for the pages cut short
\* (texture_store.cpp, texture_store_source.h, texture_cache.cpp).
THEOREM TexturesAreInStep == TextureAssumption => (Spec => []IInv)
<1> SUFFICES ASSUME TextureAssumption PROVE Spec => []IInv
  OBVIOUS
<1>1. Init => IInv
  BY Initially
<1>2. IInv /\ [Next]_vars => IInv'
  BY Step
<1> QED
  BY <1>1, <1>2, PTL DEF Spec

\* However writes are joined, frames skipped and surfaces recreated, no write is lost
\* and no delta refused; and after a successful upload what is drawn is what the
\* raster thread holds (TextureStore::takeUpdates, TextureStoreSource::apply,
\* TextureCache::uploadPendingTextures).
THEOREM EveryPixelArrives == TextureAssumption => (Spec => []PixelsArrive)
<1> SUFFICES ASSUME TextureAssumption PROVE Spec => []PixelsArrive
  OBVIOUS
<1>1. IInv => PixelsArrive
  BY DEF IInv, SourceInv, CacheInv, PixelsArrive
<1> QED
  BY <1>1, TexturesAreInStep, PTL

-----------------------------------------------------------------------------
(***************************************************************************)
(* The pages of glyphs.  What lies on a page ends above its current shelf, *)
(* or left of the cursor on it, and the shelf ends on the page.            *)
(***************************************************************************)

AtlasPage ==
  [cursorX : Atlas!Coordinate, cursorY : Atlas!Coordinate, rowHeight : Atlas!Coordinate]

Bitmap == [page : 1 .. kMaxAtlasPages, x : Int, y : Int, w : Nat, h : Nat, glyph : Glyph]

AtlasTypes ==
  /\ extent \in [Glyph -> Extents]
  /\ pages \in Seq(AtlasPage) /\ Len(pages) <= kMaxAtlasPages
  /\ DOMAIN glyphCache \subseteq Glyph
  /\ \A g \in DOMAIN glyphCache :
       glyphCache[g] \in [page : 0 .. kMaxAtlasPages, x : Atlas!Coordinate, y : Atlas!Coordinate]
  /\ marked \subseteq Atlas!Region
  /\ bitmaps \subseteq Bitmap

ShelvesFit == \A p \in 1 .. Len(pages) : pages[p].cursorY + pages[p].rowHeight <= kAtlasPageSize

\* A bitmap with its padding is above the shelf, or on it and left of the cursor.
Placed(b, page) ==
  /\ b.x >= kGlyphPadding /\ b.x + b.w + kGlyphPadding <= kAtlasPageSize
  /\ b.y >= kGlyphPadding
  /\ \/ b.y + b.h + kGlyphPadding <= page.cursorY
     \/ /\ b.y = page.cursorY + kGlyphPadding
        /\ b.x + b.w + kGlyphPadding <= page.cursorX
        /\ b.h + kGlyphPadding + kGlyphPadding <= page.rowHeight

BitmapsPlaced == \A b \in bitmaps : b.page \in 1 .. Len(pages) /\ Placed(b, pages[b.page])

BitmapsMarked == \A b \in bitmaps : \E m \in marked : Within(b, m)

BitmapsApart ==
  \A a, b \in bitmaps : a # b => Apart(WithPadding(a), WithPadding(b))

CachedAreDrawn == \A g \in DOMAIN glyphCache : glyphCache[g].page # 0 => Sampled(g) \in bitmaps

AtlasInv ==
  /\ AtlasTypes
  /\ ShelvesFit
  /\ BitmapsPlaced
  /\ BitmapsMarked
  /\ BitmapsApart
  /\ CachedAreDrawn

\* These pages hold what has been written so far.
Hold(all) ==
  /\ all \in Seq(AtlasPage) /\ Len(all) <= kMaxAtlasPages
  /\ \A q \in 1 .. Len(all) : all[q].cursorY + all[q].rowHeight <= kAtlasPageSize
  /\ \A b \in bitmaps : b.page \in 1 .. Len(all) /\ Placed(b, all[b.page])

LEMMA AtlasInitially ==
  ASSUME Atlas!AtlasAssumption, Atlas!Init
  PROVE  AtlasInv
<1> USE DEF Atlas!Init, Atlas!AtlasAssumption
<1>1. AtlasTypes
  BY DEF AtlasTypes
<1>2. ShelvesFit /\ BitmapsPlaced /\ BitmapsMarked /\ BitmapsApart /\ CachedAreDrawn
  BY DEF ShelvesFit, BitmapsPlaced, BitmapsMarked, BitmapsApart, CachedAreDrawn
<1> QED
  BY <1>1, <1>2 DEF AtlasInv

\* The shelf a glyph comes to is on the page and has room for it, and what was
\* placed before is above it or left of the cursor on it.
LEMMA ShelfHasRoom ==
  ASSUME Atlas!AtlasAssumption, NEW e \in Extents, NEW page \in AtlasPage,
         page.cursorY + page.rowHeight <= kAtlasPageSize, Atlas!Fits(page, e)
  PROVE  LET shelf == Atlas!Shelf(page, e)
         IN /\ shelf \in AtlasPage
            /\ shelf.cursorY + shelf.rowHeight <= kAtlasPageSize
            /\ shelf.cursorX + Atlas!NeedW(e) <= kAtlasPageSize
            /\ Atlas!NeedH(e) <= shelf.rowHeight
            /\ \A b \in Bitmap : Placed(b, page) => Placed(b, shelf)
<1> USE DEF Atlas!NeedW, Atlas!NeedH, Atlas!Coordinate
<1>0. e.w \in Nat /\ e.h \in Nat /\ kGlyphPadding \in Nat /\ kAtlasPageSize \in Nat
      /\ Atlas!NeedW(e) <= kAtlasPageSize /\ Atlas!NeedH(e) <= kAtlasPageSize
  BY DEF Atlas!AtlasAssumption
<1>1. CASE Atlas!Wraps(page, e)
  <2>1. Atlas!Shelf(page, e) = [cursorX |-> 0, cursorY |-> page.cursorY + page.rowHeight,
                                rowHeight |-> Atlas!NeedH(e)]
    BY <1>1 DEF Atlas!Shelf
  <2>2. page.cursorY + page.rowHeight + Atlas!NeedH(e) <= kAtlasPageSize
    BY <1>1 DEF Atlas!Fits
  <2>3. ASSUME NEW b \in Bitmap, Placed(b, page) PROVE Placed(b, Atlas!Shelf(page, e))
    BY <1>0, <2>1, <2>3 DEF Placed, Bitmap, AtlasPage
  <2>4. Atlas!Shelf(page, e) \in AtlasPage
    BY <1>0, <2>1, <2>2 DEF AtlasPage
  <2> QED
    BY <1>0, <2>1, <2>2, <2>3, <2>4 DEF AtlasPage
<1>2. CASE ~Atlas!Wraps(page, e)
  <2>1. Atlas!Shelf(page, e) = page
    BY <1>2 DEF Atlas!Shelf
  <2> QED
    BY <1>0, <1>2, <2>1 DEF Atlas!Wraps, AtlasPage
<1> QED
  BY <1>1, <1>2

\* The padding around a bitmap, on a shelf at (x, y).
LEMMA RimCovers ==
  ASSUME NEW a, NEW b, NEW x \in Nat, NEW y \in Nat, NEW w \in Nat, NEW h \in Nat,
         NEW k \in Nat, a.page = b.page, a.x = x + k, a.y = y + k, a.w = w, a.h = h,
         b.x = x, b.y = y, b.w = w + k + k, b.h = h + k + k
  PROVE  Within(a, b)
  BY DEF Within

\* Next on the shelf: left of the cursor once it has moved.
LEMMA NextIsPlaced ==
  ASSUME NEW b, NEW page, NEW x \in Nat, NEW y \in Nat, NEW w \in Nat, NEW h \in Nat,
         NEW r \in Nat, kGlyphPadding \in Nat, kAtlasPageSize \in Nat,
         b.x = x + kGlyphPadding, b.y = y + kGlyphPadding, b.w = w, b.h = h,
         page.cursorX = x + (w + kGlyphPadding + kGlyphPadding), page.cursorY = y,
         page.rowHeight = r, h + kGlyphPadding + kGlyphPadding <= r,
         x + (w + kGlyphPadding + kGlyphPadding) <= kAtlasPageSize
  PROVE  Placed(b, page)
  BY DEF Placed

\* What is placed stays so when the cursor moves on.
LEMMA PlacedStays ==
  ASSUME NEW b \in Bitmap, NEW page, NEW next, kGlyphPadding \in Nat, page.cursorX \in Nat,
         NEW d \in Nat, next.cursorX = page.cursorX + d, next.cursorY = page.cursorY,
         next.rowHeight = page.rowHeight, Placed(b, page)
  PROVE  Placed(b, next)
<1>1. b.x \in Int /\ b.y \in Int /\ b.w \in Nat /\ b.h \in Nat
  BY DEF Bitmap
<1> QED
  BY <1>1 DEF Placed

\* A bitmap placed on a page is apart from the next one.
LEMMA NextIsApart ==
  ASSUME NEW b \in Bitmap, NEW c \in Bitmap, NEW page, NEW x \in Nat, NEW y \in Nat,
         kGlyphPadding \in Nat, page.cursorX = x, page.cursorY = y, Placed(b, page),
         c.x = x + kGlyphPadding, c.y = y + kGlyphPadding
  PROVE  /\ Apart(WithPadding(b), WithPadding(c))
         /\ Apart(WithPadding(c), WithPadding(b))
<1>1. /\ b.x \in Int /\ b.y \in Int /\ b.w \in Nat /\ b.h \in Nat
      /\ c.x \in Int /\ c.y \in Int /\ c.w \in Nat /\ c.h \in Nat
  BY DEF Bitmap
<1>2. \/ (b.x - kGlyphPadding) + (b.w + 2 * kGlyphPadding) <= c.x - kGlyphPadding
      \/ (b.y - kGlyphPadding) + (b.h + 2 * kGlyphPadding) <= c.y - kGlyphPadding
  <2>1. 2 * kGlyphPadding = kGlyphPadding + kGlyphPadding
    OBVIOUS
  <2>2. b.x + b.w + kGlyphPadding <= x \/ b.y + b.h + kGlyphPadding <= y
    BY DEF Placed
  <2>3. (b.x - kGlyphPadding) + (b.w + 2 * kGlyphPadding) = b.x + b.w + kGlyphPadding
    BY <1>1, <2>1
  <2>4. (b.y - kGlyphPadding) + (b.h + 2 * kGlyphPadding) = b.y + b.h + kGlyphPadding
    BY <1>1, <2>1
  <2>5. c.x - kGlyphPadding = x /\ c.y - kGlyphPadding = y
    OBVIOUS
  <2> QED
    BY <2>2, <2>3, <2>4, <2>5
<1> QED
  BY <1>2 DEF Apart, WithPadding

\* A glyph put on page p of all, whose bitmaps are those written so far.
LEMMA PlaceKeepsCells ==
  ASSUME Atlas!AtlasAssumption, AtlasInv, NEW g \in Glyph, g \notin DOMAIN glyphCache,
         NEW all, Hold(all), NEW p \in 1 .. Len(all),
         Atlas!Fits(all[p], extent[g]), Atlas!Place(g, p, all), UNCHANGED extent
  PROVE  AtlasInv'
<1> DEFINE e == extent[g]
           shelf == Atlas!Shelf(all[p], e)
           placed == [shelf EXCEPT !.cursorX = @ + Atlas!NeedW(e)]
           new == [page |-> p, x |-> shelf.cursorX + kGlyphPadding,
                   y |-> shelf.cursorY + kGlyphPadding, w |-> e.w, h |-> e.h, glyph |-> g]
<1>a. all \in Seq(AtlasPage) /\ Len(all) <= kMaxAtlasPages
  BY DEF Hold
<1>e. e \in Extents
  BY DEF AtlasInv, AtlasTypes
<1>k. kGlyphPadding \in Nat /\ kAtlasPageSize \in Nat /\ kMaxAtlasPages \in Nat
  BY DEF Atlas!AtlasAssumption
<1>w. e.w \in Nat /\ e.h \in Nat
  BY <1>e DEF Atlas!AtlasAssumption
<1>n. /\ Atlas!NeedW(e) = e.w + kGlyphPadding + kGlyphPadding
      /\ Atlas!NeedH(e) = e.h + kGlyphPadding + kGlyphPadding
  <2> HIDE DEF e
  <2> QED
    BY <1>k, <1>w DEF Atlas!NeedW, Atlas!NeedH
<1>b. Atlas!NeedW(e) \in Atlas!Coordinate /\ Atlas!NeedH(e) \in Atlas!Coordinate
  <2>1. Atlas!NeedW(e) <= kAtlasPageSize /\ Atlas!NeedH(e) <= kAtlasPageSize
    BY <1>e DEF Atlas!AtlasAssumption, Atlas!NeedW, Atlas!NeedH
  <2> HIDE DEF e
  <2> QED
    BY <1>k, <1>w, <1>n, <2>1 DEF Atlas!Coordinate
<1>1. all[p] \in AtlasPage /\ all[p].cursorY + all[p].rowHeight <= kAtlasPageSize
  BY DEF Hold
<1>2. /\ shelf \in AtlasPage
      /\ shelf.cursorY + shelf.rowHeight <= kAtlasPageSize
      /\ shelf.cursorX + Atlas!NeedW(e) <= kAtlasPageSize
      /\ Atlas!NeedH(e) <= shelf.rowHeight
      /\ \A b \in Bitmap : Placed(b, all[p]) => Placed(b, shelf)
  BY <1>e, <1>1, ShelfHasRoom
<1>3. /\ shelf.cursorX \in Nat /\ shelf.cursorY \in Nat /\ shelf.rowHeight \in Nat
      /\ shelf.cursorX <= kAtlasPageSize /\ shelf.cursorY <= kAtlasPageSize
  BY <1>k, <1>2 DEF AtlasPage, Atlas!Coordinate
<1>s. /\ shelf.cursorX + Atlas!NeedW(e) <= kAtlasPageSize /\ Atlas!NeedH(e) <= shelf.rowHeight
  BY <1>2
<1>4. /\ pages' = [all EXCEPT ![p] = placed]
      /\ glyphCache' = [h \in DOMAIN glyphCache \cup {g} |->
                          IF h = g THEN [page |-> p, x |-> shelf.cursorX, y |-> shelf.cursorY]
                          ELSE glyphCache[h]]
      /\ bitmaps' = bitmaps \cup {new}
      /\ marked' = marked \cup {Atlas!DirtyRegion(p, shelf, e)}
      /\ extent' = extent
  BY Zenon DEF Atlas!Place
<1>5. /\ placed \in AtlasPage /\ placed.cursorX = shelf.cursorX + Atlas!NeedW(e)
      /\ placed.cursorY = shelf.cursorY /\ placed.rowHeight = shelf.rowHeight
  <2> HIDE DEF shelf, e
  <2>1. shelf.cursorX + Atlas!NeedW(e) \in Atlas!Coordinate
    BY <1>k, <1>b, <1>s, <1>3 DEF Atlas!Coordinate
  <2> QED
    BY <1>2, <2>1 DEF AtlasPage
<1>6. new \in Bitmap
  <2>1. p \in 1 .. kMaxAtlasPages
    BY <1>k, <1>a
  <2> HIDE DEF shelf, e
  <2> QED
    BY <2>1, <1>k, <1>w, <1>3 DEF Bitmap
<1>7. Atlas!DirtyRegion(p, shelf, e) \in Atlas!Region
      /\ Within(new, Atlas!DirtyRegion(p, shelf, e))
  <2> HIDE DEF shelf, e
  <2>1. p \in 1 .. kMaxAtlasPages
    BY <1>k, <1>a
  <2>2. shelf.cursorX \in Atlas!Coordinate /\ shelf.cursorY \in Atlas!Coordinate
    BY <1>k, <1>3 DEF Atlas!Coordinate
  <2>3. Atlas!DirtyRegion(p, shelf, e) \in Atlas!Region
    BY <2>1, <2>2, <1>b DEF Atlas!Region, Atlas!DirtyRegion
  <2>4. /\ new.page = p /\ new.x = shelf.cursorX + kGlyphPadding
        /\ new.y = shelf.cursorY + kGlyphPadding /\ new.w = e.w /\ new.h = e.h
    OBVIOUS
  <2> HIDE DEF new
  <2> QED
    <3>1. LET d == Atlas!DirtyRegion(p, shelf, e)
          IN /\ d.page = p /\ d.x = shelf.cursorX /\ d.y = shelf.cursorY
             /\ d.w = e.w + kGlyphPadding + kGlyphPadding
             /\ d.h = e.h + kGlyphPadding + kGlyphPadding
      BY <1>n DEF Atlas!DirtyRegion
    <3> QED
      BY <2>3, <2>4, <3>1, <1>k, <1>w, <1>3, RimCovers
<1>8. bitmaps \subseteq Bitmap
  BY DEF AtlasInv, AtlasTypes
<1> HIDE DEF shelf, placed, e
<1>9. pages' \in Seq(AtlasPage) /\ Len(pages') = Len(all) /\ pages'[p] = placed
      /\ \A q \in 1 .. Len(all) : q # p => pages'[q] = all[q]
  BY <1>4, <1>5, <1>a
<1>10. AtlasTypes'
  <2>1. /\ DOMAIN glyphCache' \subseteq Glyph
        /\ \A h \in DOMAIN glyphCache' :
             glyphCache'[h] \in [page : 0 .. kMaxAtlasPages, x : Atlas!Coordinate,
                                 y : Atlas!Coordinate]
    <3>1. [page |-> p, x |-> shelf.cursorX, y |-> shelf.cursorY]
            \in [page : 0 .. kMaxAtlasPages, x : Atlas!Coordinate, y : Atlas!Coordinate]
      BY <1>k, <1>a, <1>3 DEF Atlas!Coordinate
    <3> QED
      BY <3>1, <1>4 DEF AtlasInv, AtlasTypes
  <2>2. marked' \subseteq Atlas!Region /\ bitmaps' \subseteq Bitmap
    BY <1>4, <1>6, <1>7 DEF AtlasInv, AtlasTypes
  <2>3. extent' \in [Glyph -> Extents]
    BY <1>4 DEF AtlasInv, AtlasTypes
  <2> QED
    BY <2>1, <2>2, <2>3, <1>9, <1>a DEF AtlasTypes, Atlas!Region, Atlas!Coordinate
<1>11. ShelvesFit'
  BY <1>2, <1>5, <1>9 DEF ShelvesFit, Hold
<1>12. Placed(new, placed)
  <2>1. /\ new.page = p /\ new.x = shelf.cursorX + kGlyphPadding
        /\ new.y = shelf.cursorY + kGlyphPadding /\ new.w = e.w /\ new.h = e.h
    OBVIOUS
  <2> HIDE DEF new
  <2> QED
    <3>1. /\ placed.cursorX = shelf.cursorX + (e.w + kGlyphPadding + kGlyphPadding)
          /\ e.h + kGlyphPadding + kGlyphPadding <= shelf.rowHeight
          /\ shelf.cursorX + (e.w + kGlyphPadding + kGlyphPadding) <= kAtlasPageSize
      BY <1>n, <1>s, <1>5
    <3> QED
      BY <2>1, <3>1, <1>k, <1>w, <1>3, <1>5, NextIsPlaced
<1>13. \A b \in bitmaps : b.page = p => Placed(b, shelf)
  BY <1>2, <1>8 DEF Hold
<1>14. BitmapsPlaced'
  <2>1. ASSUME NEW b \in bitmaps PROVE b.page \in 1 .. Len(all) /\ Placed(b, pages'[b.page])
    <3>1. CASE b.page = p
      <4>1. Placed(b, shelf) /\ b \in Bitmap
        BY <1>8, <1>13, <3>1
      <4>2. Placed(b, placed)
        <5>1. Atlas!NeedW(e) \in Nat
          BY <1>k, <1>b DEF Atlas!Coordinate
        <5> QED
          BY <4>1, <5>1, <1>k, <1>3, <1>5, PlacedStays
      <4> QED
        BY <4>2, <3>1, <1>9
    <3>2. CASE b.page # p
      BY <3>2, <1>9 DEF Hold
    <3> QED
      BY <3>1, <3>2
  <2> QED
    BY <2>1, <1>4, <1>9, <1>12 DEF BitmapsPlaced
<1>15. BitmapsMarked'
  <2>1. \A b \in bitmaps' : \E m \in marked' : Within(b, m)
    BY <1>4, <1>7 DEF AtlasInv, BitmapsMarked
  <2> QED
    BY <2>1 DEF BitmapsMarked, Within
<1>16. BitmapsApart'
  <2>1. ASSUME NEW b \in bitmaps
        PROVE  Apart(WithPadding(b), WithPadding(new))
               /\ Apart(WithPadding(new), WithPadding(b))
    <3>1. CASE b.page # p
      BY <3>1 DEF Apart, WithPadding
    <3>2. CASE b.page = p
      <4>1. Placed(b, shelf) /\ b \in Bitmap
        BY <1>8, <1>13, <3>2
      <4>2. /\ new.page = p /\ new.x = shelf.cursorX + kGlyphPadding
            /\ new.y = shelf.cursorY + kGlyphPadding /\ new.w = e.w /\ new.h = e.h
        OBVIOUS
      <4>3. new \in Bitmap
        BY <1>6
      <4> HIDE DEF new
      <4> QED
        BY <4>1, <4>2, <4>3, <1>k, <1>3, NextIsApart
    <3> QED
      BY <3>1, <3>2
  <2>2. \A a, b \in bitmaps' : a # b => Apart(WithPadding(a), WithPadding(b))
    BY <2>1, <1>4 DEF AtlasInv, BitmapsApart
  <2> QED
    BY <2>2 DEF BitmapsApart, Apart, WithPadding
<1>17. CachedAreDrawn'
  <2>1. \A h \in DOMAIN glyphCache : h # g /\ glyphCache'[h] = glyphCache[h]
    BY <1>4
  <2>2. ASSUME NEW h \in DOMAIN glyphCache', glyphCache'[h].page # 0
        PROVE  Sampled(h)' \in bitmaps'
    <3>1. CASE h = g
      <4>1. glyphCache'[h] = [page |-> p, x |-> shelf.cursorX, y |-> shelf.cursorY]
        BY <3>1, <1>4
      <4>2. Sampled(h)' = new
        BY <3>1, <4>1, <1>4 DEF Sampled, e
      <4> QED
        BY <4>2, <1>4
    <3>2. CASE h # g
      <4>1. h \in DOMAIN glyphCache
        BY <3>2, <1>4
      <4>2. Sampled(h)' = Sampled(h)
        BY <4>1, <2>1, <1>4 DEF Sampled
      <4> QED
        BY <4>1, <4>2, <2>1, <2>2, <1>4 DEF AtlasInv, CachedAreDrawn
    <3> QED
      BY <3>1, <3>2
  <2> QED
    BY <2>2 DEF CachedAreDrawn
<1> QED
  BY <1>10, <1>11, <1>14, <1>15, <1>16, <1>17 DEF AtlasInv

LEMMA AtlasSteps ==
  ASSUME Atlas!AtlasAssumption, AtlasInv, [Atlas!Next]_(Atlas!vars)
  PROVE  AtlasInv'
<1>1. ASSUME NEW g \in Glyph, Atlas!RasterizeGlyph(g) PROVE AtlasInv'
  <2>0. g \notin DOMAIN glyphCache /\ UNCHANGED extent
    BY <1>1 DEF Atlas!RasterizeGlyph
  <2>1. ASSUME NEW p \in Atlas!Room(g), Atlas!Place(g, p, pages) PROVE AtlasInv'
    <3>1. pages \in Seq(AtlasPage) /\ Len(pages) <= kMaxAtlasPages /\ p \in 1 .. Len(pages)
          /\ Atlas!Fits(pages[p], extent[g])
      BY DEF Atlas!Room, AtlasInv, AtlasTypes
    <3>2. Hold(pages)
      BY DEF AtlasInv, AtlasTypes, ShelvesFit, BitmapsPlaced, Hold
    <3> QED
      BY <2>0, <2>1, <3>1, <3>2, PlaceKeepsCells
  <2>2. CASE /\ Len(pages) < kMaxAtlasPages
             /\ Atlas!Place(g, Len(pages) + 1, Append(pages, Atlas!FreshPage))
    <3> DEFINE all == Append(pages, Atlas!FreshPage)
    <3>0. /\ pages \in Seq(AtlasPage) /\ kAtlasPageSize \in Nat /\ kMaxAtlasPages \in Nat
          /\ extent[g] \in Extents /\ extent[g].w \in Nat /\ extent[g].h \in Nat
          /\ kGlyphPadding \in Nat
          /\ Atlas!NeedW(extent[g]) <= kAtlasPageSize /\ Atlas!NeedH(extent[g]) <= kAtlasPageSize
      BY DEF AtlasInv, AtlasTypes, Atlas!AtlasAssumption, Atlas!NeedW, Atlas!NeedH
    <3>1. Atlas!FreshPage \in AtlasPage
          /\ Atlas!FreshPage.cursorX = 0 /\ Atlas!FreshPage.cursorY = 0
          /\ Atlas!FreshPage.rowHeight = 0
      BY <3>0 DEF Atlas!FreshPage, AtlasPage, Atlas!Coordinate
    <3>2. /\ all \in Seq(AtlasPage) /\ Len(all) = Len(pages) + 1 /\ Len(all) <= kMaxAtlasPages
          /\ Len(pages) + 1 \in 1 .. Len(all) /\ all[Len(pages) + 1] = Atlas!FreshPage
          /\ \A q \in 1 .. Len(pages) : all[q] = pages[q]
      BY <2>2, <3>0, <3>1
    <3> HIDE DEF all
    <3>3. Atlas!Fits(all[Len(pages) + 1], extent[g])
      BY <3>0, <3>1, <3>2 DEF Atlas!Fits, Atlas!NeedH, Atlas!NeedW
    <3>4. \A q \in 1 .. Len(all) : all[q].cursorY + all[q].rowHeight <= kAtlasPageSize
      BY <3>0, <3>1, <3>2 DEF AtlasInv, ShelvesFit
    <3>5. \A b \in bitmaps : b.page \in 1 .. Len(all) /\ Placed(b, all[b.page])
      BY <3>0, <3>2 DEF AtlasInv, BitmapsPlaced
    <3>6. Atlas!Place(g, Len(pages) + 1, all)
      BY <2>2 DEF all
    <3>7. Hold(all)
      BY <3>2, <3>4, <3>5 DEF Hold
    <3> QED
      BY <2>0, <3>2, <3>3, <3>6, <3>7, PlaceKeepsCells
  <2>3. CASE Atlas!CacheBlank(g)
    <3>1. /\ glyphCache' = [h \in DOMAIN glyphCache \cup {g} |->
                              IF h = g THEN [page |-> 0, x |-> 0, y |-> 0] ELSE glyphCache[h]]
          /\ pages' = pages /\ bitmaps' = bitmaps /\ marked' = marked /\ extent' = extent
      BY <2>0, <2>3 DEF Atlas!CacheBlank
    <3>2. [page |-> 0, x |-> 0, y |-> 0]
            \in [page : 0 .. kMaxAtlasPages, x : Atlas!Coordinate, y : Atlas!Coordinate]
      BY DEF Atlas!Coordinate, Atlas!AtlasAssumption
    <3>3. AtlasTypes'
      BY <3>1, <3>2 DEF AtlasInv, AtlasTypes, Atlas!Region, Atlas!Coordinate
    <3>4. \A h \in DOMAIN glyphCache' : glyphCache'[h].page # 0 =>
            h \in DOMAIN glyphCache /\ glyphCache'[h] = glyphCache[h]
      BY <3>1
    <3>5. CachedAreDrawn'
      BY <3>1, <3>4 DEF AtlasInv, CachedAreDrawn, Sampled
    <3> QED
      BY <3>1, <3>3, <3>5 DEF AtlasInv, ShelvesFit, BitmapsPlaced, BitmapsMarked, BitmapsApart,
                              Placed, Within, Apart, WithPadding
  <2> QED
    BY <1>1, <2>1, <2>2, <2>3 DEF Atlas!RasterizeGlyph, Atlas!Rasterize
<1>2. CASE UNCHANGED Atlas!vars
  BY <1>2 DEF Atlas!vars, AtlasInv, AtlasTypes, ShelvesFit, BitmapsPlaced, BitmapsMarked,
              BitmapsApart, CachedAreDrawn, Placed, Within, Apart,
              WithPadding, Sampled, Atlas!Region, Atlas!Coordinate
<1> QED
  BY <1>1, <1>2 DEF Atlas!Next

\* The variables of the atlas keep their types, for any glyphs that are not larger than a
\* page, and any number and size of pages.
THEOREM AtlasTypesHold ==
  ASSUME Atlas!AtlasAssumption
  PROVE  Atlas!Spec => []Atlas!TypeOK
<1>1. AtlasInv => Atlas!TypeOK
  <2>1. ASSUME AtlasInv PROVE \A b \in bitmaps : b.glyph \in Glyph
    BY <2>1 DEF AtlasInv, AtlasTypes, Bitmap
  <2>2. ASSUME AtlasInv
        PROVE  \A p \in DOMAIN pages : pages[p] \in [cursorX : Atlas!Coordinate,
                 cursorY : Atlas!Coordinate, rowHeight : Atlas!Coordinate]
    <3>1. pages \in Seq(AtlasPage)
      BY <2>2 DEF AtlasInv, AtlasTypes
    <3>2. \A p \in DOMAIN pages : pages[p] \in AtlasPage
      BY <3>1
    <3> QED
      BY <3>2 DEF AtlasPage
  <2> QED
    BY <2>1, <2>2 DEF AtlasInv, AtlasTypes, Atlas!TypeOK
<1> QED
  BY <1>1, AtlasInitially, AtlasSteps, PTL DEF Atlas!Spec

\* A cached glyph is where it is drawn from, within its page and marked for upload, and
\* no other was or will be written so near that it shows at the rim (rasterizeGlyph).
THEOREM CellsAreKept ==
  ASSUME Atlas!AtlasAssumption
  PROVE  Atlas!Spec => []GlyphsKeepTheirCells
<1>1. ASSUME AtlasInv PROVE GlyphsKeepTheirCells
  <2>1. ASSUME NEW b \in bitmaps
        PROVE  Within(WithPadding(b), [page |-> b.page, x |-> 0, y |-> 0,
                                  w |-> kAtlasPageSize, h |-> kAtlasPageSize])
    <3>1. b \in Bitmap /\ pages[b.page] \in AtlasPage /\ Placed(b, pages[b.page])
          /\ pages[b.page].cursorY + pages[b.page].rowHeight <= kAtlasPageSize
      BY <1>1 DEF AtlasInv, AtlasTypes, BitmapsPlaced, ShelvesFit
    <3> QED
      BY <3>1 DEF Atlas!AtlasAssumption, Placed, Bitmap, AtlasPage, Atlas!Coordinate,
                  Within, WithPadding
  <2> QED
    BY <1>1, <2>1 DEF AtlasInv, BitmapsMarked, BitmapsApart, CachedAreDrawn,
                      GlyphsKeepTheirCells, Apart
<1> QED
  BY <1>1, AtlasInitially, AtlasSteps, PTL DEF Atlas!Spec

-----------------------------------------------------------------------------
(***************************************************************************)
(* The lines of a text.  A line that was pushed is in order with those     *)
(* before it, fits, and stands to the next one as it will in the end; the  *)
(* last of them stands so to the line that is scanned, of which what was   *)
(* scanned fits too.                                                       *)
(***************************************************************************)

Line == [begin : 1 .. Len(text) + 1, end : 1 .. Len(text) + 1, ellipsized : BOOLEAN]

InputTyped ==
  /\ text \in Seq(Lines!Glyph) /\ Len(text) <= MaxGlyphs
  /\ breaks \subseteq Lines!Breakable(text)
  /\ maxWidth \in Widths /\ maxLines \in Limits

\* The line and a line that begins at first are of one paragraph.
Open(line, first) ==
  line.begin < line.end /\ \A p \in line.begin .. first - 1 : text[p] # Newline

\* Where a word that begins at first may end.
EndsFrom(first) ==
  {b + 1 : b \in {b \in breaks : b >= first}} \cup {Len(text) + 1}
    \cup {p \in first .. Len(text) : text[p] = Newline}

KeepsWords(line, first) ==
  first - 1 \in breaks \/ breaks \cap (line.begin .. first - 2) = {}

Filled(line, first) ==
  SingleSpaces => Extent(line.begin, Trimmed(first, Min(EndsFrom(first)))) > maxWidth

Paired(line, first) == Open(line, first) => KeepsWords(line, first) /\ Filled(line, first)

Narrow(begin, end) == Extent(begin, end) <= maxWidth \/ end = begin + 1

\* Lines that were pushed, up to a position.
Pushed(ls, upto) ==
  /\ ls \in Seq(Line)
  /\ \A k \in 1 .. Len(ls) :
       /\ ~ls[k].ellipsized
       /\ ls[k].begin <= ls[k].end /\ ls[k].end <= upto
       /\ maxWidth > 0 => Narrow(ls[k].begin, ls[k].end)
  /\ \A k, l \in 1 .. Len(ls) : k < l => ls[k].end <= ls[l].begin
  /\ \A k \in 1 .. Len(ls) - 1 : Paired(ls[k], ls[k + 1].begin)
  /\ \A g \in Seen : g < upto => \E k \in 1 .. Len(ls) : g \in PositionsOf(ls[k])

ScanTyped ==
  /\ at \in 1 .. Len(text) + 1 /\ lineStart \in 1 .. Len(text) + 1
  /\ lastBreak \in 0 .. Len(text)

\* The line that is scanned: spaces skipped ahead, the last break, and the width.
Scanned ==
  /\ \A r \in at .. lineStart - 1 : text[r] = Space
  /\ lastBreak # 0 => lastBreak \in breaks /\ lastBreak < at /\ lineStart - 1 <= lastBreak
  /\ \A j \in breaks : lineStart <= j /\ j < at => j <= lastBreak
  /\ \A p \in lineStart .. at - 1 : text[p] # Newline
  /\ maxWidth > 0 /\ lineStart < at => Narrow(lineStart, at)

\* The last line stands to the one that is scanned as it must.
Follows ==
  lines # << >> =>
    /\ Paired(lines[Len(lines)], lineStart)
    /\ Open(lines[Len(lines)], lineStart) /\ lineStart <= Len(text) => text[lineStart] # Space

LEMMA LeastOf ==
  ASSUME NEW S \in SUBSET Nat, S # {}
  PROVE  \E x \in S : \A y \in S : x <= y
<1> DEFINE R == OpToRel(<, Nat)
<1>1. IsWellFoundedOn(R, Nat)
  BY NatLessThanWellFounded
<1>2. \A x, y \in Nat : y < x => <<y, x>> \in R
  BY SMT DEF OpToRel
<1> HIDE DEF R
<1>3. PICK x \in S : \A y \in S : ~(<<y, x>> \in R)
  BY <1>1, WFMin
<1>4. \A y \in S : x <= y
  <2> SUFFICES ASSUME NEW y \in S, ~(x <= y) PROVE FALSE
    OBVIOUS
  <2>1. x \in Nat /\ y \in Nat /\ y < x
    OBVIOUS
  <2> QED
    BY <2>1, <1>2, <1>3
<1> QED
  BY <1>4

LEMMA GreatestOf ==
  ASSUME NEW n \in Nat, NEW S \in SUBSET (0 .. n), S # {}
  PROVE  \E x \in S : \A y \in S : x >= y
<1> DEFINE T == {k \in Nat : n - k \in S}
<1>1. T \in SUBSET Nat /\ T # {}
  <2>1. PICK x \in S : TRUE
    OBVIOUS
  <2>2. n - x \in Nat /\ n - (n - x) = x
    OBVIOUS
  <2>3. n - x \in T
    BY <2>2
  <2> QED
    BY <2>3
<1>2. PICK t \in T : \A u \in T : t <= u
  <2> HIDE DEF T
  <2> QED
    BY <1>1, LeastOf
<1>3. t \in Nat /\ n - t \in S
  OBVIOUS
<1>4. ASSUME NEW y \in S PROVE n - t >= y
  <2>1. n - y \in Nat /\ n - (n - y) = y
    OBVIOUS
  <2>2. n - y \in T
    BY <2>1
  <2>3. t <= n - y
    <3> HIDE DEF T
    <3> QED
      BY <1>2, <2>2
  <2> QED
    BY <1>3, <2>3
<1> QED
  BY <1>3, <1>4

\* Sums of the widths of a text, up to the first n glyphs.
Sums(p, n) == p = [k \in 0 .. n |-> IF k = 0 THEN 0 ELSE p[k - 1] + Advance[text[k]]]

LEMMA SumsExist ==
  ASSUME NEW m \in Nat
  PROVE  \E p : Sums(p, m)
<1> DEFINE T == {n \in Nat : ~\E p : Sums(p, n)}
<1> SUFFICES ASSUME T # {} PROVE FALSE
  OBVIOUS
<1>0. T \in SUBSET Nat
  OBVIOUS
<1>1. PICK n \in T : \A k \in T : n <= k
  <2> HIDE DEF T
  <2> QED
    BY <1>0, LeastOf
<1>2. n \in Nat /\ ~\E p : Sums(p, n)
  OBVIOUS
<1>3. CASE n = 0
  <2> DEFINE p == [k \in 0 .. 0 |-> 0]
  <2>1. p = [k \in 0 .. 0 |-> IF k = 0 THEN 0 ELSE p[k - 1] + Advance[text[k]]]
    OBVIOUS
  <2>2. Sums(p, 0)
    BY <2>1 DEF Sums
  <2> QED
    BY <1>2, <1>3, <2>2
<1>4. CASE n # 0
  <2>1. n - 1 \in Nat /\ n - 1 \notin T
    BY <1>1, <1>2, <1>4
  <2>2. PICK p : Sums(p, n - 1)
    BY <2>1
  <2> DEFINE q == [k \in 0 .. n |-> IF k = n THEN p[n - 1] + Advance[text[n]] ELSE p[k]]
  <2>3. /\ DOMAIN p = 0 .. n - 1
        /\ \A k \in 0 .. n - 1 : p[k] = IF k = 0 THEN 0 ELSE p[k - 1] + Advance[text[k]]
    BY <2>2, Zenon DEF Sums
  <2>4. \A k \in 0 .. n : q[k] = IF k = 0 THEN 0 ELSE q[k - 1] + Advance[text[k]]
    <3> SUFFICES ASSUME NEW k \in 0 .. n
                 PROVE  q[k] = IF k = 0 THEN 0 ELSE q[k - 1] + Advance[text[k]]
      OBVIOUS
    <3>1. CASE k = n
      <4>1. n - 1 \in 0 .. n /\ n - 1 # n
        BY <2>1
      <4>2. q[n - 1] = p[n - 1]
        BY <4>1
      <4>3. q[n] = p[n - 1] + Advance[text[n]]
        BY <2>1
      <4> QED
        BY <3>1, <4>2, <4>3, <1>4
    <3>2. CASE k # n
      <4>1. k \in 0 .. n - 1 /\ (k # 0 => k - 1 \in 0 .. n /\ k - 1 # n)
        BY <1>2, <3>2
      <4>2. q[k] = p[k] /\ (k # 0 => q[k - 1] = p[k - 1])
        BY <4>1
      <4> QED
        BY <4>1, <4>2, <2>3
    <3> QED
      BY <3>1, <3>2
  <2>5. q = [k \in 0 .. n |-> q[k]]
    OBVIOUS
  <2>6. q = [k \in 0 .. n |-> IF k = 0 THEN 0 ELSE q[k - 1] + Advance[text[k]]]
    <3> HIDE DEF q
    <3> QED
      BY <2>4, <2>5
  <2>7. Sums(q, n)
    BY <2>6 DEF Sums
  <2> QED
    BY <2>7, <1>2
<1> QED
  BY <1>3, <1>4

TextTyped == text \in Seq(DOMAIN Advance) /\ Advance \in [DOMAIN Advance -> Nat]

LEMMA PrefixSums ==
  ASSUME TextTyped
  PROVE  /\ \A k \in 0 .. Len(text) : prefix[k] \in Nat
         /\ prefix[0] = 0
         /\ \A k \in 1 .. Len(text) : prefix[k] = prefix[k - 1] + Advance[text[k]]
<1>n. Len(text) \in Nat /\ \A k \in 1 .. Len(text) : Advance[text[k]] \in Nat
  BY DEF TextTyped
<1>1. prefix = CHOOSE p : Sums(p, Len(text))
  BY DEF prefix, Sums
<1>2. Sums(prefix, Len(text))
  <2>1. \E p : Sums(p, Len(text))
    BY <1>n, SumsExist
  <2> QED
    BY <1>1, <2>1
<1>3. \A k \in 0 .. Len(text) :
        prefix[k] = IF k = 0 THEN 0 ELSE prefix[k - 1] + Advance[text[k]]
  BY <1>2, Zenon DEF Sums
<1>4. prefix[0] = 0 /\ \A k \in 1 .. Len(text) : prefix[k] = prefix[k - 1] + Advance[text[k]]
  BY <1>3, <1>n
<1> DEFINE T == {k \in 0 .. Len(text) : prefix[k] \notin Nat}
<1>5. T = {}
  <2> SUFFICES ASSUME T # {} PROVE FALSE
    OBVIOUS
  <2>1. T \in SUBSET Nat
    OBVIOUS
  <2>2. PICK k \in T : \A j \in T : k <= j
    <3> HIDE DEF T
    <3> QED
      BY <2>1, LeastOf
  <2>3. k \in 0 .. Len(text) /\ prefix[k] \notin Nat
    OBVIOUS
  <2>4. k # 0
    BY <1>4, <2>3
  <2>5. k - 1 \in 0 .. Len(text) /\ k \in 1 .. Len(text)
    BY <1>n, <2>3, <2>4
  <2>6. prefix[k - 1] \in Nat
    BY <2>2, <2>5
  <2> QED
    BY <1>n, <1>4, <2>3, <2>5, <2>6
<1> QED
  BY <1>4, <1>5

\* A stretch of the text is no narrower than a part of it.
LEMMA ExtentGrows ==
  ASSUME TextTyped
  PROVE  /\ \A a, b \in 1 .. Len(text) + 1 : Extent(a, b) \in Int
         /\ \A a, b, c, d \in 1 .. Len(text) + 1 :
              a <= b /\ b <= c /\ c <= d => Extent(b, c) <= Extent(a, d)
         /\ \A a \in 1 .. Len(text) + 1 : Extent(a, a) = 0
<1> DEFINE n == Len(text)
<1>n. n \in Nat /\ \A k \in 1 .. n : Advance[text[k]] \in Nat
  BY DEF TextTyped
<1>1. /\ \A k \in 0 .. n : prefix[k] \in Nat
      /\ \A k \in 1 .. n : prefix[k] = prefix[k - 1] + Advance[text[k]]
  BY PrefixSums
<1> HIDE DEF n
<1>2. \A k \in 1 .. n : prefix[k - 1] <= prefix[k]
  <2> SUFFICES ASSUME NEW k \in 1 .. n PROVE prefix[k - 1] <= prefix[k]
    OBVIOUS
  <2>1. k - 1 \in 0 .. n /\ prefix[k - 1] \in Nat /\ Advance[text[k]] \in Nat
    BY <1>n, <1>1
  <2> QED
    BY <2>1, <1>1
<1>3. ASSUME NEW a \in 0 .. n, NEW b \in 0 .. n, a <= b
      PROVE  prefix[a] <= prefix[b]
  <2> DEFINE T == {k \in 0 .. n : a <= k /\ ~(prefix[a] <= prefix[k])}
  <2> SUFFICES ASSUME T # {} PROVE FALSE
    BY <1>3
  <2>1. T \in SUBSET Nat
    BY <1>n
  <2>2. PICK k \in T : \A j \in T : k <= j
    <3> HIDE DEF T
    <3> QED
      BY <2>1, LeastOf
  <2>3. k \in 0 .. n /\ a <= k /\ ~(prefix[a] <= prefix[k])
    OBVIOUS
  <2>4. k # a /\ prefix[a] \in Nat /\ prefix[k] \in Nat
    BY <1>1, <2>3
  <2>5. k \in 1 .. n /\ k - 1 \in 0 .. n /\ a <= k - 1
    BY <1>n, <2>3, <2>4
  <2>6. k - 1 \notin T
    <3> HIDE DEF T
    <3>1. \A j \in T : k <= j
      BY <2>2
    <3> QED
      BY <2>5, <3>1
  <2>7. prefix[a] <= prefix[k - 1] /\ prefix[k - 1] <= prefix[k] /\ prefix[k - 1] \in Nat
    BY <1>1, <1>2, <2>5, <2>6
  <2> QED
    BY <2>3, <2>4, <2>7
<1>4. \A a \in 1 .. n + 1 : a - 1 \in 0 .. n
  BY <1>n
<1>5. \A a, b \in 1 .. n + 1 : Extent(a, b) \in Int
  BY <1>1, <1>4 DEF Extent
<1>6. ASSUME NEW a \in 1 .. n + 1, NEW b \in 1 .. n + 1, NEW c \in 1 .. n + 1,
             NEW d \in 1 .. n + 1, a <= b, b <= c, c <= d
      PROVE  Extent(b, c) <= Extent(a, d)
  <2>1. /\ a - 1 \in 0 .. n /\ b - 1 \in 0 .. n /\ c - 1 \in 0 .. n /\ d - 1 \in 0 .. n
        /\ a - 1 <= b - 1 /\ c - 1 <= d - 1
    BY <1>n, <1>6
  <2>2. prefix[a - 1] <= prefix[b - 1] /\ prefix[c - 1] <= prefix[d - 1]
    BY <1>3, <2>1
  <2>3. prefix[a - 1] \in Nat /\ prefix[b - 1] \in Nat /\ prefix[c - 1] \in Nat
        /\ prefix[d - 1] \in Nat
    BY <1>1, <2>1
  <2> QED
    BY <2>2, <2>3 DEF Extent
<1>7. \A a \in 1 .. n + 1 : Extent(a, a) = 0
  BY <1>1, <1>4 DEF Extent
<1> QED
  BY <1>5, <1>6, <1>7 DEF n

\* Trimming drops spaces only.
LEMMA TrimmedIs ==
  ASSUME TextTyped, NEW b \in 1 .. Len(text) + 1, NEW e \in 1 .. Len(text) + 1, b <= e
  PROVE  /\ Trimmed(b, e) \in b .. e
         /\ Trimmed(b, e) = b \/ text[Trimmed(b, e) - 1] # Space
         /\ \A r \in Trimmed(b, e) .. e - 1 : text[r] = Space
<1> DEFINE T == {q \in b .. e : \A r \in q .. e - 1 : text[r] = Space}
<1>1. T \in SUBSET Nat /\ e \in T
  BY DEF TextTyped
<1>2. PICK q \in T : \A p \in T : q <= p
  <2> HIDE DEF T
  <2> QED
    BY <1>1, LeastOf
<1>3. q \in b .. e /\ \A r \in q .. e - 1 : text[r] = Space
  OBVIOUS
<1>4. q = b \/ text[q - 1] # Space
  <2> SUFFICES ASSUME q # b, text[q - 1] = Space PROVE FALSE
    OBVIOUS
  <2>1. q - 1 \in b .. e
    BY <1>3
  <2>2. \A r \in q - 1 .. e - 1 : r = q - 1 \/ r \in q .. e - 1
    BY <1>3
  <2>3. q - 1 \in T
    BY <1>3, <2>1, <2>2
  <2> HIDE DEF T
  <2> QED
    BY <1>2, <1>3, <2>3
<1>5. ~(e < b)
  OBVIOUS
<1>6. Trimmed(b, e) = CHOOSE p \in b .. e : /\ p = b \/ text[p - 1] # Space
                                            /\ \A r \in p .. e - 1 : text[r] = Space
  BY <1>5 DEF Trimmed
<1> QED
  BY <1>3, <1>4, <1>6, Zenon

LEMMA SkipIs ==
  ASSUME TextTyped, NEW p \in 1 .. Len(text) + 1
  PROVE  /\ Lines!SkipSpaces(p) \in p .. Len(text) + 1
         /\ Lines!SkipSpaces(p) = Len(text) + 1 \/ text[Lines!SkipSpaces(p)] # Space
         /\ \A r \in p .. Lines!SkipSpaces(p) - 1 : text[r] = Space
<1> DEFINE T == {q \in p .. Len(text) + 1 : q = Len(text) + 1 \/ text[q] # Space}
<1>1. T \in SUBSET Nat /\ Len(text) + 1 \in T
  BY DEF TextTyped
<1>2. PICK q \in T : \A r \in T : q <= r
  <2> HIDE DEF T
  <2> QED
    BY <1>1, LeastOf
<1>3. q \in p .. Len(text) + 1 /\ (q = Len(text) + 1 \/ text[q] # Space)
  OBVIOUS
<1>4. \A r \in p .. q - 1 : text[r] = Space
  <2> SUFFICES ASSUME NEW r \in p .. q - 1, text[r] # Space PROVE FALSE
    OBVIOUS
  <2>1. r \in T /\ ~(q <= r)
    BY <1>3 DEF TextTyped
  <2> HIDE DEF T
  <2> QED
    BY <1>2, <2>1
<1>5. Lines!SkipSpaces(p) = CHOOSE x \in p .. Len(text) + 1 :
                              /\ x = Len(text) + 1 \/ text[x] # Space
                              /\ \A r \in p .. x - 1 : text[r] = Space
  BY DEF Lines!SkipSpaces, Space, Lines!Space
<1> QED
  BY <1>3, <1>4, <1>5, Zenon

LEMMA RescannedIs ==
  ASSUME TextTyped, breaks \subseteq Lines!Breakable(text), NEW start \in 1 .. Len(text) + 1
  PROVE  /\ Lines!Rescanned(start) \in 0 .. Len(text)
         /\ Lines!Rescanned(start) # 0 =>
              /\ Lines!Rescanned(start) \in breaks
              /\ start <= Lines!Rescanned(start) /\ Lines!Rescanned(start) < at
         /\ \A j \in breaks : start <= j /\ j < at => j <= Lines!Rescanned(start)
<1> DEFINE S == {0} \cup {j \in breaks : start <= j /\ j < at}
<1>1. breaks \subseteq 0 .. Len(text) /\ Len(text) \in Nat
  BY DEF Lines!Breakable, TextTyped
<1>2. S \in SUBSET (0 .. Len(text)) /\ S # {}
  <2>1. 0 \in S /\ 0 \in 0 .. Len(text)
    BY <1>1
  <2>2. \A j \in S : j = 0 \/ j \in breaks
    OBVIOUS
  <2> HIDE DEF S
  <2> QED
    BY <1>1, <2>1, <2>2
<1>3. Lines!Rescanned(start) = CHOOSE x \in S : \A y \in S : x >= y
  BY DEF Lines!Rescanned, Lines!None, Lines!Max
<1>4. PICK x \in S : \A y \in S : x >= y
  <2> HIDE DEF S
  <2> QED
    BY <1>1, <1>2, GreatestOf
<1>5. Lines!Rescanned(start) \in S /\ \A y \in S : Lines!Rescanned(start) >= y
  <2> HIDE DEF S
  <2> QED
    BY <1>3, <1>4, Zenon
<1> HIDE DEF S
<1>6. \A j \in S : j \in 0 .. Len(text)
  BY <1>2
<1>7. \A y \in S : y <= Lines!Rescanned(start)
  BY <1>5, <1>6, <1>1
<1> QED
  BY <1>5, <1>6, <1>7 DEF S

\* A word ends behind where it begins, unless the text does, and no earlier than where
\* no break and no newline is in between.
LEMMA EndIsBeyond ==
  ASSUME TextTyped, breaks \subseteq Lines!Breakable(text),
         NEW first \in 1 .. Len(text) + 1, NEW p \in 1 .. Len(text) + 1, first <= p,
         \A b \in breaks : first <= b => p <= b + 1,
         \A q \in first .. Len(text) : text[q] = Newline => p <= q
  PROVE  Min(EndsFrom(first)) \in p .. Len(text) + 1
<1>1. breaks \subseteq 1 .. Len(text) /\ Len(text) \in Nat
  BY DEF Lines!Breakable, TextTyped
<1>2. \A e \in EndsFrom(first) : e \in p .. Len(text) + 1
  BY <1>1 DEF EndsFrom
<1>3. EndsFrom(first) \in SUBSET Nat /\ EndsFrom(first) # {}
  <2>1. Len(text) + 1 \in EndsFrom(first)
    BY DEF EndsFrom
  <2> QED
    BY <1>1, <1>2, <2>1
<1>4. PICK x \in EndsFrom(first) : \A y \in EndsFrom(first) : x <= y
  BY <1>3, LeastOf
<1>5. Min(EndsFrom(first)) \in EndsFrom(first)
  BY <1>4, Zenon DEF Min
<1> QED
  BY <1>2, <1>5

\* What follows a break is neither a space nor a newline.
LEMMA BreaksAre ==
  ASSUME TextTyped, breaks \subseteq Lines!Breakable(text), NEW b \in breaks
  PROVE  /\ b \in 1 .. Len(text) /\ b + 1 \in 1 .. Len(text)
         /\ text[b] # Newline /\ text[b + 1] # Space /\ text[b + 1] # Newline
  BY DEF Lines!Breakable, TextTyped, Space, Newline, Lines!Space, Lines!Newline

\* What was pushed with one line more behind it.
LEMMA PushedMore ==
  ASSUME TextTyped, NEW ls, NEW u \in 1 .. Len(text) + 1, Pushed(ls, u),
         NEW e \in 1 .. Len(text) + 1, NEW w \in 1 .. Len(text) + 1, u <= e, e <= w,
         ls # << >> => Paired(ls[Len(ls)], u),
         maxWidth > 0 => Narrow(u, e),
         \A r \in e .. w - 1 : text[r] \in {Space, Newline}
  PROVE  Pushed(Append(ls, [begin |-> u, end |-> e, ellipsized |-> FALSE]), w)
<1> DEFINE line == [begin |-> u, end |-> e, ellipsized |-> FALSE]
           more == Append(ls, line)
           n == Len(ls)
<1>0. Len(text) \in Nat
  BY DEF TextTyped
<1>1. line \in Line /\ ls \in Seq(Line) /\ n \in Nat
  BY DEF Line, Pushed
<1>2. /\ more \in Seq(Line) /\ Len(more) = n + 1 /\ more[n + 1] = line
      /\ \A k \in 1 .. n : more[k] = ls[k]
  BY <1>1
<1>3. line.begin = u /\ line.end = e /\ ~line.ellipsized
  OBVIOUS
<1>4. \A k \in 1 .. n : ls[k] \in Line /\ ls[k].begin \in Int /\ ls[k].end \in Int
  <2>1. \A k \in 1 .. n : ls[k] \in Line
    BY <1>1
  <2>2. \A l \in Line : l.begin \in Int /\ l.end \in Int
    BY <1>0 DEF Line
  <2> QED
    BY <2>1, <2>2
<1> HIDE DEF line, more, n
<1>5. ASSUME NEW k \in 1 .. n + 1
      PROVE  /\ ~more[k].ellipsized
             /\ more[k].begin <= more[k].end /\ more[k].end <= w
             /\ maxWidth > 0 => Narrow(more[k].begin, more[k].end)
  <2>1. CASE k = n + 1
    BY <2>1, <1>2, <1>3
  <2>2. CASE k # n + 1
    <3>1. k \in 1 .. n
      BY <1>1, <2>2
    <3>2. more[k] = ls[k] /\ ls[k].end \in Int
      BY <1>2, <1>4, <3>1
    <3>3. ls[k].end <= u /\ ~ls[k].ellipsized /\ ls[k].begin <= ls[k].end
          /\ (maxWidth > 0 => Narrow(ls[k].begin, ls[k].end))
      BY <3>1 DEF Pushed, n
    <3>4. ls[k].end <= w
      BY <1>0, <3>2, <3>3
    <3> QED
      BY <3>2, <3>3, <3>4
  <2> QED
    BY <2>1, <2>2
<1>6. ASSUME NEW k \in 1 .. n + 1, NEW l \in 1 .. n + 1, k < l
      PROVE  more[k].end <= more[l].begin
  <2>1. k \in 1 .. n
    BY <1>1, <1>6
  <2>2. CASE l = n + 1
    BY <2>1, <2>2, <1>2, <1>3 DEF Pushed, n
  <2>3. CASE l # n + 1
    <3>1. l \in 1 .. n
      BY <1>1, <2>3
    <3> QED
      BY <2>1, <3>1, <1>2, <1>6 DEF Pushed, n
  <2> QED
    BY <2>2, <2>3
<1>7. ASSUME NEW k \in 1 .. n PROVE Paired(more[k], more[k + 1].begin)
  <2>1. CASE k = n
    <3>1. ls # << >> /\ more[k] = ls[n] /\ more[k + 1] = line
      BY <1>1, <1>2, <2>1 DEF n
    <3> QED
      BY <3>1, <1>3 DEF n
  <2>2. CASE k # n
    <3>1. k \in 1 .. n - 1 /\ k + 1 \in 1 .. n
      BY <1>1, <2>2
    <3>2. more[k] = ls[k] /\ more[k + 1] = ls[k + 1]
      BY <1>2, <3>1
    <3> QED
      BY <3>1, <3>2 DEF Pushed, n
  <2> QED
    BY <2>1, <2>2
<1>8. ASSUME NEW g \in Seen, g < w PROVE \E k \in 1 .. n + 1 : g \in PositionsOf(more[k])
  <2>g. g \in 1 .. Len(text) /\ text[g] \notin {Space, Newline}
    BY DEF Seen
  <2>1. CASE g < u
    <3>1. PICK k \in 1 .. n : g \in PositionsOf(ls[k])
      BY <2>1 DEF Pushed, n
    <3>2. k \in 1 .. n + 1 /\ more[k] = ls[k]
      BY <1>1, <1>2
    <3> QED
      BY <3>1, <3>2
  <2>2. CASE ~(g < u)
    <3>1. g \notin e .. w - 1
      BY <2>g
    <3>2. g \in u .. e - 1
      BY <1>0, <2>g, <2>2, <3>1, <1>8
    <3>3. n + 1 \in 1 .. n + 1 /\ g \in PositionsOf(more[n + 1])
      BY <1>1, <1>2, <1>3, <3>2 DEF PositionsOf
    <3> QED
      BY <3>3
  <2> QED
    BY <2>1, <2>2
<1>9. Pushed(more, w)
  <2>1. Len(more) - 1 = n
    BY <1>1, <1>2
  <2> QED
    BY <1>2, <1>5, <1>6, <1>7, <1>8, <2>1 DEF Pushed
<1> QED
  BY <1>9 DEF more, line

-----------------------------------------------------------------------------
(* The scan *)

Scan ==
  /\ InputTyped /\ TextTyped /\ ScanTyped /\ done = FALSE
  /\ Scanned /\ Follows /\ Pushed(lines, lineStart)

\* The input is what it was.
SameInput == text' = text /\ breaks' = breaks /\ maxWidth' = maxWidth /\ maxLines' = maxLines

\* What the next state keeps, said of what is in it but of the text as it is.
ScannedAt(a, s, b) ==
  /\ \A r \in a .. s - 1 : text[r] = Space
  /\ b # 0 => b \in breaks /\ b < a /\ s - 1 <= b
  /\ \A j \in breaks : s <= j /\ j < a => j <= b
  /\ \A p \in s .. a - 1 : text[p] # Newline
  /\ maxWidth > 0 /\ s < a => Narrow(s, a)

FollowsAt(ls, s) ==
  ls # << >> =>
    /\ Paired(ls[Len(ls)], s)
    /\ Open(ls[Len(ls)], s) /\ s <= Len(text) => text[s] # Space

ScanAt(ls, a, s, b) ==
  /\ a \in 1 .. Len(text) + 1 /\ s \in 1 .. Len(text) + 1 /\ b \in 0 .. Len(text)
  /\ ScannedAt(a, s, b) /\ FollowsAt(ls, s) /\ Pushed(ls, s)

LEMMA ScanAtNow ==
  ASSUME Scan
  PROVE  ScanAt(lines, at, lineStart, lastBreak)
BY DEF Scan, ScanAt, ScanTyped, Scanned, ScannedAt, Follows, FollowsAt

LEMMA SameExtents ==
  ASSUME SameInput
  PROVE  /\ prefix' = prefix
         /\ Line' = Line /\ Seen' = Seen /\ (SingleSpaces' <=> SingleSpaces)
  BY DEF SameInput, prefix, Line, Seen, SingleSpaces, Space, Newline

LEMMA PairedStays ==
  ASSUME SameInput, NEW line, NEW first
  PROVE  /\ Open(line, first)' <=> Open(line, first)
         /\ Paired(line, first)' <=> Paired(line, first)
<1>1. prefix' = prefix /\ (SingleSpaces' <=> SingleSpaces)
  BY SameExtents
<1>2. /\ text' = text /\ breaks' = breaks /\ maxWidth' = maxWidth
  BY DEF SameInput
<1> QED
  BY <1>1, <1>2 DEF Paired, Open, KeepsWords, Filled, Extent, Trimmed, EndsFrom, Min

LEMMA PushedStays ==
  ASSUME SameInput, NEW ls, NEW u, lines' = ls, lineStart' = u, Pushed(ls, u)
  PROVE  Pushed(lines, lineStart)'
<1>1. prefix' = prefix /\ (SingleSpaces' <=> SingleSpaces) /\ Line' = Line /\ Seen' = Seen
  BY SameExtents
<1>2. /\ text' = text /\ breaks' = breaks /\ maxWidth' = maxWidth
  BY DEF SameInput
<1>3. lines' = ls /\ lineStart' = u
  OBVIOUS
<1>4. /\ ls \in Seq(Line)
      /\ \A k \in 1 .. Len(ls) :
           /\ ~ls[k].ellipsized
           /\ ls[k].begin <= ls[k].end /\ ls[k].end <= u
           /\ maxWidth > 0 => Narrow(ls[k].begin, ls[k].end)
      /\ \A k, l \in 1 .. Len(ls) : k < l => ls[k].end <= ls[l].begin
      /\ \A g \in Seen : g < u => \E k \in 1 .. Len(ls) : g \in PositionsOf(ls[k])
  BY DEF Pushed
<1>5. ASSUME NEW k \in 1 .. Len(ls) - 1
      PROVE  Paired(lines[k], lines[k + 1].begin)'
  <2>1. Paired(ls[k], ls[k + 1].begin)
    BY DEF Pushed
  <2> QED
    BY <1>1, <1>2, <1>3, <2>1 DEF Paired, Open, KeepsWords, Filled, Extent, Trimmed, EndsFrom, Min
<1>6. ASSUME NEW k \in 1 .. Len(ls), maxWidth > 0 PROVE Narrow(lines[k].begin, lines[k].end)'
  <2>1. Narrow(ls[k].begin, ls[k].end)
    BY <1>4, <1>6
  <2> QED
    BY <1>1, <1>2, <1>3, <2>1 DEF Narrow, Extent
<1>7. ASSUME NEW g \in Seen, g < u
      PROVE  \E k \in 1 .. Len(ls) : g \in PositionsOf(lines[k])'
  BY <1>3, <1>4, <1>7 DEF PositionsOf
<1> QED
  BY <1>1, <1>2, <1>3, <1>4, <1>5, <1>6, <1>7 DEF Pushed

LEMMA ScanStays ==
  ASSUME Scan, SameInput, ScanAt(lines', at', lineStart', lastBreak'), done' = done
  PROVE  Scan'
<1> DEFINE ls == lines'
           a == at'
           s == lineStart'
           b == lastBreak'
<1>0. ScanAt(ls, a, s, b) /\ lines' = ls /\ at' = a /\ lineStart' = s /\ lastBreak' = b
  OBVIOUS
<1>1. prefix' = prefix /\ (SingleSpaces' <=> SingleSpaces)
  BY SameExtents
<1>2. /\ text' = text /\ breaks' = breaks /\ maxWidth' = maxWidth /\ maxLines' = maxLines
  BY DEF SameInput
<1> HIDE DEF ls, a, s, b
<1>3. InputTyped' /\ TextTyped' /\ done' = FALSE /\ ScanTyped'
  BY <1>0, <1>2 DEF Scan, ScanAt, ScanTyped, InputTyped, TextTyped, Lines!Breakable,
                    Lines!Space, Lines!Newline
<1>4. Scanned'
  BY <1>0, <1>1, <1>2 DEF ScanAt, ScannedAt, Scanned, Narrow, Extent, Space, Newline
<1>5. Follows'
  <2> SUFFICES ASSUME ls # << >>
               PROVE  /\ Paired(lines[Len(lines)], lineStart)'
                      /\ Open(lines[Len(lines)], lineStart)' /\ s <= Len(text) => text[s] # Space
    BY <1>0, <1>2 DEF Follows, Space
  <2>1. /\ Paired(ls[Len(ls)], s)
        /\ Open(ls[Len(ls)], s) /\ s <= Len(text) => text[s] # Space
    BY <1>0 DEF ScanAt, FollowsAt
  <2> QED
    BY <1>0, <1>1, <1>2, <2>1
       DEF Paired, Open, KeepsWords, Filled, Extent, Trimmed, EndsFrom, Min, Space, Newline
<1>6. Pushed(lines, lineStart)'
  BY <1>0, PushedStays DEF ScanAt
<1> QED
  BY <1>3, <1>4, <1>5, <1>6 DEF Scan

LEMMA SameNames ==
  /\ Lines!Space = Space /\ Lines!Newline = Newline /\ Lines!None = 0 /\ Space # Newline
  /\ \A b, e : Lines!Trimmed(b, e) = Trimmed(b, e)
  /\ \A b, e : Lines!Extent(b, e) = Extent(b, e)
BY DEF Lines!Space, Lines!Newline, Lines!None, Space, Newline, Lines!Trimmed, Trimmed,
       Lines!Extent, Extent, Lines!prefix, prefix

\* What is trimmed off makes no line wider.
LEMMA TrimmedIsNarrow ==
  ASSUME TextTyped, maxWidth \in Int, maxWidth > 0,
         NEW b \in 1 .. Len(text) + 1, NEW e \in 1 .. Len(text) + 1, b <= e,
         b < e => Narrow(b, e)
  PROVE  Narrow(b, Trimmed(b, e))
<1> DEFINE t == Trimmed(b, e)
<1>1. t \in b .. e
  BY TrimmedIs
<1> HIDE DEF t
<1>2. t \in 1 .. Len(text) + 1 /\ b <= t /\ t <= e /\ Len(text) \in Nat
  BY <1>1 DEF TextTyped
<1>3. Extent(b, t) <= Extent(b, e) /\ Extent(b, b) = 0 /\ Extent(b, e) \in Int
      /\ Extent(b, t) \in Int
  BY <1>2, ExtentGrows
<1>4. Narrow(b, t)
  <2>1. CASE t = b
    BY <2>1, <1>3 DEF Narrow
  <2>2. CASE t # b /\ Extent(b, e) <= maxWidth
    BY <2>2, <1>3 DEF Narrow
  <2>3. CASE t # b /\ e = b + 1
    <3>1. t = b + 1
      BY <2>3, <1>2
    <3> QED
      BY <3>1 DEF Narrow
  <2> QED
    BY <2>1, <2>2, <2>3, <1>1 DEF Narrow
<1> QED
  BY <1>4 DEF t

\* Positions that show nothing are covered by any lines.
LEMMA PushedOver ==
  ASSUME TextTyped, NEW ls, NEW u \in 1 .. Len(text) + 1, Pushed(ls, u),
         NEW w \in 1 .. Len(text) + 1, u <= w,
         \A r \in u .. w - 1 : text[r] \in {Space, Newline}
  PROVE  Pushed(ls, w)
<1>0. Len(text) \in Nat
  BY DEF TextTyped
<1>1. ls \in Seq(Line) /\ \A l \in Line : l.end \in Int
  BY <1>0 DEF Pushed, Line
<1>2. ASSUME NEW k \in 1 .. Len(ls) PROVE ls[k].end <= w
  <2>1. ls[k].end <= u /\ ls[k].end \in Int
    BY <1>1 DEF Pushed
  <2> QED
    BY <1>0, <2>1
<1>3. ASSUME NEW g \in Seen, g < w PROVE g < u
  BY <1>0, <1>3 DEF Seen
<1> QED
  BY <1>2, <1>3 DEF Pushed

\* The line that is scanned is pushed up to e, and the next one begins at w.
LEMMA PushedNext ==
  ASSUME Scan, NEW e \in 1 .. Len(text) + 1, NEW w \in 1 .. Len(text) + 1,
         lineStart <= e, e <= w, Lines!PushLine(lineStart, e),
         maxWidth > 0 => Narrow(lineStart, Trimmed(lineStart, e)),
         \A r \in e .. w - 1 : text[r] \in {Space, Newline}
  PROVE  Pushed(lines', w)
<1> DEFINE t == Trimmed(lineStart, e)
<1>0. lineStart \in 1 .. Len(text) + 1 /\ TextTyped /\ Len(text) \in Nat
  BY DEF Scan, ScanTyped, TextTyped
<1>1. t \in lineStart .. e /\ \A r \in t .. e - 1 : text[r] = Space
  BY <1>0, TrimmedIs
<1>2. lines' = Append(lines, [begin |-> lineStart, end |-> t, ellipsized |-> FALSE])
  BY SameNames DEF Lines!PushLine
<1> HIDE DEF t
<1>3. t \in 1 .. Len(text) + 1 /\ lineStart <= t /\ t <= w
  BY <1>0, <1>1
<1>4. \A r \in t .. w - 1 : text[r] \in {Space, Newline}
  <2> SUFFICES ASSUME NEW r \in t .. w - 1 PROVE text[r] \in {Space, Newline}
    OBVIOUS
  <2>1. r \in t .. e - 1 \/ r \in e .. w - 1
    BY <1>0, <1>3
  <2> QED
    BY <2>1, <1>1
<1>5. lines # << >> => Paired(lines[Len(lines)], lineStart)
  BY DEF Scan, Follows
<1>6. maxWidth > 0 => Narrow(lineStart, t)
  BY DEF t
<1>7. Pushed(lines, lineStart)
  BY DEF Scan
<1> QED
  BY <1>0, <1>2, <1>3, <1>4, <1>5, <1>6, <1>7, PushedMore

\* After a line was pushed it is the last one.
LEMMA LastPushed ==
  ASSUME Scan, NEW e, Lines!PushLine(lineStart, e)
  PROVE  /\ lines' # << >>
         /\ lines'[Len(lines')].begin = lineStart
         /\ lines'[Len(lines')].end = Trimmed(lineStart, e)
<1> DEFINE line == [begin |-> lineStart, end |-> Trimmed(lineStart, e), ellipsized |-> FALSE]
<1>1. lines \in Seq(Line) /\ lines' = Append(lines, line)
  BY SameNames DEF Lines!PushLine, Scan, Pushed
<1>2. line.begin = lineStart /\ line.end = Trimmed(lineStart, e)
  OBVIOUS
<1> HIDE DEF line
<1>3. lines' # << >> /\ Len(lines') = Len(lines) + 1 /\ lines'[Len(lines) + 1] = line
  BY <1>1
<1> QED
  BY <1>2, <1>3

LEMMA ScanFacts ==
  ASSUME Scan
  PROVE  /\ Len(text) \in Nat /\ maxWidth \in Widths /\ TextTyped
         /\ at \in 1 .. Len(text) + 1 /\ lineStart \in 1 .. Len(text) + 1
         /\ lastBreak \in 0 .. Len(text)
         /\ breaks \subseteq Lines!Breakable(text)
         /\ ScannedAt(at, lineStart, lastBreak) /\ FollowsAt(lines, lineStart)
         /\ Pushed(lines, lineStart)
<1>1. InputTyped /\ TextTyped
  BY DEF Scan
<1>2. ScanAt(lines, at, lineStart, lastBreak)
  BY ScanAtNow
<1> QED
  BY <1>1, <1>2 DEF ScanAt, TextTyped, InputTyped

LEMMA WidthIs ==
  ASSUME Scan, Widths \subseteq Nat
  PROVE  maxWidth \in Int
BY DEF Scan, InputTyped

\* Lines of one paragraph are so with the line that begins earlier.
LEMMA OpenEarlier ==
  ASSUME NEW line, NEW a \in Int, NEW b \in Int, a <= b, line.begin \in Int, Open(line, b)
  PROVE  Open(line, a)
<1>1. \A p \in line.begin .. a - 1 : p \in line.begin .. b - 1
  OBVIOUS
<1> QED
  BY <1>1 DEF Open

LEMMA HardBreakScans ==
  ASSUME Scan, Widths \subseteq Nat, Lines!HardBreak
  PROVE  Scan'
<1>0. /\ at \in 1 .. Len(text) /\ text[at] = Newline /\ Lines!PushLine(lineStart, at)
      /\ lineStart' = at + 1 /\ lastBreak' = 0 /\ at' = at + 1 /\ done' = done /\ SameInput
  BY SameNames, ScanFacts DEF Lines!HardBreak, Lines!Scanning, Lines!input, SameInput
<1>1. lineStart <= at
  BY <1>0, ScanFacts, SameNames DEF ScannedAt
<1>2. maxWidth > 0 => Narrow(lineStart, Trimmed(lineStart, at))
  <2>1. maxWidth > 0 /\ lineStart < at => Narrow(lineStart, at)
    BY ScanFacts DEF ScannedAt
  <2>2. /\ maxWidth \in Int /\ TextTyped /\ lineStart \in 1 .. Len(text) + 1
        /\ at \in 1 .. Len(text) + 1
    BY ScanFacts, WidthIs
  <2> QED
    BY <1>1, <2>1, <2>2, TrimmedIsNarrow
<1>3. Pushed(lines', at + 1)
  <2>1. at + 1 \in 1 .. Len(text) + 1 /\ at \in 1 .. Len(text) + 1 /\ at <= at + 1
    BY <1>0, ScanFacts
  <2>2. \A r \in at .. at : text[r] \in {Space, Newline}
    BY <1>0
  <2> QED
    BY <1>0, <1>1, <1>2, <2>1, <2>2, PushedNext
<1>4. ScannedAt(at + 1, at + 1, 0)
  BY <1>0, ScanFacts DEF ScannedAt, Lines!Breakable
<1>5. FollowsAt(lines', at + 1)
  <2>1. lines'[Len(lines')].begin = lineStart
    BY <1>0, LastPushed
  <2>2. at \in lineStart .. at
    BY <1>0, <1>1, ScanFacts
  <2>3. ~Open(lines'[Len(lines')], at + 1)
    BY <1>0, <2>1, <2>2 DEF Open
  <2> QED
    BY <2>3 DEF FollowsAt, Paired
<1>6. ScanAt(lines', at', lineStart', lastBreak')
  BY <1>0, <1>3, <1>4, <1>5, ScanFacts DEF ScanAt
<1> QED
  BY <1>0, <1>6, ScanStays

LEMMA LeadingSpaceScans ==
  ASSUME Scan, Lines!LeadingSpace
  PROVE  Scan'
<1>0. /\ at \in 1 .. Len(text) /\ text[at] = Space /\ at = lineStart
      /\ lineStart' = at + 1 /\ at' = at + 1 /\ lastBreak' = lastBreak /\ lines' = lines
      /\ done' = done /\ SameInput
  BY SameNames, ScanFacts DEF Lines!LeadingSpace, Lines!Scanning, Lines!input, SameInput
<1>1. lastBreak = 0
  <2> SUFFICES ASSUME lastBreak # 0 PROVE FALSE
    OBVIOUS
  <2>1. lastBreak \in breaks /\ lastBreak + 1 = at
    BY <1>0, ScanFacts DEF ScannedAt
  <2>2. text[lastBreak + 1] # Space
    BY <2>1, ScanFacts, BreaksAre
  <2> QED
    BY <1>0, <2>1, <2>2
<1>2. ScannedAt(at + 1, at + 1, lastBreak)
  BY <1>0, <1>1, ScanFacts DEF ScannedAt, Lines!Breakable
<1>3. Pushed(lines, at + 1)
  <2>1. \A r \in at .. at : text[r] \in {Space, Newline}
    BY <1>0
  <2>2. at + 1 \in 1 .. Len(text) + 1 /\ at <= at + 1
    BY <1>0, ScanFacts
  <2>3. Pushed(lines, at)
    BY <1>0, ScanFacts
  <2> QED
    BY <1>0, <2>1, <2>2, <2>3, ScanFacts, PushedOver
<1>4. FollowsAt(lines, at + 1)
  <2> DEFINE last == lines[Len(lines)]
  <2> SUFFICES ASSUME lines # << >>, Open(last, at + 1) PROVE FALSE
    BY DEF FollowsAt, Paired
  <2>1. last.begin \in Int
    <3>1. lines \in Seq(Line) /\ \A l \in Line : l.begin \in Int
      BY ScanFacts DEF Pushed, Line
    <3> QED
      BY <3>1
  <2> HIDE DEF last
  <2>2. at \in Int /\ at + 1 \in Int /\ at <= at + 1
    BY <1>0, ScanFacts
  <2>3. Open(last, at)
    BY <2>1, <2>2, OpenEarlier
  <2>4. ~(Open(last, lineStart) /\ lineStart <= Len(text) /\ text[lineStart] = Space)
    BY ScanFacts DEF FollowsAt, last
  <2> QED
    BY <1>0, <2>3, <2>4
<1>5. ScanAt(lines', at', lineStart', lastBreak')
  BY <1>0, <1>2, <1>3, <1>4, ScanFacts DEF ScanAt
<1> QED
  BY <1>0, <1>5, ScanStays

LEMMA TakeGlyphScans ==
  ASSUME Scan, Widths \subseteq Nat, Lines!TakeGlyph
  PROVE  Scan'
<1>0. /\ at \in 1 .. Len(text) /\ text[at] # Newline
      /\ maxWidth > 0 /\ at > lineStart => ~(Extent(lineStart, at + 1) > maxWidth)
      /\ lastBreak' = (IF at \in breaks THEN at ELSE lastBreak)
      /\ lineStart' = lineStart /\ at' = at + 1 /\ lines' = lines
      /\ done' = done /\ SameInput
  BY SameNames, ScanFacts
     DEF Lines!TakeGlyph, Lines!Overflows, Lines!Scanning, Lines!input, SameInput
<1>a. at + 1 \in 1 .. Len(text) + 1 /\ lineStart \in 1 .. Len(text) + 1 /\ Len(text) \in Nat
  BY <1>0, ScanFacts
<1>1. at \in breaks => lineStart - 1 <= at
  <2> SUFFICES ASSUME at \in breaks, ~(lineStart - 1 <= at) PROVE FALSE
    OBVIOUS
  <2>1. at + 1 \in at .. lineStart - 1
    BY <1>0, <1>a
  <2>2. text[at + 1] = Space
    BY <2>1, ScanFacts DEF ScannedAt
  <2>3. text[at + 1] # Space
    BY ScanFacts, BreaksAre
  <2> QED
    BY <2>2, <2>3
<1>2. maxWidth > 0 /\ lineStart < at + 1 => Narrow(lineStart, at + 1)
  <2> SUFFICES ASSUME maxWidth > 0, lineStart < at + 1 PROVE Narrow(lineStart, at + 1)
    OBVIOUS
  <2>1. CASE lineStart = at
    BY <2>1 DEF Narrow
  <2>2. CASE lineStart # at
    <3>1. at > lineStart
      BY <2>2, <1>0, <1>a
    <3>2. Extent(lineStart, at + 1) \in Int /\ maxWidth \in Int
      <4>1. TextTyped /\ maxWidth \in Int
        BY ScanFacts, WidthIs
      <4> QED
        BY <1>a, <4>1, ExtentGrows
    <3> QED
      BY <1>0, <3>1, <3>2 DEF Narrow
  <2> QED
    BY <2>1, <2>2
<1>3. ScannedAt(at + 1, lineStart, lastBreak')
  <2>s. ScannedAt(at, lineStart, lastBreak) /\ lastBreak \in Int
    BY ScanFacts
  <2>b. \A j \in breaks : j \in Int
    BY ScanFacts DEF Lines!Breakable
  <2>1. \A r \in at + 1 .. lineStart - 1 : text[r] = Space
    <3>1. \A r \in at + 1 .. lineStart - 1 : r \in at .. lineStart - 1
      BY <1>0, <1>a
    <3> QED
      BY <3>1, <2>s DEF ScannedAt
  <2>2. lastBreak' # 0 =>
          lastBreak' \in breaks /\ lastBreak' < at + 1 /\ lineStart - 1 <= lastBreak'
    BY <1>0, <1>1, <2>s DEF ScannedAt
  <2>3. \A j \in breaks : lineStart <= j /\ j < at + 1 => j <= lastBreak'
    <3> SUFFICES ASSUME NEW j \in breaks, lineStart <= j, j < at + 1 PROVE j <= lastBreak'
      OBVIOUS
    <3>1. CASE j = at
      BY <3>1, <1>0
    <3>2. CASE j # at
      <4>1. j < at /\ j <= lastBreak
        BY <3>2, <2>b, <2>s, <1>0 DEF ScannedAt
      <4> QED
        BY <4>1, <1>0, <2>b, <2>s
    <3> QED
      BY <3>1, <3>2
  <2>4. \A p \in lineStart .. at : text[p] # Newline
    <3>1. \A p \in lineStart .. at : p = at \/ p \in lineStart .. at - 1
      BY <1>0, <1>a
    <3> QED
      BY <3>1, <1>0, <2>s DEF ScannedAt
  <2> QED
    <3>1. at \in Int
      BY <1>0
    <3> QED
      BY <1>2, <2>1, <2>2, <2>3, <2>4, <3>1 DEF ScannedAt
<1>4. lastBreak' \in 0 .. Len(text)
  BY <1>0, ScanFacts
<1>5. ScanAt(lines', at', lineStart', lastBreak')
  BY <1>0, <1>a, <1>3, <1>4, ScanFacts DEF ScanAt
<1> QED
  BY <1>0, <1>5, ScanStays

LEMMA BreakAtSpaceScans ==
  ASSUME Scan, Widths \subseteq Nat, Lines!BreakAtSpace
  PROVE  Scan'
<1> DEFINE s == Lines!SkipSpaces(at + 1)
           t == Trimmed(lineStart, at + 1)
<1>0. /\ at \in 1 .. Len(text) /\ text[at] = Space /\ at \in breaks
      /\ maxWidth > 0 /\ at > lineStart
      /\ Extent(lineStart, at + 1) > maxWidth /\ Extent(lineStart, at) <= maxWidth
      /\ Lines!PushLine(lineStart, at + 1)
      /\ lineStart' = s /\ lastBreak' = 0 /\ at' = at + 1 /\ done' = done /\ SameInput
  BY SameNames, ScanFacts
     DEF Lines!BreakAtSpace, Lines!Overflows, Lines!SpaceFits, Lines!Scanning, Lines!input,
         SameInput
<1>a. /\ at + 1 \in 1 .. Len(text) /\ at + 1 \in 1 .. Len(text) + 1 /\ Len(text) \in Nat
      /\ at \in 1 .. Len(text) + 1 /\ lineStart \in 1 .. Len(text) + 1
      /\ TextTyped /\ maxWidth \in Int /\ breaks \subseteq Lines!Breakable(text)
  BY <1>0, ScanFacts, WidthIs, BreaksAre
<1>b. text[at + 1] # Space /\ text[at + 1] # Newline
  BY <1>0, <1>a, BreaksAre
<1>1. s = at + 1
  <2>1. s \in at + 1 .. Len(text) + 1 /\ \A r \in at + 1 .. s - 1 : text[r] = Space
    BY <1>a, SkipIs
  <2> HIDE DEF s
  <2>2. s # at + 1 => at + 1 \in at + 1 .. s - 1
    BY <1>a, <2>1
  <2> QED
    BY <1>b, <2>1, <2>2
<1> HIDE DEF s
<1>2. t \in lineStart .. at
  <2>1. t \in lineStart .. at + 1 /\ (t = lineStart \/ text[t - 1] # Space)
    BY <1>0, <1>a, TrimmedIs
  <2> HIDE DEF t
  <2>2. t # at + 1
    <3> SUFFICES ASSUME t = at + 1 PROVE FALSE
      OBVIOUS
    <3>1. t - 1 = at /\ t # lineStart
      BY <1>0, <1>a
    <3> QED
      BY <1>0, <2>1, <3>1
  <2> QED
    BY <1>0, <1>a, <2>1, <2>2
<1>3. Narrow(lineStart, t)
  <2> HIDE DEF t
  <2>1. t \in 1 .. Len(text) + 1 /\ lineStart <= lineStart /\ lineStart <= t /\ t <= at
    BY <1>a, <1>2
  <2>2. Extent(lineStart, t) <= Extent(lineStart, at)
        /\ Extent(lineStart, t) \in Int /\ Extent(lineStart, at) \in Int
    BY <1>a, <2>1, ExtentGrows
  <2> QED
    BY <1>0, <1>a, <2>2 DEF Narrow
<1>4. Pushed(lines', at + 1)
  <2>1. lineStart <= at + 1 /\ at + 1 <= at + 1
    BY <1>0, <1>a
  <2>2. \A r \in at + 1 .. (at + 1) - 1 : text[r] \in {Space, Newline}
    BY <1>a
  <2> QED
    BY <1>0, <1>a, <1>3, <2>1, <2>2, PushedNext
<1>5. ScannedAt(at + 1, at + 1, 0)
  BY <1>0, ScanFacts DEF ScannedAt, Lines!Breakable
<1>6. FollowsAt(lines', at + 1)
  <2> DEFINE last == lines'[Len(lines')]
  <2>1. last.begin = lineStart
    BY <1>0, LastPushed
  <2> HIDE DEF last
  <2>2. KeepsWords(last, at + 1)
    <3>1. (at + 1) - 1 = at
      BY <1>a
    <3> QED
      BY <1>0, <3>1 DEF KeepsWords
  <2>3. Filled(last, at + 1)
    <3> DEFINE m == Min(EndsFrom(at + 1))
               q == Trimmed(at + 1, m)
    <3>1. m \in at + 1 .. Len(text) + 1
      <4>1. \A b \in breaks : at + 1 <= b => at + 1 <= b + 1
        BY <1>a DEF Lines!Breakable
      <4>2. \A p \in at + 1 .. Len(text) : text[p] = Newline => at + 1 <= p
        BY <1>a
      <4> QED
        BY <1>a, <4>1, <4>2, EndIsBeyond
    <3> HIDE DEF m
    <3>2. q \in at + 1 .. m
      <4>1. m \in 1 .. Len(text) + 1 /\ at + 1 <= m
        BY <1>a, <3>1
      <4> QED
        BY <1>a, <4>1, TrimmedIs
    <3> HIDE DEF q
    <3>3. q \in 1 .. Len(text) + 1 /\ at + 1 <= q /\ lineStart <= lineStart
          /\ lineStart <= at + 1
      BY <1>0, <1>a, <3>1, <3>2
    <3>4. /\ Extent(lineStart, at + 1) <= Extent(lineStart, q)
          /\ Extent(lineStart, at + 1) \in Int /\ Extent(lineStart, q) \in Int
      BY <1>a, <3>3, ExtentGrows
    <3>5. Extent(lineStart, q) > maxWidth
      BY <1>0, <1>a, <3>4
    <3> QED
      BY <2>1, <3>5 DEF Filled, q, m
  <2> QED
    BY <1>b, <2>2, <2>3 DEF FollowsAt, Paired, last
<1>7. ScanAt(lines', at', lineStart', lastBreak')
  BY <1>0, <1>a, <1>1, <1>4, <1>5, <1>6 DEF ScanAt
<1> QED
  BY <1>0, <1>7, ScanStays

\* Every line break but the one at a space that is too much itself.
LEMMA BreakBeforeScans ==
  ASSUME Scan, Widths \subseteq Nat, Lines!BreakBefore
  PROVE  Scan'
<1> DEFINE e == IF lastBreak # 0 THEN lastBreak + 1 ELSE at
           s == Lines!SkipSpaces(e)
           t == Trimmed(lineStart, e)
           r == Lines!Rescanned(s)
<1>0. /\ at \in 1 .. Len(text) /\ text[at] # Newline
      /\ maxWidth > 0 /\ at > lineStart
      /\ Extent(lineStart, at + 1) > maxWidth
      /\ ~(text[at] = Space /\ at \in breaks /\ Extent(lineStart, at) <= maxWidth)
      /\ Lines!PushLine(lineStart, e)
      /\ lineStart' = s /\ lastBreak' = r /\ at' = at /\ done' = done /\ SameInput
  BY SameNames, ScanFacts
     DEF Lines!BreakBefore, Lines!Overflows, Lines!SpaceFits, Lines!Scanning, Lines!input,
         SameInput
<1>a. /\ at + 1 \in 1 .. Len(text) + 1 /\ Len(text) \in Nat
      /\ at \in 1 .. Len(text) + 1 /\ lineStart \in 1 .. Len(text) + 1
      /\ lastBreak \in 0 .. Len(text)
      /\ TextTyped /\ maxWidth \in Int /\ breaks \subseteq Lines!Breakable(text)
  BY <1>0, ScanFacts, WidthIs
<1>s. ScannedAt(at, lineStart, lastBreak)
  BY ScanFacts
<1>b. /\ lastBreak # 0 => lastBreak \in breaks /\ lastBreak < at /\ lineStart - 1 <= lastBreak
      /\ \A j \in breaks : lineStart <= j /\ j < at => j <= lastBreak
      /\ \A p \in lineStart .. at - 1 : text[p] # Newline
      /\ Narrow(lineStart, at)
  BY <1>0, <1>s DEF ScannedAt
<1>c. \A j \in breaks : j \in Int
  BY <1>a DEF Lines!Breakable
<1>1. e \in 1 .. Len(text) + 1 /\ lineStart <= e /\ e <= at
  BY <1>0, <1>a, <1>b
<1>2. t \in lineStart .. e /\ \A p \in t .. e - 1 : text[p] = Space
  BY <1>1, <1>a, TrimmedIs
<1>3. /\ s \in e .. Len(text) + 1 /\ (s = Len(text) + 1 \/ text[s] # Space)
      /\ \A p \in e .. s - 1 : text[p] = Space
  BY <1>1, <1>a, SkipIs
<1>4. s \in 1 .. Len(text) + 1 /\ e <= s /\ lineStart <= s
  BY <1>1, <1>3, <1>a
<1>5. /\ r \in 0 .. Len(text)
      /\ r # 0 => r \in breaks /\ s <= r /\ r < at
      /\ \A j \in breaks : s <= j /\ j < at => j <= r
  BY <1>4, <1>a, RescannedIs
<1>e. IF lastBreak # 0 THEN e = lastBreak + 1 ELSE e = at
  OBVIOUS
<1> HIDE DEF s, t, r, e
<1>6. lastBreak # 0 => s = lastBreak + 1
  <2> SUFFICES ASSUME lastBreak # 0 PROVE s = lastBreak + 1
    OBVIOUS
  <2>1. e = lastBreak + 1 /\ text[e] # Space
    BY <1>a, <1>b, <1>e, BreaksAre
  <2>2. s # e => e \in e .. s - 1
    BY <1>1, <1>4
  <2> QED
    BY <1>3, <2>1, <2>2
<1>7. Narrow(lineStart, t)
  <2>1. lineStart < e => Narrow(lineStart, e)
    <3> SUFFICES ASSUME lineStart < e PROVE Narrow(lineStart, e)
      OBVIOUS
    <3>1. CASE at = lineStart + 1
      <4>1. e = at
        BY <3>1, <1>1, <1>a
      <4> QED
        BY <4>1, <1>b
    <3>2. CASE at # lineStart + 1
      <4>1. Extent(lineStart, at) <= maxWidth
        BY <3>2, <1>b DEF Narrow
      <4>2. lineStart <= lineStart
        BY <1>a
      <4>3. Extent(lineStart, e) <= Extent(lineStart, at)
            /\ Extent(lineStart, e) \in Int /\ Extent(lineStart, at) \in Int
        BY <1>1, <1>a, <4>2, ExtentGrows
      <4> QED
        BY <1>a, <4>1, <4>3 DEF Narrow
    <3> QED
      BY <3>1, <3>2
  <2> QED
    BY <1>0, <1>1, <1>a, <2>1, TrimmedIsNarrow DEF t
<1>8. Pushed(lines', s)
  <2>1. \A p \in e .. s - 1 : text[p] \in {Space, Newline}
    BY <1>3
  <2>2. maxWidth > 0 => Narrow(lineStart, Trimmed(lineStart, e))
    BY <1>7 DEF t
  <2> QED
    BY <1>0, <1>1, <1>4, <2>1, <2>2, PushedNext
<1>9. ScannedAt(at, s, r)
  <2>1. \A p \in at .. s - 1 : text[p] = Space
    <3>1. \A p \in at .. s - 1 : p \in e .. s - 1
      BY <1>1, <1>4, <1>a
    <3> QED
      BY <3>1, <1>3
  <2>2. \A p \in s .. at - 1 : text[p] # Newline
    <3>1. \A p \in s .. at - 1 : p \in lineStart .. at - 1
      BY <1>4, <1>a
    <3> QED
      BY <3>1, <1>b
  <2>3. s < at => Narrow(s, at)
    <3> SUFFICES ASSUME s < at PROVE Narrow(s, at)
      OBVIOUS
    <3>1. CASE at = lineStart + 1
      <4>1. s = lineStart
        BY <3>1, <1>4, <1>a
      <4> QED
        BY <4>1, <1>b
    <3>2. CASE at # lineStart + 1
      <4>1. Extent(lineStart, at) <= maxWidth
        BY <3>2, <1>b DEF Narrow
      <4>2. at <= at /\ s <= at
        BY <1>a, <1>4
      <4>3. Extent(s, at) <= Extent(lineStart, at)
            /\ Extent(s, at) \in Int /\ Extent(lineStart, at) \in Int
        BY <1>4, <1>a, <4>2, ExtentGrows
      <4> QED
        BY <1>a, <4>1, <4>3 DEF Narrow
    <3> QED
      BY <3>1, <3>2
  <2>4. r # 0 => r \in breaks /\ r < at /\ s - 1 <= r
    BY <1>4, <1>5
  <2> QED
    BY <1>5, <2>1, <2>2, <2>3, <2>4 DEF ScannedAt
<1>10. ASSUME SingleSpaces, lineStart < t
       PROVE  Extent(lineStart, Trimmed(s, Min(EndsFrom(s)))) > maxWidth
  <2> DEFINE m == Min(EndsFrom(s))
             q == Trimmed(s, m)
  <2>0. lineStart < e
    <3>1. t \in Int /\ t <= e /\ lineStart < t
      BY <1>1, <1>2, <1>10
    <3> QED
      BY <1>1, <1>a, <3>1
  <2>1. CASE text[at] = Space
    <3>1. at \in breaks
      BY <1>0, <1>10, <2>1 DEF SingleSpaces
    <3>2. ~(Extent(lineStart, at) <= maxWidth)
      BY <1>0, <2>1, <3>1
    <3>3. at = lineStart + 1
      BY <1>b, <3>2 DEF Narrow
    <3>4. lastBreak = 0
      <4> SUFFICES ASSUME lastBreak # 0 PROVE FALSE
        OBVIOUS
      <4>1. lastBreak + 1 = at /\ lastBreak \in breaks
        BY <1>a, <1>b, <1>e, <2>0, <3>3
      <4> QED
        BY <1>a, <2>1, <4>1, BreaksAre
    <3>5. at <= s
      BY <1>4, <1>e, <3>4
    <3>6. m \in s .. Len(text) + 1
      <4>1. \A b \in breaks : s <= b => s <= b + 1
        BY <1>4, <1>c
      <4>2. \A p \in s .. Len(text) : text[p] = Newline => s <= p
        BY <1>4
      <4>3. s <= s
        BY <1>4
      <4> QED
        BY <1>4, <1>a, <4>1, <4>2, <4>3, EndIsBeyond
    <3> HIDE DEF m
    <3>7. q \in s .. m
      BY <1>4, <1>a, <3>6, TrimmedIs
    <3> HIDE DEF q
    <3>8. q \in 1 .. Len(text) + 1 /\ at <= q /\ lineStart <= lineStart /\ lineStart <= at
      BY <1>0, <1>4, <1>a, <3>5, <3>6, <3>7
    <3>9. /\ Extent(lineStart, at) <= Extent(lineStart, q)
          /\ Extent(lineStart, at) \in Int /\ Extent(lineStart, q) \in Int
      BY <1>a, <3>8, ExtentGrows
    <3>10. Extent(lineStart, q) > maxWidth
      BY <1>a, <3>2, <3>9
    <3> QED
      BY <3>10 DEF q, m
  <2>2. CASE text[at] # Space
    <3>1. s <= at
      <4> SUFFICES ASSUME ~(s <= at) PROVE FALSE
        OBVIOUS
      <4>1. at \in e .. s - 1
        BY <1>1, <1>4, <1>a
      <4> QED
        BY <4>1, <1>3, <2>2
    <3>2. \A b \in breaks : s <= b => at + 1 <= b + 1
      <4> SUFFICES ASSUME NEW b \in breaks, s <= b, ~(at + 1 <= b + 1) PROVE FALSE
        OBVIOUS
      <4>1. b \in Int /\ b < at /\ lineStart <= b
        BY <1>c, <1>4, <1>a
      <4>2. b <= lastBreak
        BY <1>b, <4>1
      <4>3. b \in 1 .. Len(text)
        BY <1>a, BreaksAre
      <4>4. s = lastBreak + 1
        BY <1>6, <1>a, <4>2, <4>3
      <4> QED
        BY <1>a, <4>1, <4>2, <4>4
    <3>3. \A p \in s .. Len(text) : text[p] = Newline => at + 1 <= p
      <4> SUFFICES ASSUME NEW p \in s .. Len(text), text[p] = Newline, ~(at + 1 <= p)
                   PROVE  FALSE
        OBVIOUS
      <4>1. p = at \/ p \in lineStart .. at - 1
        BY <1>4, <1>a
      <4> QED
        BY <4>1, <1>0, <1>b
    <3>4. m \in at + 1 .. Len(text) + 1
      <4>1. s <= at + 1
        BY <1>4, <1>a, <3>1
      <4> QED
        BY <1>4, <1>a, <3>2, <3>3, <4>1, EndIsBeyond
    <3> HIDE DEF m
    <3>5. q \in s .. m /\ \A p \in q .. m - 1 : text[p] = Space
      <4>1. m \in 1 .. Len(text) + 1 /\ s <= m
        BY <1>4, <1>a, <3>1, <3>4
      <4> QED
        BY <1>4, <1>a, <4>1, TrimmedIs
    <3> HIDE DEF q
    <3>6. at + 1 <= q
      <4> SUFFICES ASSUME ~(at + 1 <= q) PROVE FALSE
        OBVIOUS
      <4>1. at \in q .. m - 1
        BY <1>4, <1>a, <3>4, <3>5
      <4> QED
        BY <2>2, <3>5, <4>1
    <3>7. q \in 1 .. Len(text) + 1 /\ lineStart <= lineStart /\ lineStart <= at + 1
      BY <1>0, <1>4, <1>a, <3>4, <3>5
    <3>8. /\ Extent(lineStart, at + 1) <= Extent(lineStart, q)
          /\ Extent(lineStart, at + 1) \in Int /\ Extent(lineStart, q) \in Int
      BY <1>a, <3>6, <3>7, ExtentGrows
    <3>9. Extent(lineStart, q) > maxWidth
      BY <1>0, <1>a, <3>8
    <3> QED
      BY <3>9 DEF q, m
  <2> QED
    BY <2>1, <2>2
<1>11. s - 1 \in breaks \/ breaks \cap (lineStart .. s - 2) = {}
  <2>1. CASE lastBreak # 0
    <3>1. s - 1 = lastBreak
      BY <1>6, <1>a, <2>1
    <3> QED
      BY <1>b, <2>1, <3>1
  <2>2. CASE lastBreak = 0
    <3> SUFFICES ASSUME NEW b \in breaks, b \in lineStart .. s - 2 PROVE FALSE
      OBVIOUS
    <3>1. b \in 1 .. Len(text) /\ text[b + 1] # Space
      BY <1>a, BreaksAre
    <3>2. ~(b < at)
      BY <1>b, <2>2, <3>1
    <3>3. b + 1 \in e .. s - 1
      BY <1>4, <1>a, <1>e, <2>2, <3>1, <3>2
    <3> QED
      BY <1>3, <3>1, <3>3
  <2> QED
    BY <2>1, <2>2
<1>12. FollowsAt(lines', s)
  <2> DEFINE last == lines'[Len(lines')]
  <2>1. last.begin = lineStart /\ last.end = t
    BY <1>0, LastPushed DEF t
  <2> HIDE DEF last
  <2>2. KeepsWords(last, s)
    BY <1>11, <2>1 DEF KeepsWords
  <2>3. lineStart < t => Filled(last, s)
    BY <1>10, <2>1 DEF Filled
  <2>4. Paired(last, s)
    BY <2>1, <2>2, <2>3 DEF Paired, Open
  <2>5. s <= Len(text) => text[s] # Space
    BY <1>3, <1>4, <1>a
  <2> QED
    BY <2>4, <2>5 DEF FollowsAt, last
<1>13. ScanAt(lines', at', lineStart', lastBreak')
  BY <1>0, <1>a, <1>4, <1>5, <1>8, <1>9, <1>12 DEF ScanAt
<1> QED
  BY <1>0, <1>13, ScanStays

-----------------------------------------------------------------------------
(* The end of the scan *)

\* The lines at the end, which an ellipsis may have cut.
Final(ls) ==
  /\ ls \in Seq(Line)
  /\ \A k, l \in 1 .. Len(ls) : k < l => ls[k].end <= ls[l].begin
  /\ \A g \in Seen :
       \/ \E k \in 1 .. Len(ls) : g \in PositionsOf(ls[k])
       \/ ls # << >> /\ ls[Len(ls)].ellipsized /\ g >= ls[Len(ls)].end
  /\ maxWidth > 0 => \A k \in 1 .. Len(ls) :
       \/ ~ls[k].ellipsized /\ Narrow(ls[k].begin, ls[k].end)
       \/ ls[k].ellipsized /\ Extent(ls[k].begin, ls[k].end) + EllipsisWidth <= maxWidth
       \/ ls[k].ellipsized /\ ls[k].end = ls[k].begin
  /\ \A k \in 1 .. Len(ls) - 1 : Paired(ls[k], ls[k + 1].begin)

\* Lines that were all pushed are final.
LEMMA PushedAreFinal ==
  ASSUME TextTyped, NEW ls, Pushed(ls, Len(text) + 1)
  PROVE  Final(ls)
<1>1. \A g \in Seen : g < Len(text) + 1
  BY DEF Seen, TextTyped
<1> QED
  BY <1>1 DEF Pushed, Final

\* And so are as many as may be shown, the last of them cut.
LEMMA CutAreFinal ==
  ASSUME TextTyped, NEW ls, Pushed(ls, Len(text) + 1), NEW m \in Nat \ {0}, m < Len(ls),
         maxLines = m, EllipsisWidth \in Nat, maxWidth \in Nat
  PROVE  Final(Append(SubSeq(ls, 1, m - 1), Lines!Cut(ls[m])))
<1> DEFINE line == Lines!Cut(ls[m])
           kept == SubSeq(ls, 1, m - 1)
           cut == Append(kept, line)
           b == ls[m].begin
           e == ls[m].end
           fits == {x \in b .. e : Extent(b, x) + EllipsisWidth <= maxWidth}
<1>0. ls \in Seq(Line) /\ Len(ls) \in Nat /\ Len(text) \in Nat /\ m \in 1 .. Len(ls)
      /\ m - 1 \in 0 .. Len(ls)
  BY DEF Pushed, TextTyped
<1>1. /\ ls[m] \in Line /\ b \in 1 .. Len(text) + 1 /\ e \in 1 .. Len(text) + 1 /\ b <= e
  <2>1. ls[m] \in Line
    BY <1>0
  <2> QED
    BY <1>0, <2>1 DEF Pushed, Line
<1>2. /\ line.begin = b /\ line.ellipsized
      /\ line.end = IF maxWidth = 0 THEN e ELSE Trimmed(b, Max({b} \cup fits))
      /\ line.end \in 1 .. Len(text) + 1 => line \in Line
  <2> DEFINE h == IF maxWidth = 0 THEN e ELSE Trimmed(b, Max({b} \cup fits))
  <2>1. /\ Lines!Max({b} \cup fits) = Max({b} \cup fits)
        /\ {x \in b .. e : Lines!Extent(b, x) + EllipsisWidth <= maxWidth} = fits
        /\ Lines!Trimmed(b, Max({b} \cup fits)) = Trimmed(b, Max({b} \cup fits))
    BY SameNames DEF Lines!Max, Max
  <2>2. Lines!Cut(ls[m]) = [ls[m] EXCEPT !.ellipsized = TRUE, !.end = h]
    BY <2>1, Zenon DEF Lines!Cut
  <2> HIDE DEF h, b, e
  <2>3. ASSUME NEW r \in Line, NEW c, c = [r EXCEPT !.ellipsized = TRUE, !.end = h]
        PROVE  /\ c.begin = r.begin /\ c.ellipsized /\ c.end = h
               /\ h \in 1 .. Len(text) + 1 => c \in Line
    BY <2>3 DEF Line
  <2> HIDE DEF line
  <2>4. line = [ls[m] EXCEPT !.ellipsized = TRUE, !.end = h]
    BY <2>2 DEF line
  <2>5. line.begin = b /\ line.ellipsized /\ line.end = h
        /\ (h \in 1 .. Len(text) + 1 => line \in Line)
    BY <1>1, <2>3, <2>4 DEF b
  <2> QED
    BY <2>5 DEF h
<1> HIDE DEF line
<1>3. /\ line.end \in b .. e
      /\ maxWidth > 0 => \/ Extent(b, line.end) + EllipsisWidth <= maxWidth
                         \/ line.end = b
  <2>1. CASE maxWidth = 0
    BY <1>1, <1>2, <2>1
  <2>2. CASE maxWidth # 0
    <3> DEFINE x == Max({b} \cup fits)
               t == Trimmed(b, x)
    <3>1. x \in {b} \cup fits
      <4> DEFINE S == {b} \cup fits
      <4>1. S \in SUBSET (0 .. Len(text) + 1) /\ S # {}
        <5>1. \A y \in S : y \in 0 .. Len(text) + 1
          BY <1>0, <1>1
        <5>2. b \in S
          OBVIOUS
        <5> HIDE DEF S
        <5> QED
          BY <5>1, <5>2
      <4> HIDE DEF S
      <4>2. Len(text) + 1 \in Nat
        BY <1>0
      <4>3. PICK y \in S : \A z \in S : y >= z
        BY <4>1, <4>2, GreatestOf
      <4>4. Max(S) \in S
        BY <4>3, Zenon DEF Max
      <4> QED
        BY <4>4 DEF S
    <3>2. x \in 1 .. Len(text) + 1 /\ b <= x /\ x <= e
      <4> HIDE DEF x
      <4> QED
        BY <1>0, <1>1, <3>1
    <3>3. x = b \/ Extent(b, x) + EllipsisWidth <= maxWidth
      <4> HIDE DEF x
      <4> QED
        BY <3>1
    <3> HIDE DEF x, fits
    <3>4. t \in b .. x
      BY <1>1, <3>2, TrimmedIs
    <3>5. line.end = t
      BY <1>2, <2>2 DEF x
    <3> HIDE DEF t, b, e
    <3>6. t \in 1 .. Len(text) + 1 /\ b <= b /\ b <= t /\ t <= x
      BY <1>0, <1>1, <3>2, <3>4
    <3>7. Extent(b, t) <= Extent(b, x) /\ Extent(b, t) \in Int /\ Extent(b, x) \in Int
      BY <1>1, <3>2, <3>6, ExtentGrows
    <3> QED
      BY <1>0, <1>1, <3>2, <3>3, <3>4, <3>5, <3>6, <3>7
  <2> QED
    BY <2>1, <2>2
<1> HIDE DEF b, e, fits
<1>4. line \in Line
  <2>1. line.end \in 1 .. Len(text) + 1
    BY <1>0, <1>1, <1>3
  <2> QED
    BY <1>2, <2>1
<1>5. /\ kept \in Seq(Line) /\ Len(kept) = m - 1
      /\ \A k \in 1 .. m - 1 : kept[k] = ls[k]
  BY <1>0
<1>6. /\ cut \in Seq(Line) /\ Len(cut) = m /\ cut[m] = line
      /\ \A k \in 1 .. m - 1 : cut[k] = ls[k] /\ k \in 1 .. Len(ls)
  <2> HIDE DEF kept
  <2>1. cut \in Seq(Line) /\ Len(cut) = (m - 1) + 1 /\ cut[(m - 1) + 1] = line
        /\ \A k \in 1 .. m - 1 : cut[k] = kept[k]
    BY <1>4, <1>5
  <2>2. (m - 1) + 1 = m /\ \A k \in 1 .. m - 1 : k \in 1 .. Len(ls)
    BY <1>0
  <2> QED
    BY <1>5, <2>1, <2>2
<1> HIDE DEF cut, kept
<1>7. ASSUME NEW k \in 1 .. m, NEW l \in 1 .. m, k < l
      PROVE  cut[k].end <= cut[l].begin
  <2>1. k \in 1 .. m - 1 /\ k \in 1 .. Len(ls) /\ l \in 1 .. Len(ls)
    BY <1>0, <1>7
  <2>2. ls[k].end <= ls[l].begin
    BY <2>1, <1>7 DEF Pushed
  <2>3. cut[l].begin = ls[l].begin
    <3>1. CASE l = m
      BY <3>1, <1>2, <1>6 DEF b
    <3>2. CASE l # m
      <4>1. l \in 1 .. m - 1
        BY <1>0, <3>2
      <4> QED
        BY <1>6, <4>1
    <3> QED
      BY <3>1, <3>2
  <2> QED
    BY <1>6, <2>1, <2>2, <2>3
<1>8. ASSUME NEW g \in Seen
      PROVE  (\E k \in 1 .. m : g \in PositionsOf(cut[k])) \/ g >= line.end
  <2>g. g \in 1 .. Len(text)
    BY DEF Seen
  <2>1. PICK k \in 1 .. Len(ls) : g \in PositionsOf(ls[k])
    BY <2>g, <1>0 DEF Pushed
  <2>k. ls[k].begin \in Int /\ ls[k].end \in Int /\ line.end \in Int /\ b \in Int /\ e \in Int
    <3>1. ls[k] \in Line
      BY <1>0
    <3>2. \A x \in Line : x.begin \in Int /\ x.end \in Int
      BY <1>0 DEF Line
    <3> QED
      BY <3>1, <3>2, <1>0, <1>1, <1>4
  <2>p. ls[k].begin <= g /\ g <= ls[k].end - 1
    BY <2>1, <2>g DEF PositionsOf
  <2>2. CASE k < m
    <3>1. k \in 1 .. m - 1 /\ k \in 1 .. m
      BY <1>0, <2>2
    <3> QED
      BY <1>6, <2>1, <3>1
  <2>3. CASE k = m
    <3>1. g < line.end => g \in PositionsOf(line)
      BY <1>2, <2>3, <2>g, <2>k, <2>p DEF PositionsOf, b
    <3> QED
      BY <1>0, <1>6, <2>g, <2>k, <3>1
  <2>4. CASE k > m
    <3>1. e <= ls[k].begin
      BY <1>0, <2>4 DEF Pushed, e
    <3>2. line.end <= e
      BY <1>3
    <3> QED
      BY <2>g, <2>k, <2>p, <3>1, <3>2
  <2> QED
    BY <1>0, <2>2, <2>3, <2>4
<1>9. ASSUME NEW k \in 1 .. m, maxWidth > 0
      PROVE  \/ ~cut[k].ellipsized /\ Narrow(cut[k].begin, cut[k].end)
             \/ cut[k].ellipsized /\ Extent(cut[k].begin, cut[k].end) + EllipsisWidth <= maxWidth
             \/ cut[k].ellipsized /\ cut[k].end = cut[k].begin
  <2>1. CASE k = m
    BY <1>2, <1>3, <1>6, <1>9, <2>1
  <2>2. CASE k # m
    <3>1. k \in 1 .. m - 1
      BY <1>0, <2>2
    <3> QED
      BY <1>6, <1>9, <3>1 DEF Pushed
  <2> QED
    BY <2>1, <2>2
<1>10. ASSUME NEW k \in 1 .. m - 1 PROVE Paired(cut[k], cut[k + 1].begin)
  <2>1. k \in 1 .. Len(ls) - 1 /\ k + 1 \in 1 .. m
    BY <1>0
  <2>2. cut[k] = ls[k]
    BY <1>6
  <2>3. cut[k + 1].begin = ls[k + 1].begin
    <3>1. CASE k + 1 = m
      BY <3>1, <1>2, <1>6 DEF b
    <3>2. CASE k + 1 # m
      <4>1. k + 1 \in 1 .. m - 1
        BY <1>0, <2>1, <3>2
      <4> QED
        BY <1>6, <4>1
    <3> QED
      BY <3>1, <3>2
  <2> QED
    BY <2>1, <2>2, <2>3 DEF Pushed
<1>11. cut # << >> /\ cut[Len(cut)] = line /\ m \in Nat
  BY <1>0, <1>6
<1>12. Final(cut)
  <2>1. \A g \in Seen :
          \/ \E k \in 1 .. Len(cut) : g \in PositionsOf(cut[k])
          \/ cut # << >> /\ cut[Len(cut)].ellipsized /\ g >= cut[Len(cut)].end
    BY <1>2, <1>6, <1>8, <1>11
  <2> QED
    BY <1>6, <1>7, <1>9, <1>10, <2>1 DEF Final
<1> QED
  BY <1>12 DEF cut, kept, line

\* The scan ends with all glyphs on the lines that were pushed.
LEMMA AllPushed ==
  ASSUME Scan, Widths \subseteq Nat, Lines!Finish
  PROVE  \E all : Pushed(all, Len(text) + 1) /\ lines' = Lines!ApplyMaxLines(all)
<1> DEFINE n == Len(text)
           rest(b) == [begin |-> b, end |-> Trimmed(b, n + 1), ellipsized |-> FALSE]
           all == IF lineStart <= n THEN Append(lines, rest(lineStart))
                  ELSE IF n > 0 /\ text[n] = Newline THEN Append(lines, rest(n + 1))
                  ELSE lines
<1>0. /\ at = n + 1 /\ n \in Nat /\ lineStart \in 1 .. n + 1 /\ n + 1 \in 1 .. n + 1
      /\ TextTyped /\ maxWidth \in Int /\ Pushed(lines, lineStart)
      /\ ScannedAt(at, lineStart, lastBreak)
  BY ScanFacts, WidthIs DEF Lines!Finish
<1>1. lines' = Lines!ApplyMaxLines(all)
  <2>1. \A b, e : Lines!Trimmed(b, e) = Trimmed(b, e)
    BY SameNames
  <2>2. Lines!Newline = Newline
    BY SameNames
  <2> QED
    BY <2>1, <2>2, Zenon DEF Lines!Finish
<1>2. ASSUME lineStart <= n \/ lineStart = n + 1
      PROVE  Pushed(Append(lines, rest(lineStart)), n + 1)
  <2> DEFINE t == Trimmed(lineStart, n + 1)
  <2>1. lineStart <= n + 1
    BY <1>0
  <2>2. t \in lineStart .. n + 1 /\ \A r \in t .. (n + 1) - 1 : text[r] = Space
    BY <1>0, <2>1, TrimmedIs
  <2>3. maxWidth > 0 => Narrow(lineStart, t)
    <3>1. maxWidth > 0 /\ lineStart < n + 1 => Narrow(lineStart, n + 1)
      BY <1>0 DEF ScannedAt
    <3> QED
      BY <1>0, <2>1, <3>1, TrimmedIsNarrow
  <2>4. lines # << >> => Paired(lines[Len(lines)], lineStart)
    BY DEF Scan, Follows
  <2> HIDE DEF t
  <2>5. t \in 1 .. n + 1 /\ lineStart <= t /\ t <= n + 1
        /\ \A r \in t .. (n + 1) - 1 : text[r] \in {Space, Newline}
    BY <1>0, <2>2
  <2>6. rest(lineStart) = [begin |-> lineStart, end |-> t, ellipsized |-> FALSE]
    BY DEF t
  <2> HIDE DEF rest
  <2> QED
    BY <1>0, <2>3, <2>4, <2>5, <2>6, PushedMore
<1>3. Pushed(all, n + 1)
  <2>1. CASE lineStart <= n
    BY <1>2, <2>1
  <2>2. CASE ~(lineStart <= n)
    <3>1. lineStart = n + 1
      BY <1>0, <2>2
    <3> QED
      BY <1>0, <1>2, <2>2, <3>1
  <2> QED
    BY <2>1, <2>2
<1> HIDE DEF all
<1> QED
  BY <1>1, <1>3

LEMMA FinishIsFinal ==
  ASSUME Scan, Widths \subseteq Nat, Limits \subseteq Nat, EllipsisWidth \in Nat, Lines!Finish
  PROVE  Final(lines') /\ SameInput /\ done' = TRUE
         /\ at' = at /\ lineStart' = lineStart /\ lastBreak' = lastBreak
<1>1. PICK all : Pushed(all, Len(text) + 1) /\ lines' = Lines!ApplyMaxLines(all)
  BY AllPushed
<1>2. TextTyped /\ maxWidth \in Nat /\ maxLines \in Nat /\ Len(all) \in Nat
  BY <1>1 DEF Scan, InputTyped, Pushed
<1>3. CASE maxLines = 0 \/ Len(all) <= maxLines
  <2>1. lines' = all
    BY <1>1, <1>3 DEF Lines!ApplyMaxLines
  <2> QED
    BY <1>1, <1>2, <2>1, PushedAreFinal DEF Lines!Finish, Lines!input, SameInput
<1>4. CASE ~(maxLines = 0 \/ Len(all) <= maxLines)
  <2>1. lines' = Append(SubSeq(all, 1, maxLines - 1), Lines!Cut(all[maxLines]))
    BY <1>1, <1>4 DEF Lines!ApplyMaxLines
  <2>2. maxLines \in Nat \ {0} /\ maxLines < Len(all)
    BY <1>2, <1>4
  <2> DEFINE m == maxLines
  <2>3. Final(Append(SubSeq(all, 1, m - 1), Lines!Cut(all[m])))
    <3>1. m \in Nat \ {0} /\ m < Len(all) /\ maxLines = m
      BY <2>2
    <3> HIDE DEF m
    <3> QED
      BY <1>1, <1>2, <3>1, CutAreFinal
  <2> QED
    BY <2>1, <2>3 DEF Lines!Finish, Lines!input, SameInput
<1> QED
  BY <1>3, <1>4

LEMMA FinalStays ==
  ASSUME SameInput, NEW ls, lines' = ls, Final(ls)
  PROVE  Final(lines)'
<1>1. prefix' = prefix /\ (SingleSpaces' <=> SingleSpaces) /\ Line' = Line /\ Seen' = Seen
  BY SameExtents
<1>2. /\ text' = text /\ breaks' = breaks /\ maxWidth' = maxWidth
  BY DEF SameInput
<1>3. lines' = ls
  OBVIOUS
<1>4. /\ ls \in Seq(Line)
      /\ \A k, l \in 1 .. Len(ls) : k < l => ls[k].end <= ls[l].begin
      /\ \A g \in Seen :
           \/ \E k \in 1 .. Len(ls) : g \in PositionsOf(ls[k])
           \/ ls # << >> /\ ls[Len(ls)].ellipsized /\ g >= ls[Len(ls)].end
  BY DEF Final
<1>5. ASSUME NEW k \in 1 .. Len(ls) - 1
      PROVE  Paired(lines[k], lines[k + 1].begin)'
  <2>1. Paired(ls[k], ls[k + 1].begin)
    BY DEF Final
  <2> QED
    BY <1>1, <1>2, <1>3, <2>1 DEF Paired, Open, KeepsWords, Filled, Extent, Trimmed, EndsFrom, Min
<1>6. ASSUME NEW k \in 1 .. Len(ls), maxWidth > 0
      PROVE  (\/ ~lines[k].ellipsized /\ Narrow(lines[k].begin, lines[k].end)
              \/ /\ lines[k].ellipsized
                 /\ Extent(lines[k].begin, lines[k].end) + EllipsisWidth <= maxWidth
              \/ lines[k].ellipsized /\ lines[k].end = lines[k].begin)'
  <2>1. \/ ~ls[k].ellipsized /\ Narrow(ls[k].begin, ls[k].end)
        \/ ls[k].ellipsized /\ Extent(ls[k].begin, ls[k].end) + EllipsisWidth <= maxWidth
        \/ ls[k].ellipsized /\ ls[k].end = ls[k].begin
    BY <1>6 DEF Final
  <2> QED
    BY <1>1, <1>2, <1>3, <2>1 DEF Narrow, Extent
<1>7. ASSUME NEW g \in Seen
      PROVE  \/ \E k \in 1 .. Len(ls) : g \in PositionsOf(lines[k])'
             \/ ls # << >> /\ ls[Len(ls)].ellipsized /\ g >= ls[Len(ls)].end
  BY <1>3, <1>4, <1>7 DEF PositionsOf
<1> QED
  BY <1>1, <1>2, <1>3, <1>4, <1>5, <1>6, <1>7 DEF Final

TextInv ==
  \/ Scan
  \/ done = TRUE /\ InputTyped /\ TextTyped /\ ScanTyped /\ Final(lines)

LEMMA TextInitially ==
  ASSUME Lines!TextAssumption, Lines!Init
  PROVE  TextInv
<1>1. /\ text \in Lines!BoundedSeq(Lines!Glyph, MaxGlyphs)
      /\ breaks \in SUBSET Lines!Breakable(text)
      /\ maxWidth \in Widths /\ maxLines \in Limits
      /\ at = 1 /\ lineStart = 1 /\ lastBreak = 0 /\ lines = << >> /\ done = FALSE
  BY DEF Lines!Init, Lines!None
<1>2. PICK n \in 0 .. MaxGlyphs : text \in [1 .. n -> DOMAIN Advance]
  BY <1>1 DEF Lines!BoundedSeq, Lines!SeqOf, Lines!Glyph
<1>3. text \in Seq(DOMAIN Advance) /\ Len(text) = n /\ n \in Nat /\ n <= MaxGlyphs
  BY <1>2 DEF Lines!TextAssumption
<1>4. InputTyped /\ TextTyped /\ ScanTyped
  BY <1>1, <1>3 DEF InputTyped, TextTyped, ScanTyped, Lines!Glyph, Lines!TextAssumption
<1>5. Pushed(lines, lineStart)
  <2>1. lines \in Seq(Line) /\ Len(lines) = 0
    BY <1>1
  <2>2. \A g \in Seen : ~(g < 1)
    BY <1>3 DEF Seen
  <2> QED
    BY <1>1, <2>1, <2>2 DEF Pushed
<1>6. Scanned /\ Follows
  BY <1>1, <1>4 DEF Scanned, Follows, Lines!Breakable, InputTyped
<1> QED
  BY <1>1, <1>4, <1>5, <1>6 DEF TextInv, Scan

LEMMA TextSteps ==
  ASSUME Lines!TextAssumption, TextInv, [Lines!Next]_(Lines!vars)
  PROVE  TextInv'
<1>0. Widths \subseteq Nat /\ Limits \subseteq Nat /\ EllipsisWidth \in Nat
  BY DEF Lines!TextAssumption
<1>1. CASE Scan /\ Lines!Next
  <2>1. CASE Lines!HardBreak
    BY <1>0, <1>1, <2>1, HardBreakScans DEF TextInv
  <2>2. CASE Lines!LeadingSpace
    BY <1>1, <2>2, LeadingSpaceScans DEF TextInv
  <2>3. CASE Lines!BreakAtSpace
    BY <1>0, <1>1, <2>3, BreakAtSpaceScans DEF TextInv
  <2>4. CASE Lines!BreakBefore
    BY <1>0, <1>1, <2>4, BreakBeforeScans DEF TextInv
  <2>5. CASE Lines!TakeGlyph
    BY <1>0, <1>1, <2>5, TakeGlyphScans DEF TextInv
  <2>6. CASE Lines!Finish
    <3>1. /\ Final(lines') /\ SameInput /\ done' = TRUE
          /\ at' = at /\ lineStart' = lineStart /\ lastBreak' = lastBreak
      BY <1>0, <1>1, <2>6, FinishIsFinal
    <3>2. Final(lines)'
      BY <3>1, FinalStays
    <3>3. InputTyped' /\ TextTyped' /\ ScanTyped'
      BY <1>1, <3>1 DEF Scan, SameInput, InputTyped, TextTyped, ScanTyped, Lines!Breakable,
                        Lines!Space, Lines!Newline
    <3> QED
      BY <3>1, <3>2, <3>3 DEF TextInv
  <2> QED
    BY <1>1, <2>1, <2>2, <2>3, <2>4, <2>5, <2>6 DEF Lines!Next
<1>2. CASE ~Scan /\ Lines!Next
  BY <1>2 DEF TextInv, Lines!Next, Lines!HardBreak, Lines!LeadingSpace, Lines!BreakAtSpace,
              Lines!BreakBefore, Lines!TakeGlyph, Lines!Overflows, Lines!Scanning, Lines!Finish
<1>3. CASE UNCHANGED Lines!vars
  <2>1. /\ SameInput /\ at' = at /\ lineStart' = lineStart /\ lastBreak' = lastBreak
        /\ lines' = lines /\ done' = done
    BY <1>3 DEF Lines!vars, Lines!input, SameInput
  <2>2. CASE Scan
    <3>1. ScanAt(lines', at', lineStart', lastBreak')
      BY <2>1, <2>2, ScanAtNow
    <3> QED
      BY <2>1, <2>2, <3>1, ScanStays DEF TextInv
  <2>3. CASE ~Scan
    <3>1. Final(lines)'
      BY <2>1, <2>3, FinalStays DEF TextInv
    <3>2. InputTyped' /\ TextTyped' /\ ScanTyped'
      BY <2>1, <2>3 DEF TextInv, SameInput, InputTyped, TextTyped, ScanTyped, Lines!Breakable,
                        Lines!Space, Lines!Newline
    <3> QED
      BY <2>1, <2>3, <3>1, <3>2 DEF TextInv
  <2> QED
    BY <2>2, <2>3
<1> QED
  BY <1>1, <1>2, <1>3

\* The variables of the layout keep their types, for any text and widths of glyphs, any
\* width of a line and any number of lines.
THEOREM TextTypesHold ==
  ASSUME Lines!TextAssumption
  PROVE  Lines!Spec => []Lines!TypeOK
<1>1. ASSUME TextInv PROVE Lines!TypeOK
  <2>1. lines \in Seq(Line) /\ done \in BOOLEAN /\ InputTyped /\ TextTyped /\ ScanTyped
    BY <1>1 DEF TextInv, Scan, Pushed, Final
  <2>2. breaks \subseteq 1 .. Len(text) /\ Len(text) \in Nat
    BY <2>1 DEF InputTyped, TextTyped, Lines!Breakable
  <2> QED
    BY <2>1, <2>2 DEF InputTyped, ScanTyped, Line, Lines!TypeOK
<1> QED
  BY <1>1, TextInitially, TextSteps, PTL DEF Lines!Spec

LEMMA FinalLinesAreRight ==
  ASSUME TextInv, Lines!TextAssumption
  PROVE  NothingIsLost /\ LinesFit /\ WordsStayWhole /\ LinesAreFilled
<1> SUFFICES ASSUME done PROVE NothingIsLost /\ LinesFit /\ WordsStayWhole /\ LinesAreFilled
  BY DEF NothingIsLost, LinesFit, WordsStayWhole, LinesAreFilled
<1>1. Final(lines) /\ TextTyped /\ maxWidth \in Nat
  BY DEF TextInv, Scan, InputTyped, Lines!TextAssumption
<1>2. lines \in Seq(Line) /\ DOMAIN lines = 1 .. Len(lines) /\ Len(lines) \in Nat
  BY <1>1 DEF Final
<1>3. NothingIsLost
  BY <1>1, <1>2 DEF Final, NothingIsLost, Cutoff, Last
<1>4. LinesFit
  <2> SUFFICES ASSUME maxWidth > 0, NEW k \in 1 .. Len(lines)
               PROVE  \/ Extent(lines[k].begin, lines[k].end)
                           + (IF lines[k].ellipsized THEN EllipsisWidth ELSE 0) <= maxWidth
                      \/ lines[k].ellipsized /\ lines[k].end = lines[k].begin
                      \/ ~lines[k].ellipsized /\ lines[k].end = lines[k].begin + 1
    BY <1>2 DEF LinesFit
  <2>1. lines[k] \in Line
    BY <1>2
  <2>2. Extent(lines[k].begin, lines[k].end) \in Int
    BY <1>1, <2>1, ExtentGrows DEF Line
  <2> QED
    BY <1>1, <2>2 DEF Final, Narrow
<1>5. ASSUME NEW k \in DOMAIN lines, Wrapped(k)
      PROVE  KeepsWords(lines[k], lines[k + 1].begin) /\ Filled(lines[k], lines[k + 1].begin)
  <2>1. k \in 1 .. Len(lines) - 1
    BY <1>2, <1>5 DEF Wrapped
  <2>2. Open(lines[k], lines[k + 1].begin)
    BY <1>5 DEF Wrapped, Open
  <2> QED
    BY <1>1, <2>1, <2>2 DEF Final, Paired
<1>6. WordsStayWhole
  BY <1>5 DEF WordsStayWhole, KeepsWords
<1>7. LinesAreFilled
  BY <1>5 DEF LinesAreFilled, Filled, EndsFrom
<1> QED
  BY <1>3, <1>4, <1>6, <1>7

\* A text shows all its glyphs in order, in lines that fit, which end in a word only if it
\* is too long and take every word that fits where words are apart by one space
\* (text_layout.cpp, layout and applyMaxLines).
THEOREM LinesAreRight ==
  ASSUME Lines!TextAssumption
  PROVE  Lines!Spec => [](NothingIsLost /\ LinesFit /\ WordsStayWhole /\ LinesAreFilled)
BY TextInitially, TextSteps, FinalLinesAreRight, PTL DEF Lines!Spec

\* And the bitmaps of its glyphs lie where they are drawn from and keep their padding
\* from all others (text_layout.cpp; font_engine.cpp, rasterizeGlyph).
THEOREM TextStaysWhole ==
  ASSUME Lines!TextAssumption, Atlas!AtlasAssumption
  PROVE  Lines!Spec /\ Atlas!Spec => []TextIsWhole
<1>1. Lines!Spec => [](NothingIsLost /\ LinesFit /\ WordsStayWhole /\ LinesAreFilled)
  BY LinesAreRight
<1>2. Atlas!Spec => []GlyphsKeepTheirCells
  BY CellsAreKept
<1>3. ASSUME NothingIsLost /\ LinesFit /\ WordsStayWhole /\ LinesAreFilled,
             GlyphsKeepTheirCells
      PROVE  TextIsWhole
  BY <1>3 DEF TextIsWhole
<1> QED
  BY <1>1, <1>2, <1>3, PTL
=============================================================================
