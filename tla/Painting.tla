------------------------------ MODULE Painting ------------------------------
(***************************************************************************)
(* A frame on its way from the views to draw calls: View::paint            *)
(* (core/src/ui/render_view.cpp) fills a Canvas                            *)
(* (core/src/ui/paint_canvas.cpp) with vertices in batches, and            *)
(* recordCommandBuffer and recordBatchRange (core/src/vulkan_renderer.cpp) *)
(* turn the batches into commands.                                         *)
(*                                                                         *)
(* A drawing call appends one vertex, which remembers what it was meant to *)
(* be: its clip, its texture and the mask it is shaded with.  Rectangles   *)
(* are [x, y, w, h] in half pixels, since positions are not always whole.  *)
(***************************************************************************)
EXTENDS Integers, Sequences, FiniteSets, SequencesExt

CONSTANTS
  Width, Height,   \* of the screen as it is seen, in pixels
  Bounds,          \* the rectangles a view may have
  Styles,          \* what a view may have on: [shadow, blur, round, background : BOOLEAN]
  Textures,        \* 0 is the white one
  MaxViews,        \* bound on the views below the root
  MaxDraws         \* bound on the drawing calls of painters

VARIABLES
  open,       \* the views under way, outermost first: [bounds, clip, round]
  vertices,   \* vertices_: [clip, texture, mask]
  batches, effectParams, roundClipStack,
  blurs,      \* the blurs that were asked for: [at, region, clip], at is the next vertex
  views, draws,
  commands,   \* what was recorded
  turned      \* the transform it was recorded for; "none" while the frame is painted

canvas == [vertices |-> vertices, batches |-> batches, effectParams |-> effectParams,
           roundClipStack |-> roundClipStack, blurs |-> blurs]
canvasVars == <<vertices, batches, effectParams, roundClipStack, blurs>>
vars == <<open, canvasVars, views, draws, commands, turned>>

Screen == [x |-> 0, y |-> 0, w |-> 2 * Width, h |-> 2 * Height]
NoMask == [mode |-> "none"]
Transforms == {"identity", "90", "180", "270"}

Rect == [x : Int, y : Int, w : Int, h : Int]
Mask == {NoMask} \cup [mode : {"shadow", "clip", "blur"}, rect : Rect]

TypeOK ==
  /\ open \in Seq([bounds : Rect, clip : Rect, round : BOOLEAN])
  /\ vertices \in Seq([clip : Rect, texture : Textures, mask : Mask])
  /\ batches \in Seq([clip : Rect, texture : Textures, first : Nat, count : Nat,
                      effect : {"none", "sdf", "blur"}, params : Nat])
  /\ effectParams \in Seq(Mask) /\ roundClipStack \in Seq(DOMAIN effectParams)
  /\ blurs \in Seq([at : Nat, region : Rect, clip : Rect])
  /\ views \in 0 .. MaxViews /\ draws \in 0 .. MaxDraws
  /\ turned \in {"none"} \cup Transforms

Least(a, b) == IF a < b THEN a ELSE b
Greatest(a, b) == IF a > b THEN a ELSE b

\* Rect::intersect.
Intersect(a, b) ==
  LET left == Greatest(a.x, b.x)
      top == Greatest(a.y, b.y)
  IN [x |-> left, y |-> top,
      w |-> Greatest(0, Least(a.x + a.w, b.x + b.w) - left),
      h |-> Greatest(0, Least(a.y + a.h, b.y + b.h) - top)]

Init ==
  /\ open = <<[bounds |-> Screen, clip |-> Screen, round |-> FALSE]>>
  /\ vertices = << >> /\ batches = << >> /\ effectParams = << >> /\ roundClipStack = << >>
  /\ blurs = << >>
  /\ views = 0 /\ draws = 0
  /\ commands = << >> /\ turned = "none"

-----------------------------------------------------------------------------
(* The canvas *)

Batch(c, clip, texture, effect, params) ==
  [clip |-> clip, texture |-> texture, first |-> Len(c.vertices) + 1, count |-> 0,
   effect |-> effect, params |-> params]

\* Slip: two masks are drawn as one batch.
JoinsAnyMask(b, new) ==
  b.clip = new.clip /\ b.texture = new.texture /\ b.effect = new.effect

\* Whether a drawing call goes on with the batch before it.
Joins(b, new) ==
  /\ b.clip = new.clip /\ b.texture = new.texture /\ b.effect = new.effect
  /\ new.effect # "none" => b.params = new.params

AppendEffect(c, clip, texture, effect, params, meant) ==
  LET new == Batch(c, clip, texture, effect, params)
      all == IF c.batches # << >> /\ Joins(Last(c.batches), new)
               THEN c.batches ELSE Append(c.batches, new)
  IN [c EXCEPT
        !.vertices = Append(@, [clip |-> clip, texture |-> texture, mask |-> meant]),
        !.batches = [all EXCEPT ![Len(all)].count = @ + 1]]

WithParams(c, mask) == [c EXCEPT !.effectParams = Append(@, mask)]

\* A plain drawing call: under a rounded clip it is drawn with the mask of the last one.
AppendPlain(c, clip, texture, meant) ==
  IF c.roundClipStack = << >>
    THEN AppendEffect(c, clip, texture, "none", 0, meant)
    ELSE AppendEffect(c, clip, texture, "sdf", Last(c.roundClipStack), meant)

\* The shadow is not cut by the view itself, nor by a rounded clip (paint_canvas.cpp:90).
DrawRoundShadow(c, rect, clip) ==
  LET mask == [mode |-> "shadow", rect |-> rect]
  IN AppendEffect(WithParams(c, mask), clip, 0, "sdf", Len(c.effectParams) + 1, mask)

PushRoundClip(c, rect) ==
  [WithParams(c, [mode |-> "clip", rect |-> rect]) EXCEPT
     !.roundClipStack = Append(@, Len(c.effectParams) + 1)]

\* Slip: the outer clips go with the inner one.
PopAllClips(c) == [c EXCEPT !.roundClipStack = << >>]

PopClip(c) ==
  IF c.roundClipStack = << >> THEN c ELSE [c EXCEPT !.roundClipStack = Front(@)]

BlurBackdrop(c, region, clip) ==
  LET d == WithParams(c, [mode |-> "blur", rect |-> region])
  IN [d EXCEPT !.batches = Append(@, Batch(d, clip, 0, "blur", Len(d.effectParams))),
               !.blurs = Append(@, [at |-> Len(d.vertices) + 1, region |-> region,
                                 clip |-> clip])]

\* A rounded rectangle has a mask of its own, unless a rounded clip is on.
DrawRoundRect(c, rect, clip, meant) ==
  IF c.roundClipStack # << >> THEN AppendPlain(c, clip, 0, meant)
  ELSE AppendEffect(WithParams(c, [mode |-> "clip", rect |-> rect]), clip, 0, "sdf",
                    Len(c.effectParams) + 1, meant)

\* The mask that the innermost rounded view among those open gives to plain calls.
MaskOf(o) ==
  LET round == SelectSeq(o, LAMBDA v : v.round)
  IN IF round = << >> THEN NoMask ELSE [mode |-> "clip", rect |-> Last(round).bounds]

-----------------------------------------------------------------------------
(* View::paint *)

Becomes(c) ==
  /\ vertices' = c.vertices /\ batches' = c.batches /\ effectParams' = c.effectParams
  /\ roundClipStack' = c.roundClipStack /\ blurs' = c.blurs

Painting == turned = "none" /\ open # << >>
Top == Last(open)

\* A view up to its painter; one that its parents clip away has its shadow only.
EnterView(bounds, style) ==
  /\ Painting
  /\ views < MaxViews
  /\ views' = views + 1
  /\ LET clip == Intersect(Top.clip, bounds)
         inner == Append(open, [bounds |-> bounds, clip |-> clip, round |-> style.round])
         shadowed == IF style.shadow THEN DrawRoundShadow(canvas, bounds, Top.clip) ELSE canvas
         blurred == IF style.blur THEN BlurBackdrop(shadowed, bounds, clip) ELSE shadowed
         rounded == IF style.round THEN PushRoundClip(blurred, bounds) ELSE blurred
     IN IF clip.w = 0 \/ clip.h = 0
          THEN Becomes(shadowed) /\ UNCHANGED open
          ELSE /\ Becomes(IF style.background THEN AppendPlain(rounded, clip, 0, MaskOf(inner))
                          ELSE rounded)
               /\ open' = inner
  /\ UNCHANGED <<draws, commands, turned>>

\* A call of the painter: shapes and images and glyphs are told apart by their texture.
Draw(texture) ==
  /\ Painting
  /\ draws < MaxDraws
  /\ draws' = draws + 1
  /\ Becomes(AppendPlain(canvas, Top.clip, texture, MaskOf(open)))
  /\ UNCHANGED <<open, views, commands, turned>>

DrawRounded ==
  /\ Painting
  /\ draws < MaxDraws
  /\ draws' = draws + 1
  /\ LET own == [mode |-> "clip", rect |-> Top.bounds] IN
       Becomes(DrawRoundRect(canvas, Top.bounds, Top.clip,
                             IF MaskOf(open) = NoMask THEN own ELSE MaskOf(open)))
  /\ UNCHANGED <<open, views, commands, turned>>

LeaveView ==
  /\ Painting
  /\ Becomes(IF Top.round THEN PopClip(canvas) ELSE canvas)
  /\ open' = Front(open)
  /\ UNCHANGED <<views, draws, commands, turned>>

-----------------------------------------------------------------------------
(* Recording *)

\* Slip: a window turned by 90 degrees is taken for one turned by 270.
TurnedWrong(c, t) ==
  CASE t = "90" -> [x |-> c.y, y |-> 2 * Width - c.x - c.w, w |-> c.h, h |-> c.w]
    [] t = "180" -> [x |-> 2 * Width - c.x - c.w, y |-> 2 * Height - c.y - c.h,
                     w |-> c.w, h |-> c.h]
    [] t = "270" -> [x |-> 2 * Height - c.y - c.h, y |-> c.x, w |-> c.h, h |-> c.w]
    [] OTHER -> c

\* A clip as it lies in the buffer of a turned window.
Turned(c, t) ==
  CASE t = "90" -> [x |-> 2 * Height - c.y - c.h, y |-> c.x, w |-> c.h, h |-> c.w]
    [] t = "180" -> [x |-> 2 * Width - c.x - c.w, y |-> 2 * Height - c.y - c.h,
                     w |-> c.w, h |-> c.h]
    [] t = "270" -> [x |-> c.y, y |-> 2 * Width - c.x - c.w, w |-> c.h, h |-> c.w]
    [] OTHER -> c

\* The scissor in whole pixels of the buffer: ends are cut off, not rounded.
Scissor(clip, t) ==
  LET c == Turned(Intersect(clip, Screen), t)
      across == t \in {"90", "270"}
      x == Greatest(0, c.x \div 2)
      y == Greatest(0, c.y \div 2)
  IN [x |-> x, y |-> y,
      w |-> Least((c.x + c.w) \div 2, IF across THEN Height ELSE Width) - x,
      h |-> Least((c.y + c.h) \div 2, IF across THEN Width ELSE Height) - y]

\* One draw call; a batch that no pixel is left of has none.
DrawOf(b, t) ==
  LET s == Scissor(b.clip, t)
  IN IF b.count = 0 \/ b.effect = "blur" \/ s.w <= 0 \/ s.h <= 0 THEN << >>
     ELSE <<[what |-> "draw", first |-> b.first, last |-> b.first + b.count - 1,
             texture |-> b.texture, scissor |-> s,
             mask |-> IF b.effect = "sdf" THEN effectParams[b.params] ELSE NoMask]>>

RecordBatchRange(from, to, t) ==
  FlattenSeq([k \in 1 .. to - from + 1 |-> DrawOf(batches[from + k - 1], t)])

\* What is blurred around a region: 2 sigma, a pixel here.
Margin(r) == [x |-> r.x - 2, y |-> r.y - 2, w |-> r.w + 4, h |-> r.h + 4]

\* A blur and its composition, which is cut with another scissor than draws are; a
\* region off the screen has none (not one of View::paint, which clips first).
BlurOf(b) ==
  LET region == effectParams[b.params].rect
      near == Intersect(Margin(region), Screen)
      cut == Intersect(b.clip, Screen)
  IN IF near.w = 0 \/ near.h = 0 THEN << >>
     ELSE <<[what |-> "blur", region |-> region,
             scissor |-> [x |-> Greatest(0, cut.x \div 2), y |-> Greatest(0, cut.y \div 2),
                          w |-> cut.w \div 2, h |-> cut.h \div 2]]>>

Markers == SelectSeq([k \in DOMAIN batches |-> k], LAMBDA k : batches[k].effect = "blur")

\* Slip: the batches before a later marker are drawn from the first one on.
SegmentFromStart(k) == 1

\* The batch after the marker before marker number k.
SegmentBegin(k) == IF k = 1 THEN 1 ELSE Markers[k - 1] + 1

\* The scene in segments, each with the blur that ends it; turned as a whole at the end.
Segments ==
  FlattenSeq([k \in DOMAIN Markers |->
                RecordBatchRange(SegmentBegin(k), Markers[k] - 1, "identity")
                  \o BlurOf(batches[Markers[k]])])
    \o RecordBatchRange(SegmentBegin(Len(Markers) + 1), Len(batches), "identity")

\* recordCommandBuffer: the effects may not be ready.
Record(t, ready) ==
  /\ turned = "none" /\ open = << >>
  /\ IF Markers = << >> \/ ~ready
       THEN commands' = RecordBatchRange(1, Len(batches), t) /\ turned' = t
       ELSE commands' = Segments /\ turned' = "identity"
  /\ UNCHANGED <<open, canvasVars, views, draws>>

Next ==
  \/ \E bounds \in Bounds, style \in Styles : EnterView(bounds, style)
  \/ \E texture \in Textures : Draw(texture)
  \/ DrawRounded \/ LeaveView
  \/ \E t \in Transforms, ready \in BOOLEAN : Record(t, ready)

Spec == Init /\ [][Next]_vars

-----------------------------------------------------------------------------
(* Properties *)

Recorded == turned # "none"
Pixels == (0 .. Width - 1) \X (0 .. Height - 1)

\* Where a pixel as it is seen lies in the buffer: what the matrix of
\* recordCommandBuffer does to the vertices.
InBuffer(p, t) ==
  CASE t = "90" -> <<Height - 1 - p[2], p[1]>>
    [] t = "180" -> <<Width - 1 - p[1], Height - 1 - p[2]>>
    [] t = "270" -> <<p[2], Width - 1 - p[1]>>
    [] OTHER -> p

Holds(s, p) == s.x <= p[1] /\ p[1] < s.x + s.w /\ s.y <= p[2] /\ p[2] < s.y + s.h
InsideClip(p, c) == c.x <= 2 * p[1] /\ 2 * p[1] + 2 <= c.x + c.w
                      /\ c.y <= 2 * p[2] /\ 2 * p[2] + 2 <= c.y + c.h
TouchesClip(p, c) == c.x < 2 * p[1] + 2 /\ 2 * p[1] < c.x + c.w
                       /\ c.y < 2 * p[2] + 2 /\ 2 * p[2] < c.y + c.h

WholePixels(c) == \A n \in {c.x, c.y, c.w, c.h} : n % 2 = 0

Calls == {k \in DOMAIN commands : commands[k].what = "draw"}
DrawnBy(v) == {k \in Calls : commands[k].first <= v /\ v <= commands[k].last}

\* Every vertex with a pixel to show is drawn once, in the order of painting, with
\* the texture and the mask it was meant to have.
DrawnInOrder ==
  Recorded =>
    /\ \A v \in DOMAIN vertices :
         /\ Cardinality(DrawnBy(v)) <= 1
         /\ (\E p \in Pixels : InsideClip(p, vertices[v].clip)) => DrawnBy(v) # {}
         /\ \A k \in DrawnBy(v) : commands[k].texture = vertices[v].texture
                                    /\ commands[k].mask = vertices[v].mask
    /\ \A k, l \in Calls : k < l => commands[k].last < commands[l].first

\* What a vertex may colour are the pixels of its clip, whichever way the window is
\* turned: all that are within it and none that are not.
ClippedAsMeant ==
  Recorded => \A v \in DOMAIN vertices : \A k \in DrawnBy(v) : \A p \in Pixels :
    /\ InsideClip(p, vertices[v].clip) => Holds(commands[k].scissor, InBuffer(p, turned))
    /\ Holds(commands[k].scissor, InBuffer(p, turned)) => TouchesClip(p, vertices[v].clip)

\* A backdrop is blurred when all below it is drawn and nothing above, either every
\* one or none if the effects are not there; no pixel outside its clip is touched,
\* and all inside are if the clip is of whole pixels.
BlurredInOrder ==
  Recorded =>
    LET places == SelectSeq([k \in DOMAIN commands |-> k],
                            LAMBDA k : commands[k].what = "blur")
    IN /\ places = << >> \/ Len(places) = Len(blurs)
       /\ \A n \in DOMAIN places :
            LET done == commands[places[n]] IN
            /\ done.region = blurs[n].region
            /\ \A k \in Calls : IF k < places[n] THEN commands[k].last < blurs[n].at
                                ELSE commands[k].first >= blurs[n].at
            /\ \A p \in Pixels :
                 /\ Holds(done.scissor, p) => TouchesClip(p, blurs[n].clip)
                 /\ InsideClip(p, blurs[n].clip) /\ WholePixels(blurs[n].clip)
                      => Holds(done.scissor, p)

DrawnAsPainted == DrawnInOrder /\ ClippedAsMeant /\ BlurredInOrder
=============================================================================
