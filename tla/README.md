# Verification of the estarx Vulkan UI engine

TLA+ models of the engine in `core/` and of the shells and bridges of the three
platforms, TLC configurations that check them on small instances, and proofs, for
every instance, about the frame pipeline, the compositor, the worker pool, the shells, the
textures, the renderer, the gesture arena, scrolling and buttons.

## The system

Three trees live on the UI thread: widgets (configuration), elements (mounted
identity and State) and views (retained render objects). Input, UI tasks,
animations and application callbacks change them and call `requestRender`; the
next VSync (`beginFrame`) rebuilds, lays out and paints into a `Canvas`, which
travels with a snapshot of the dirty texture regions to the raster thread. The
raster thread owns everything Vulkan. Worker threads run pure computations and
post their results back to the UI thread.

| Component | State | Operations | Talks to | What is hard |
|---|---|---|---|---|
| Frame pipeline (`frame_pipeline.h`) | two frame slots, busy flags, ring, flags | start, produce, stop; the raster loop | Compositor's callbacks | two threads on unlocked slots, wake-ups, exceptions |
| Compositor and scheduler (`compositor.cpp`, `frame_scheduler.cpp`) | size, generation, first-frame flag, dirty flag | requestRender, beginFrame, renderFrame, setSize, raster | pipeline, texture store, renderer | stale frames, retries, lost requests |
| Platform shells and bridges (`platform/`) | native window, frame callbacks, engine of the bridge, finger ids | surfaces, sizes, safe areas, frames, touches, the reader's switch | Compositor, application | any order of events, starts that fail, restarts under fingers |
| Application shell (`ui_application.cpp`) | root, viewport, safe area, frame function | runApp, shutdownApp, setViewport, setSafeArea | bridges, views | half a start, a layout nobody shows |
| Texture store (`texture_store.cpp`, `texture_store_source.h`) | pixels and dirty region per texture | add, mark dirty, take updates, apply | Compositor, texture cache | a dirty region lost between threads |
| Texture cache (`texture_cache.cpp`) | GPU textures, pending uploads | ensure, upload, grow descriptor pool | texture source, renderer | failure of one step of several, retries |
| Renderer (`vulkan_renderer.cpp`, `gpu/`) | frames in flight, fences, swapchain, all Vulkan objects | initialize, render, recreate, shutdown, record | texture cache, Vulkan | timeouts, out-of-date surfaces, failures half-way, rotation |
| Canvas (`paint_canvas.cpp`) | vertices, batches, clips, masks, blurs | draw, push and pop of clips | views, renderer | joining draws that only look alike |
| Worker pool (`worker_pool.cpp`) | job queue, threads, cancel flags | compute, cancel, destroy | `postUi` | cancellation racing completion |
| UI tasks, event bus, animations (`event_bus.cpp`, `animation_scheduler.cpp`) | task list, subscriptions, ticks | postUi, drain, subscribe, emit, tick | everything on the UI thread | changes from inside callbacks |
| Navigation (`navigation_stack.cpp`) | page stack, one transition, route events | push, pop, clear, layout, animation tick | animations, widget tree, pointers | re-entrance, a resize in mid-transition, late ticks |
| Widget tree (`widget_tree.cpp`) | elements, dirty list | setState, rebuild, mount, unmount, update | views, navigation | setState during build, unmount during rebuild |
| Inherited widgets (`inherited_widget.cpp`) | dependents and what they depend on | read, notify, sign off | widget tree | elements that die while they are notified |
| View tree (`render_view.cpp`, `layout/`, `controls/`) | constraints, sizes, dirty marks, children | layout, flush, mount, unmount, hit test, paint | widget tree, canvas | a mark that stops too early, a layout that is skipped |
| Pointer input (`pointer_input.cpp`) | fingers, pending tap, scale sessions, timer | dispatch, cancel, arena, tick | views, scroll control | several fingers, views that disappear |
| Scrolling and buttons (`scroll_control.cpp`, `button_control.cpp`) | offset, animation; press | drag, fling, spring, clamp; press, tap | pointer input, animations | a fling racing a drag or a layout; a rebuild under a finger |
| Semantics (`semantics.cpp`, `SemanticsA11yBridge.java`) | last tree, ids, references; the reader's copy | collect, diff, perform action | views, platform | stale ids and references |
| Text and glyphs (`text_layout.cpp`, `font_engine.cpp`) | lines; atlas pages and their cells | layout, ellipsis; rasterize | views, texture store | numeric edges, a page that is full |
| Remaining widgets, platform channel, key-value store, log | fields; handlers; a file | copy, call | - | - |

What makes each component correct, and hard, in short:

- *Pipeline and compositor*: a slot has one owner; no wake-up is lost; frames
  reach the screen in order, at the size they were laid out for, with every
  texture they use; a change of the UI is on screen, on its way, or still
  requested; the surface outlives the raster thread.
- *Platforms*: whatever order the system tells things in, a mounted application lies
  in the surface less the safe area, is there as a whole or not at all, and
  follows the fingers it was told of.
- *Textures*: every pixel written reaches the GPU, whatever was joined, queued,
  skipped, failed and retried between the two threads.
- *Renderer*: no buffer, semaphore, fence, image or swapchain is used again before the
  GPU is done with it; no retry path leaves one of them in hand; objects are made
  from whole ones of the current swapchain and destroyed in order after any failure.
- *Canvas*: what is drawn keeps its order, clip, texture and mask in any batch
  and on a window turned any way.
- *Workers*: a callback runs for a handle that is still held and never after;
  nobody waits for ever.
- *Navigation*: the screen shows the top of the stack at rest; every Will is
  answered by one Did; views and routes name the same pages.
- *Widgets*: the children of a view are those of its slots, with their own data,
  in the order of the list; subscriptions live and die with their State; a reader
  has read what the nearest theme carries now.
- *Layout*: after a flush no view keeps a size that its constraints and children
  no longer give it, and a hit finds what is drawn there.
- *Pointers*: a view hears one pan and one pinch at a time, every gesture that
  began ends once, a finger that lost its tap never taps, timers fire.
- *Scrolling and buttons*: a list at rest shows its content; it follows the finger
  that drags it; no button stays pressed, but for one whose own long press took the
  finger.
- *Semantics*: the reader's copy is the page, and what it offers is answered, but for
  actions merged past the view that has them.
- *Text*: every glyph is on one line or behind an ellipsis, and has its cell alone.

Each hazard in `PROJECT.json` names the line where it bites and the properties
that would catch it. Smaller ones, by place:

- `compositor.cpp:108`: `renderFrame` returns silently for a surface without a size
  after the dirty flag was cleared (a later `setSize` asks again).
- `texture_cache.cpp:353`: a texture whose retry waits for a frame nobody requests.
- `navigation_stack.cpp:376`: a push from a DidLeave, before the DidEnter of the page
  entered; `navigation_stack.cpp:596`: route events of a page that pushes itself away.
- `widget_tree.cpp:111`: the factor of an `Expanded` whose nested State builds another
  root; `:245`, `:358`: a `mutate` that unmounts its own State; `:370`: listeners of a
  replaced root view; `event_bus.cpp:143`: `clear` in mid-emission.
- `pointer_input.cpp:474`, `:684`, `:830`: an id used again in a session, bare pointers
  kept over a callback, and one pending tap for all fingers. `PointerInput` has all
  three as behaviours; where the program is undefined it stops.
- `scroll_control.cpp:379`: an `onScroll` that destroys the view it is called by;
  `render_view.cpp:378`: a layout asked for from inside a layout.
- `ui_pipeline.cpp:36`: the shader modules of a `create()` that could not load all
  four are never destroyed (`NothingIsLeft` leaves modules out).
- `vulkan_renderer.cpp:938`: the composite scissor of a blur loses pixels at clips
  that are not whole pixels. `paint_canvas.cpp`: a shadow is drawn with the mask of its
  parent while the view's own rounded clip is not yet pushed.
- `text.cpp:121`, `text_layout.cpp:24`: the keys of cached texts leave the fonts out.
- `font_engine.cpp:237`: a glyph larger than a page would be written past a fresh one
  (`AtlasAssumption` excludes it).

## The modules

| Module | Models | Checked in |
|---|---|---|
| `FrameChannel` | what the pipeline promises: a bounded FIFO channel | `threads` |
| `FramePipeline` | `FramePipeline<Frame>`, lock by lock | `threads` |
| `Compositor` | scheduler, compositor, creation and destruction of surfaces, over `INSTANCE FramePipeline` | `compositor` |
| `WorkerPool` | `WorkerPool`, `WorkerTask`, `postUi`, `drainUiTasks` | `threads` |
| `Navigation` | `Navigator`, `NavigationView`, `tickAnimations` | `threads`, `navigation_...` |
| `Shell` | the shells and bridges of Android, iOS and HarmonyOS, `runApp` and `shutdownApp` | `threads` |
| `TextureUpload` | `TextureStore`, `TextureStoreSource`, `TextureCache` | `gpu`, `texture_retry` |
| `Renderer` | `Renderer::render`, swapchain, fences, semaphores, GPU queue | `gpu` |
| `GpuObjects` | life of every Vulkan object, from `initialize` to `shutdown` | `gpu` |
| `OffscreenPasses` | passes, barriers and layouts of frames with backdrops to blur | `gpu` |
| `Painting` | `View::paint`, `Canvas`, `recordCommandBuffer` | `gpu` |
| `WidgetTree` | elements, views, flex data, subscriptions and `emit` | `views`, `widget_order` |
| `InheritedTree` | inherited elements and their dependents | `views` |
| `ViewLayout` | layout protocol, flush, hit test and paint order of views | `views` |
| `TextFlow` | `TextLayout::layout` | `views`, `text_lines` |
| `GlyphAtlas` | `rasterizeGlyph` and its pages | `views` |
| `Semantics` | `SemanticsOwner` and the copy of the Android bridge | `views`, `semantics_stale` |
| `PointerInput` | fingers, taps, long presses, pans, sessions, gesture timer | `gestures` |
| `ScrollControl` | a scrolling view and its animations | `gestures`, `scroll_overscroll` |
| `ButtonPress` | `ButtonView` under fingers and rebuilds | `gestures` |
| `WorkerPoolState`, `NavigationState`, `ShellState`, `TextureState`, `OffscreenState`, `ScrollState`, `ButtonState`, `TextState`, `AtlasState` | the variables and the promises of a component, without its operations | with it |
| `TextOnScreen` | what `TextState` and `AtlasState` promise together | `views` |
| `FramePipelineProofs`, `CompositorProofs`, `WorkerPoolProofs`, `ShellProofs`, `NavigationProofs`, `TextureUploadProofs` (also of `GlyphAtlas` and `TextFlow`), `RendererProofs` (also of `OffscreenPasses`), `GestureProofs` (of `PointerInput`, `ScrollControl` and `ButtonPress`) | theorems | - |

The modules `MC...` give the constants of the runs, where a `.cfg` cannot. Four of them are suites:
`MCGestures`, `MCThreads`, `MCGpu` and `MCViews` put several components side by side
that share no variable. Their variable `part`, chosen in the initial state, says which
one runs; the others stay in one initial state and stutter. Each component keeps its own
`Init`, `Next` and fairness, so a suite asks exactly what a run of each component
alone would ask, and its state space is the sum, not the product, of theirs.
A suite extends the State module of a component and takes its operations through
`INSTANCE`, so that the promise a run checks and a theorem states is one definition.

Every module holds, beside its actions, some definitions under a comment that
begins with "Slip:". They are no part of the specification: each is a definition
of the module as a plausible mistake would have written it, and
`PROJECT.json` ("mutants") says which property fails with it.

### FramePipeline and FrameChannel

An action is one critical section of `mutex_` or one step between two of them.
`Claim`, `WriteFrame`, `Enqueue` and `NotifyWork` are the four parts of
`produce`: the builder runs without the lock, and so does the notification, so
the raster thread can do anything between them. `Dequeue` to `ConsumeReturns` is
the unlocked `consume`. A raster thread in `wake_.wait` is in the state
`"waiting"`, which only a notification or a `SpuriousWakeup` ends. `initialize`,
`consume`, the builder and `finish` may each throw. `start` and `stop` are
called by the UI thread only, as the code's owner does.

`FrameChannel` has no slots, locks or ring. The refinement maps its `pending` to
the frames of the ring from `head` on, `active` to the frame being consumed and
`closed` to `stopping`.

### Compositor

Extends the pipeline's life with the scheduler's dirty flag (`framePending`), the
surface size and generation, the texture deltas and the bridge. `Edit` is any
change that ends in `requestRender`; edit *n* also creates texture content *n*, so
a frame that shows the view *v* needs the contents 1 to *v*, and deltas carry
only what became dirty. `beginFrame` is `BeginFrame`, `CheckRunning`,
`ProduceClaims` or `ProduceRefused`, `BuildFrame`, `SubmitFrame`,
`NotifyRaster`; the raster callback is `TakeFrame`, `ApplyTextures`,
`SkipStaleFrame` or `BeginDraw`, and then `Present`, `RetryLater` or
`RenderFails`, the three results of `Renderer::render`. `CreateCompositor` to
`JoinRaster` are `nativeInit` and `nativeDestroy`.

### WorkerPool

`Compute`, the handle's assignment, `Cancel` and `DestroyPool` can be called
from the UI's event loop and from any completion callback. `compute` is two steps
(enqueue, notify), and the assignment of the returned handle, which cancels the
task it replaces, a third. A worker is in `"loop"`, `"waiting"`, `"start"`, `"work"`,
`"check"`, `"postResult"` or `"postError"`, with the flags tested exactly where
`worker_pool.h` tests them. `DrainUiTasks` swaps the list out first, so a callback
that posts again waits for the next drain.

### Navigation

Everything is on the UI thread; what interleaves is calls. A call of the
navigator under way is a frame on the stack `calls`, standing in one application
callback; returning from it runs on to the next. In a callback the application
can veto, rebuild (a layout of the whole tree) or, where `CallsFrom` says so, push or pop.
`Frame` and `RunTick` are `tickAnimations`; a tick whose transition was landed by
`Resize` or `Clear` stays in the list and is marked `stale` (for the properties
only). `life` is the last route event of each page. `spoiled` says that a stale
tick has run.

### Shell

One initial choice, `shell`, says which platform it is. The events of the system are the
actions, in any order that platform allows: surfaces and sizes (`AndroidCreated`,
`SurfaceChanged`, `LayoutSubviews`, `HarmonyCreated`), appearing and the foreground,
the window and the bridge of HarmonyOS (`WindowIsHere`, `OnLoad`), safe areas,
the reader's switch, fingers, and `BeginFrame`. `engine` holds what the bridge and
`ui_application.cpp` keep; every event is the whole path through both, with the start of
the engine succeeding or failing (`starts`). `told` and `shown` are histories: the
touches the mounted application heard of, and where the last frame placed it.

### TextureUpload

A texture is a row of texels (rectangles are joined and clamped per axis), a
texel holds the number of the write that set it. `AddTexture` and `Write` mark
and join dirty regions; `BuildFrame` takes the updates; `Apply` is the source's
copy on the raster thread; `EnsureTextures`, `ConsumeDirty`, `Upload` and
`UploadFails` are the cache's part of a frame, where every creation and upload
may fail; `Restart` is a compositor recreated with its cache while the store
lives on. Texture 1 is an atlas page (partial uploads), texture 2 has mip levels
(always whole).

### Renderer

One action per Vulkan call of `render` that can go more than one way: the fence
wait (`WaitFence`, `FenceTimesOut`), the acquire (`Acquire`, `AcquireTimesOut`,
`OutOfDate`; suboptimal images are drawn), upload and recording, submit, and the
present with its two results. `RecreateSwapchain` returns either to the same
attempt or to the next. The GPU is a queue that executes draws and presents in
order, each when it likes (`ExecuteDraw`, `ExecutePresent`). `Turn` changes the
size of the surface; up to `MaxLag` rebuilds after it may still be told the old
size, which is what the retry loop is there for. These Vulkan parts are
marked external in the map.

### GpuObjects

A function of the renderer is the sequence of the objects it creates or destroys, and
`todo` what the raster thread has still to do; `Create` and `CreateFails` take the
next one, and a failure continues as that function does: with its own clean-up or with
that of its caller. `made` names the swapchain an object belongs to, `partial`
the groups of which only a part was made, `Needs` and `Owner` what Vulkan asks of
creation and destruction. `Render` is a frame with as many vertices as it likes: the
buffer grows by doubling in `uint32_t` (`Biggest`), and may fail to.

### OffscreenPasses

`Record` is a whole frame with some backdrops: the barriers behind the frames before it and
the first scene pass as `commands`, the markers `ahead`, and the segment being drawn. The code
records all of it at once; since nothing but the markers decides what follows, the model
writes the commands of a marker out (`GoOn`, with `Marker` and `Finish`) when the GPU gets
there. The GPU executes passes, barriers and samples in order, one frame after another, but
a pass may overlap what no barrier orders before it, so the model keeps which images
commands may still be sampling (`sampled`, over the end of a frame too), which writes are
visible, and each image's layout and content.

### Painting

`EnterView` to `LeaveView` are `View::paint` around its children, with shadow, blur,
rounded clip and background; `Draw` and `DrawRounded` are drawing calls of a painter;
each appends a vertex and joins the last batch or opens one as `Canvas` does. A vertex
remembers the clip, texture and mask it was meant to have. `Record` walks the batches for
one transform of the surface and gives the draw calls with their scissors, and the blurs in
between. Rectangles are in half pixels, so that a clip may lie between two pixels.

### WidgetTree

A page is a host that builds a `Flex` from a list of slots; a slot is empty, a leaf
with a view, or a `Counter`, a stateful widget that builds one of the leaves and
listens to an event; each may be wrapped in `Expanded`. A rebuild is synchronous, hence
one step: `Updated` is `updateChildren` with its growing, shrinking, updating,
replacing and configuring, `Rebuilt` a nested `setState`. Handlers of `emit` run
one by one from its snapshot, and each may rebuild, cover the page or emit again.
`setState` from inside `build`, `initState` and `didMount` is left out.

### InheritedTree

A chain below a stateful host: nested themes, then readers, each building the next. A
rebuild is one step of two roots, `HostSetState` or `ReaderSetState`; what it does with
the chain below (keep, update, replace, unmount, notify the snapshot of stale
dependents) is a function of the chain, and `dangling` records the use of an element
that was destroyed.

### ViewLayout

The views are a record of functions (position, size, constraints, dirty, children,
visible); an operation is a function from such a record to the next, which recursion
carries through `Layout` (constraints down, sizes up, the early return for a clean view
under equal constraints), `Mark` and `Rebuild`. Five shapes hold every kind of layout of
`flex_layout.cpp`, `controls/` and the scrolling view. `BeginFrame` flushes, and until
`EndFrame` `painting` (`g_buildingFrame`) keeps everything from being laid out again.
The reference for `LayoutIsCurrentAndHit` is a layout from nothing.

### TextFlow

The loop of `TextLayout::layout`, one action per branch of its body: `HardBreak`,
`LeadingSpace`, `BreakAtSpace`, `BreakBefore`, `TakeGlyph`, and `Finish` with
`applyMaxLines` and its ellipsis. Glyphs are told apart by their width and by being
spaces or newlines; where a line may break is an input that keeps libunibreak's rules.
The sums of widths (`prefix`) are those of the code, of integers for its floats.

### GlyphAtlas

`RasterizeGlyph` is a lookup of the cache, the search for a page whose shelf or next
shelf has room, a new page, or no glyph. Histories keep what was written where and
which regions were marked dirty.

### Semantics

A container has a label or none, callbacks of its own (`onClick`, `onLongPress`) and leaves:
texts, and views that are only there for their callbacks. Containers and leaves come, go
and change one view at a time (`Mount`, `Unmount`, `MountLeaf`, `UnmountLeaf`, `Update`,
`UpdateLeaf`). Views are named by their addresses, which a later view may get again, and a
reference to a destroyed view is `Dead`. `Frame` is `onFrameBuilt`: collection with
ids by address, `absorbLeafActions` (`Absorbed`, `Merged`: all actions of the
leaves; `Route`: to the first of them), the diff and, if something changed, the message that
replaces the platform's `snapshot`. `Performs` is `performAction`: the routed view, the
node's own once that one is gone, and no answer from a view without that callback. The reader's
switch and the surface come and go.

`SentActionsAreAnswered`, a part of `ReaderIsInStep`, says exactly what is answered after
an update: an action is performed if and only if it was not merged past the view that has
it (`MergedAway`). A labelled container with an `onClick` and a leaf with only an
`onLongPress`, or with two leaves, offers an action that nobody answers
(`MergedActionsAreAnswered`, below).

### PointerInput

All of it runs on the UI thread; what interleaves is the application, which is
called back in nearly every step and may remove or hide views, which cancels
gestures in its turn. What a handler has still to do when the callback returns is the
sequence `todo`, one item for each piece of code between two callbacks: the Down
of a finger is `TouchDown`, `HitAgain` (its id was still in use), `AddFinger`,
`Gather`, and `StopTap`, `DropPan` and `OpenSession` when it makes a session
complete. `calling` says that the application has its turn. `fingers`, `pending`,
`sessions` and `timer` are the file's globals. Positions are left out: a move that
matters is one beyond the slop, and a second tap is near or it is not. `panning`
and `scaling` remember which Begins were sent without their End or Cancel.

A removal is the items `sessions`, `collect` and `destroy`, or `hide` for `setVisible`. A
callback may remove, or hide, the very view an outer call is at, its parent or a sibling.

Where the code goes on with something that a callback made invalid, the model stops
(`GoWrong`): nothing can be said of what follows. That is a bare pointer in the middle of a
Down or of a new session (`AddFinger`, `OpenSession`), `this` in `setVisible` (`Hide`), `this`
or the iterator of children in `removeChild` and `replaceChild` (`LostInCallbacks`), and the
iterator of sessions in `endSessionsForView` (`Scanning`). Where a sibling or a session stands
in its list is left out, so that the last two may go wrong or not. The run reaches all but
two of these: a page with two siblings, or with two sessions, which take four fingers, is beyond its
bounds. The proofs cover them.

### ScrollControl

Fingers on the view or on one in it (`Down`, `DownOnChild`), the arena's pan callbacks,
and `Tick`, one animation of `tickAnimations`' swapped-out list. `onScroll` is a point where
the application has its turn (`inCallback`): it may set the offset or change the content
while the tick that called it is under way. Content and viewport change at any time.
`cut` notes the two cases in which a view may rest beyond its end: a press stopped it,
was let go without a drag, and nothing has moved it since; or an animation began while
a stopped one still waited for its frame, which sets it going again and ends both.

### ButtonPress

A button, the fingers recorded for it (`held`), and everything that can take it from
under them: a Cancel, a rebuild, disabling, hiding, unmounting, and a long press. The last
one takes the finger and tells the button nothing (`LongPress`; `pointer_input.cpp:541-544`),
so that a button whose view has an `onLongPress` shows as pressed with no finger on it,
until the next finger or the next rebuild; `abandoned` remembers it. `PressedIsHeld` excepts
this case and no other; `EveryPressIsHeld`, below, does not.

## The runs

| Run | Bounds | Distinct states | Shows |
|---|---|---|---|
| `compositor` | 2 widths and none, 1 edit, 1 resize, 2 surfaces | 320 000 | frames are drawn as they were built, no change forgotten, raster thread within its window; the screen catches up, surfaces come and go without hanging |
| `threads` | *pipeline*: 2 slots, 2 frame contents; *pool*: 2 workers, 2 owners, 2 tasks, queue of 1; *pages*: 4 pushes, 2 animation steps, calls nested twice, 1 late tick; *shell*: 2 sizes, 2 safe areas, 2 fingers | 132 000 | slots have one owner, no lost wake-up, FIFO refinement, `stop` returns; only held tasks are answered, no idle worker, the destructor returns; the screen shows the top, Wills are paired, routes are pages, transitions end; the application fills its window, is whole, follows its fingers, and its layout is shown |
| `gpu` | *frames*: 2 slots, 3 images, 3 attempts, 2 turns, 3 late rebuilds; *textures*: 2 of 3 texels, 3 writes, 2 frames queued, 2 failures, 1 restart; *objects*: 2 slots, 2 swapchains, vertex buffers of up to 3; *passes*: 2 frames, 2 swapchains, 3 backdrops; *painting*: screen of 3 by 2, 2 views, 2 draws | 340 000 | slots quiet, fences answered, nothing left behind, swapchains outlive their frames, the screen converges; no pixel lost; objects live soundly; images hold what is sampled; drawn as painted |
| `views` | *widgets*: 3 slots, 4 States, 6 lists, emissions nested twice; *layout*: 5 shapes, 3 sizes, 2 widths; *themes*: 2 values, 2 nested themes, 3 readers; *text*: 5 glyphs; *atlas*: 4 glyphs, 2 pages of 6 pixels; *reader*: 1 slot, 3 addresses, 3 ids, a container with a tap and a leaf with a long press; *merging*: the same, two leaves with one action each | 491 000 | children are slots, data is own, subscriptions follow States, only shown pages hear; layout is current and hit; readers are current; text is whole and its glyphs keep their cells; the reader sees the page |
| `gestures` | *arena*: 2 fingers, 2 views, 2 removals per event, 3 ids per session; *scroll*: 2 contents, 2 viewports, 2 touches, 2 animations; *button*: 2 fingers, 2 clicks, with a long press and without | 228 000 | winners are exclusive, losers get their Cancel; a list rests in its range and follows the finger; no press is left behind but by a long press; timers fire and animations end |
| `texture_retry` | as *textures*, with 1 failure | violation | see findings |
| `navigation_late_tick` | 3 pushes, no nested navigation | violation | see findings |
| `navigation_redirect` | 3 pushes, one nested from the restored page | violation | see findings |
| `widget_order` | as *widgets* | violation | see findings |
| `semantics_stale` | 1 slot, 2 addresses, 3 ids | violation | see findings |
| `scroll_overscroll` | as *scroll* | violation | see findings |
| `text_lines` | 4 glyphs | violation | see findings |

**Why the bounds are enough.** Two slots, two frames in flight and three attempts are the
code's own constants. Two frame contents tell an old frame from a new one and one
frame from its repetition. One edit, one resize and the request of a new surface make
three frames: a stale one lies between two fresh ones, and a second surface
meets a store that was already drained. Three texels give two disjoint dirty regions with
a gap between them, whose union is wider than both. Two workers and one place in the queue
are the least with which a wake-up can go to the wrong worker and a job be refused. Two
fingers, whose ids may be used again, make a session, lose it and join it a second time;
two removals in one event let a removal be answered by another. Four pages let
one be pushed while another is landed, with two below. Three slots have a first, a
kept and a last child, and the six lists shrink, grow, retype a slot before a
kept one, leave gaps and move `Expanded` from slot to slot. In the renderer two
turns and three late rebuilds exceed the three attempts of one frame, so that a
frame is given up and asked for again.

Two swapchains let a rebuild fail over the objects of the last one and succeed later. Three
backdrops use both images of a blur twice in a frame, and two frames overlap. The three
rectangles of *painting* lie in the corner, between pixels and across the edge, on a
screen whose sides differ, so that a swapped axis shows; two views nest or follow each
other, and a mask can be pushed again after a pop. The five shapes put each kind of view
above one that changes, comes or goes. Five glyphs hold a word, a break, skipped spaces and
another word. Pages of six pixels fill in both directions with four glyphs. One window
of the *shell* has no room between its bars. Three addresses are a container and
two leaves, or a container, its leaf and the view that takes the place of one; they are
symmetric, as the code compares addresses and never orders them, and no liveness is asked in that run. The contents of *scroll* fit, nearly fit and do
not fit their viewports.

Deadlock is checked in `threads`, where the pipeline, the pool and the shells go on for
ever (pages that rest are given an explicit step). In the other runs the
bounds on edits, writes, frames and rebuilds let the model stop, a scanned text is done,
and the arena stops where the program is undefined.

**Fairness.** Each assumption is one the environment of the code gives:

- `FramePipeline`: calls that were entered end and both threads are scheduled
  (`UiReturns`, `RasterReturns`). Nothing makes the UI thread call `produce` or
  `stop`, and `SpuriousWakeup` is not fair, so a lost notification
  shows as a thread that sleeps for ever.
- `Compositor`: the same, and VSync is delivered while the surface lives
  (Choreographer, CADisplayLink and DisplaySync run continuously). `Present` is
  strongly fair: a GPU that is asked again and again draws at some time, or
  fails for good, which stops the pipeline. Without it a GPU that times out for ever
  would be a counterexample to anything.
- `WorkerPool`: VSync drains the task list whether or not a frame is wanted, jobs
  and callbacks end, each worker is scheduled. Wake-ups without cause are not fair.
- `Navigation`: callbacks return, VSync runs the animation ticks.
- `PointerInput`: the same, and time passes between any two of many events (strong
  fairness of `TimePasses` and `Tick`: events keep disabling them for a moment only).
- `ScrollControl`: VSync runs the ticks (`Tick`); fingers and callbacks are not fair.
- `Shell`: VSync comes while it is asked for (`BeginFrame`); no event of the system is
  fair.
- `Renderer`: the raster thread and the GPU queue go on. Requests from outside are not
  fair, so that the retries alone must bring the screen to the window's size.
- All other modules have safety properties only.

## What is proved

TLC checks the instances above; TLAPS proves what follows for every value of the
constants. What is assumed of these is named where they are declared and says no more than
the code fixes: there is at least one slot, image, attempt, worker and place in the queue,
and the bounds of the model are numbers (`NumSlotsAssumption`, `BlankFrameAssumption`,
`BoundsAssumption`, `RendererAssumption`, `PoolAssumption`); a texture has two texels or more
(`TextureAssumption`); surfaces have a size, safe areas are numbers and fingers are finitely
many (`ShellAssumption`); contents, viewports and steps are numbers (`ScrollAssumption`); the
parent of a view is a view of the page or nothing, only its views have handlers, the
timeouts are not zero and fingers are finitely many (`PointerAssumption`); a transition has a
step or more, and only callbacks that could do so navigate in their turn
(`NavigationAssumption`); glyphs are rectangles that with their padding may or may not fit a
page (`AtlasAssumption`); widths of glyphs, of the ellipsis and of lines are numbers, not
negative (`TextAssumption`). A module that is
only reached through `INSTANCE`
has its assumption as a hypothesis of its theorems, and the suite that instantiates
it assumes it, so that TLC evaluates it too.

Every argument has one form: a promise that a run checks is not inductive, `IInv` is the
strengthening that is, TLC has checked it on the small instance, one lemma per
action proves that it is kept, and the promise follows from it.

**FramePipelineProofs.** `IInv` is `TypeOK`, `SlotOwnership`, `BusyIsOwned` and
`ThreadIsStarted`. `TypeOK` alone is not inductive: that `queued` stays within the array at
`Enqueue` needs the builder's slot to be outside the ring (`RoomForOneMore`, a counting
argument on the slots), which needs `busy` to mark exactly the owned slots when `Claim`
picks one. Lemmas on positions modulo `NumSlots` (`WrapOnce`, `RingDistinct`,
`EntryAfterEnqueue`, `EntryAfterDequeue`) carry the ring. From it: `NoSlotShared`,
`WakeupsAreNotLost` (an invariant of its own on top), `ConsumedFrameIsStable` (an action
property), and the refinement `PipelineImplementsChannel`: every step of the pipeline is a step
of `FrameChannel` or leaves it unchanged.

**CompositorProofs.** All four safety properties of the run: `CompositorTypes`,
`RasterOutlivesNoSurface`, `FramesAreDrawnAsBuilt`, `ChangesReachTheScreen`. The invariant
follows the line of frames from the one in hand over the ring to the one last shown: each is at
least as new as the one before (`Ordered`), the textures a frame wants arrive with it or
before it (`Arriving`), and what the newest does not show is still asked for (`Owed`,
`Remembered`): `framePending` is cleared at the start of a frame, and the change is
safe meanwhile because the frame in hand is built after it. The ring of the pipeline is proved
again for the instance `Pipe`, which a new surface replaces by a new one.

**WorkerPoolProofs.** `OnlyHeldAnswered` and `NoIdleWorker`, for any number of workers, owners
and tasks. A task is in one place at a time (`OnePlace`: queue, worker, posted, swapped out
or answered), and where it is short of its answer it is canceled or held
(`HeldOrCanceled`). The second has an invariant of the wake-ups: a job nobody has taken is on
the way of a worker that is awake, or of a `notify_one` still to be given.

**TextureUploadProofs.** `PixelsArrive`, with its three parts. Between the threads: no texel differs
from the copy it will be compared with unless it is dirty or in a delta on the way
(`NoWriteLost`), and a delta that tells of a texture never overtakes the one before
(`InOrderOfIds`). On the raster thread: an image differs from the copy only where a flag still
says so (`UploadsOwed`), `cutShort` apart. The joining of regions is a lemma about
the least and greatest texel of a union.

The same module proves `GlyphsKeepTheirCells` of `GlyphAtlas`, for any glyphs, extents, padding,
size and number of pages. What makes it inductive is the geometry of shelves: a bitmap lies
with its padding above the shelf of its page that is being filled, or on it to the left of the
cursor (`Placed`), and no shelf reaches beyond the end of its page (`ShelvesFit`), so a new cell, which
begins at the cursor and is no higher than its shelf becomes, is apart from all others.

And it proves the promises of `TextFlow`, for any text, widths of glyphs, breaks, width of
a line and number of lines; with those of the atlas they are `TextIsWhole`. Three parts make the
scan's invariant: what `lineStart`, `lastBreak` and the glyphs scanned so far are to each other
(`Scanned`), how the last line pushed stands to the one that is scanned (`Follows`), and
what all pushed lines are (`Pushed`). `lastBreak` is not always within the line that is scanned, as
the comment of `text_layout.cpp:114` has it: it may be the space just before `lineStart`, which the
invariant allows (`lineStart - 1 <= lastBreak`) and which costs an empty line but no glyph. That a line
takes every word that fits follows from the overflow itself: the prefix sums only
grow, so a line that would hold the word would hold the glyph that overflowed. That the sums
exist, and grow, is proved by the least number for which it would fail (`LeastOf`, from the
library's `WFMin`), which takes the place of an induction.

**NavigationProofs.** `PagesAreShownAndRouted` and `WillsArePaired`, for any number of pages, steps,
nested calls and late ticks. The invariant `NavInv` describes the moment in the middle of a
call, when a callback of the application runs. Only the innermost call may stand there; those
below are in their last callback, and the end of a transition is the outermost of all
(`CallsNest`). Where the innermost one stands says what the routes have more or less than the
stack (`RoutesMatch`) and which pages had which Will (`CallIsAnnounced`); a transition is under
way only where its two pages were announced and no call is in the middle of another
(`MotionIsWhole`). While no tick outlived its transition, a tick belongs to the one under way
(`TicksBelong`), and every page is where it belongs and was told so (`PagesInPlace`, `PagesTold`).
One hypothesis is more than the assumption of the module: the callbacks that navigate in
their turn are last ones of a call (`Closing`), because from the DidEnter that restores a page
after a veto the property is false: that is the run `navigation_redirect`.

**RendererProofs.** `SlotIsQuiet`, `FenceIsAnswered`, `QueueIsOfChain` and `NothingLeftBehind`. A
queued draw has its fence unsignalled, a slot has at most one queued draw, the slot
in hand has none, and all of the queue belongs to the current swapchain (`IInv`). `HInv` adds
what is taken within a frame: an image is acquired, and a semaphore available, only where the
attempt that took it goes on to the submit that consumes it.

The same module proves `ImagesHoldWhatIsSampled` of `OffscreenPasses`, for any number of
frames, swapchains and backdrops. The invariant (`PassInv`) says, for each of the seventeen
commands that may come next, what the scene and the image that is about to be sampled show,
in which layout, and what may still be read: each block of a frame, from a marker to the
next, starts with the scene drawn up to its segment, and leaves it so.

**ShellProofs.** `ShellIsInStep`, with its parts, for the three platforms at once. The engine is
whole or not there after every event (`EngineInv`), it knows the size, the safe area
and the reader's switch the system told last, or it will when it starts (`KnowsTheSystem`), and its
fingers are those the application was told of (`Fingers`). That an id is always free for a new
finger is the pigeonhole of `FiniteSetTheorems`.

**GestureProofs.** `ArenaIsFair`, for any page, any number of fingers and of removals within an
event, and that the tables name only views that are there (`NothingNamesAGoneView`). The
invariant is about `todo`, the handlers on the stack. Callbacks put whole removals in front of
it, so it is always removals first and then the rest of one event (`Ordered`); a view is
destroyed only after its sessions were ended and its fingers cancelled (`SessionsSwept`,
`FingersSwept`), each finger ends one pan (`EndsDiffer`), a finger that drags into a session
is about to lose its pan (`DragsEnd`), what is undefined stands in front of what stays
undone (`GoWrongKeeps`), and each item is still right when its turn comes
(`ItemsFit`). The Begins without an End are then the fingers that drag and the Ends that
are waiting (`PansFit`). Steps that only lift fingers or make them do less (`Calmer`) keep all of
this by one lemma, and so does whatever is put in front (`FrontIsArena`).

Of scrolling views and buttons it proves `RestsInRange`, `FollowsTheFinger` and `PressedIsHeld`. A spring that may
still move the view aims into its range (`SpringsAim`), a drag has no animation beside it that
still counts (`DragIsAlone`), and what has stopped is in range or was cut short
(`StoppedInRange`). Only a button in the tree that is shown has fingers on it, only one that
answers is pressed, and what a long press abandoned has no finger on it (`BInv`).

**Only model-checked.**

- Liveness: `UiReachesScreen`, `NeverHangs`, `WhatBeginsEnds`, `ScreenComesToRest` and
  `TimersAndAnimationsEnd`. Fairness is out of the prover's reach.
- What recursion over data computes: `LayoutIsCurrentAndHit`, `ReadersAreCurrent`
  (`ViewLayout` and `InheritedTree` recurse over their trees), and `DrawnAsPainted`,
  `ObjectsLiveSoundly`, `ViewsAreOfSlots`, `SubscriptionsAreOfStates`, `OnlyShownHear` and
  `ReaderIsInStep`, whose models fold sequences; a proof would be by induction over them.

## Findings

- **A retry of an atlas page loses a region** (`texture_cache.cpp:331`, run
  `texture_retry`). The dirty region is consumed before the upload can fail; if
  another region is dirty by the retry, only that one is uploaded and
  `pendingUpload` is cleared, although the comment says that retries upload the
  whole texture. `PixelsArrive` of `gpu` leaves those pages out
  (`cutShort`) and holds for everything else.
- **A late tick answers for the next transition** (`navigation_stack.cpp:400`, run
  `navigation_late_tick`). A rotation lands a transition but not its tick; the tick's
  `finishPop` resets the flags of the push that is under way, whose pages never
  get their Did, against the contract of `widget_tree.h:114`.
  `PagesAreShownAndRouted` and `WillsArePaired` of `threads` are about behaviours in
  which no such tick ran.
- **A failed push takes back another page** (`navigation_stack.cpp:605`, run
  `navigation_redirect`), when the page restored by the veto pushes one.
- **Views leave the order of their slots** (`render_view.cpp:353`, run
  `widget_order`): a child that is replaced or refilled is appended behind its later
  siblings, and `Flex` and `Stack` lay out in the order of the views.
- **A replaced view loses its actions** (`semantics.cpp:178`, run `semantics_stale`): a
  view that looks like the one it replaces changes nothing in the tree, so the diff keeps
  the references of the frame before, and what the reader is offered reaches nothing until
  something else changes. `ReaderIsInStep` of `views` asks for the answers of frames
  that sent an update, as far as merging allows.
- **A tap stops a rebound for good** (`scroll_control.cpp:163`, run
  `scroll_overscroll`): Down stops the spring and only the End of a pan starts one, so a
  list let go without a drag stays beyond its end. `RestsInRange` of `gestures`
  leaves this case out, and with it the second one of `cut`: the stopped animation that a
  new one sets going again before its frame.
- **Overflowing spaces leave an empty line** (`text_layout.cpp:118`, run `text_lines`),
  before a newline and where several spaces stand at a break.

Six comments that the models contradict have a definition of that name but no run of
their own; TLC finds each violated when it is checked on its module alone:

- `RebuildKeepsPress` (`ButtonPress`; `button_control.cpp:22`): a rebuild does break off a
  press, because
  `updateButtonView` clears `pressed` whatever the new widget says.
- `EveryPressIsHeld` (`ButtonPress`; `button_control.cpp:15`): the comment ends a press by a
  Move out, an Up or a Cancel, and a long press gives the button none of them.
- `MergedActionsAreAnswered` (`Semantics`; `semantics.h:8`): the actions of a node are
  said to be performable, but those of all absorbed leaves are merged
  (`semantics.cpp:297`) and routed to the first leaf only (`:298`).
- `NewSurfaceIsTold` (`Semantics`; `SemanticsA11yBridge.java:85`): the copy emptied for a
  new surface is filled again only when the tree differs from that of the old one, because
  the owner lives on.
- `BarriersNameTheLayout` (`OffscreenPasses`; `vulkan_renderer.cpp:883`): after a frame
  whose backdrops are all off the screen, the blur's images have never left the
  undefined layout, and the barriers of the next frame name another.
- `DeviceIsLast` (`GpuObjects`; `vulkan_context.cpp:107`): shader modules outlive the
  device.

## What is not modelled

Geometry beyond small integers, colours, shaping, fonts and their fallback, rasterisation
of glyphs and curves, image decoding, formats, sizes and present modes of Vulkan, and
everything whose result is only pixels; what the application does with a back press
and the contents of the key-value store; widgets that only copy their fields to a view;
the pages of `samples/`, build scripts and third-party code. `PROJECT.json` lists each
component with its reason. Within the modelled parts:

- `Compositor`: `Renderer::render` is its result; a resize between two surfaces is
  a new surface of another size.
- `Renderer`: separate present queues; recording is `Painting` and `OffscreenPasses`.
- `OffscreenPasses`: with multisampling every segment loads a multisampled image of the scene
  and resolves it into the image that is sampled (`offscreen_effects.cpp:41`). The model has
  one image for the two, so that what the load of a later segment sees is not asked.
- `Painting`: curves and their flattening, image and glyph geometry; a view has one
  rounded clip or none. A frame with blurs is recorded as it is seen and turned as a
  whole by its last blit, which is a single step of Vulkan.
- `Navigation`: bar and chrome; pages are opaque; `clear` and a pop without
  animation from inside a callback.
- `PointerInput`: positions, velocities, span and angle of a session, so the Update
  events; where a child or a session stands in its list; an event removes at most two views.
- `ScrollControl`: velocities are one unit; the rubber band shows half.
- `WidgetTree`: deeper trees; the loss of an `Expanded` factor when a nested State
  replaces its root, and listeners that die with a replaced root view, are behaviours
  of the model but not the subject of a run.
- `InheritedTree`: a chain, no branches; builds are pure.
- `Semantics`: two levels of views, no bounds; actions that the application writes into
  `semantics->actions` itself (`semantics.cpp:216`), which no widget does; the scroll actions, whose effect is
  in `ScrollControl`; the nodes of iOS
  and HarmonyOS are built by bridge code without state of its own.
- `Shell`: one axis; the conversion of points to pixels; a frame is drawn when it is begun
  (what happens to it is `Compositor`).

## Plan

Done: all modules above and the eight proof modules. What is left is proofs:

1. `GpuObjects`, `Painting`, `WidgetTree` and `Semantics`, once the lemmas on folds and on
   flattened sequences that they need are proved by least counterexample, as those on
   the prefix sums of `TextFlow` are.
2. `ViewLayout` and `InheritedTree`, whose recursive operators would have to become functions on
   the tree.

To run a check: `tlc -config MCThreads.cfg MCThreads`; to check the proofs:
`tlapm FramePipelineProofs.tla`. `NavigationProofs`, `TextureUploadProofs` and `GestureProofs` take some minutes each.
