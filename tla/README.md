# TLA+ specifications of 12to11

12to11 runs Wayland clients on an X server: it is a Wayland compositor whose
windows are X windows and whose input, selections and frame timing come from
the X server and the X window manager.  It is one single-threaded process; what
makes it hard is that every request, event, timer and presentation notification
is a callback that finds the state some other callback left, and that most of
its work is a conversation of three parties (client, X server, window manager)
none of which waits for the others.

The specifications are written from the C sources.  `PROJECT.json` maps every
definition to the lines it models, lists the runs, and names for every checked
property a deliberate bug (an operator `Wrong...`) that makes it fail.

## The system

| Part | State it keeps | Operations | Talks to |
|---|---|---|---|
| Frame clock (`frame_clock.c`) | counter values, `in_frame`, freeze and request fields, end-of-frame timer | StartFrame, EndFrame, sync requests, FRAME_DRAWN, configures, timers | window manager through the sync counter; sync helper through callbacks |
| Sync helper (`sync_source.c`) | frame flags, wanted kind of synchronization, times of the two clocks | update, frame notifications, freeze, resize | clock, subcompositor, xdg_surface |
| Subcompositor (`subcompositor.c`) | tree of views, damage, bounds, keys of pending notifications | update, composite, expose, tree changes | renderer, sync helper |
| Renderer (`renderer.c`, `picture_renderer.c`, `egl.c`) | targets with back buffers and ages, buffers, idle and presentation records | composite, swap, present, release | X server |
| Surfaces (`surface.c`, `subsurface.c`, `region.c`) | pending, cached and current state; roles | commit, subsurface sync and order | subcompositor, roles |
| Buffers (`buffer.c`, `shm.c`, `dmabuf.c`, `single_pixel_buffer.c`, `buffer_release.c`) | references, pools, release records | create, destroy, release | renderer, surfaces |
| Explicit synchronization (`explicit_synchronization.c`, `fence_ring.c`) | acquire fences, releases; a ring of fences | commit, release | surfaces, renderer |
| xdg_surface role (`xdg_surface.c`) | configure and commit flags, geometry, releases | commit, ack, resize | sync helper, toplevel and popup |
| xdg_toplevel role (`xdg_toplevel.c`) | configure state, window manager state, interactive resize | map, unmap, configure, X events | window manager |
| xdg_popup role and positioner (`xdg_popup.c`, `positioner.c`) | parent, grab, position | map, grab, dismiss | seat |
| Seats (`seat.c`, `keyboard_shortcuts_inhibit.c`, `relative_pointer.c`, `pointer_gestures.c`) | devices, focus, grabs, pressed keys and buttons, serials | input events, grabs, device changes | everything with input |
| Pointer constraints (`pointer_constraints.c`) | constraints and their status | lock, confine, focus and region changes | seat |
| Selections (`select.c`, `xdata.c`, `data_device.c`, `primary_selection.c`) | owners, conversions in progress, offers | own, convert, INCR transfer | X clients, Wayland clients |
| Drag and drop (`dnd.c`, `icon_surface.c`) | the drag from X, the drag to X | XDND messages | seat, selections |
| Text input (`text_input.c`) | enabled state, serials, input context | commit, key filtering, preedit | XIM server, seat |
| Outputs (`output.c`, `transform.c`) | list of outputs | RandR rescans | surfaces |
| DRM leases (`drm_lease.c`) | lessors, requests, leases | request, revoke | X server |
| Activation, idle inhibition, processes (`xdg_activation.c`, `idle_inhibit.c`, `process.c`) | tokens; inhibitors; a queue of commands | small state machines | seat |
| Event loop (`run.c`, `timer.c`, `time.c`, `fns.c`) | ordered timers, poll descriptors | add, retime, remove, dispatch | all |
| X errors (`xerror.c`) | clients to disconnect | error handler | all |

`tests/` and `test.c` are a debugging protocol and its programs; `atoms.c`,
`alloc.c`, `xsettings.c`, `ewmh.c`, `12to11.c`, `compositor.c` and `xdg_wm.c`
are tables, wrappers and start-up code.

### How the frame of a window works

A toplevel shares a counter with the window manager
(`_NET_WM_SYNC_REQUEST_COUNTER`).  An odd value says that a frame is being
drawn, an even one that it is complete, and the window manager answers each
even value with `_NET_WM_FRAME_DRAWN` once the compositor has shown it.  To
resize the window the window manager sends `_NET_WM_SYNC_REQUEST` with the value
it wants to see when the resized contents are there, and then a
`ConfigureNotify`.  The frame clock keeps this counter.  The sync helper starts
a clock frame around each update of the subcompositor and refuses updates while
the compositor reads the last one, freezing the clock between the sync request
and the commit with which the client answers the configure event.  The
subcompositor draws what is damaged and asks the renderer for a notification;
the notification ends the frame.  A frame may instead be presented
asynchronously (tearing), outside of the clock.  With desynchronous subsurfaces
the clock predicts the next refresh and leaves a frame open for a while with a
timer, so that several updates fall into it.

### What is hard here, and what makes each part correct

* *Clock and sync helper*: frames are opened by one callback and closed by
  another, or a timer; requests of the window manager come anywhere between.
  The counter must follow its protocol; no request may be lost; an assertion in
  `sync_source.c` says a frame may always be started when it is; every frame
  must be ended and every frame callback run.
* *xdg_surface and xdg_toplevel*: configure events, acknowledgements and
  commits are three steps, possibly batched, dropped or reordered with the
  events of the X server.  No contents of an old size may be shown while an
  acknowledgement is awaited, and nothing may be awaited that will not come.
* *Subcompositor and renderer*: contents of a back buffer are one, two or more
  frames old; what is presented must never be older than what was committed.
* *Surfaces*: state set, committed, cached and applied at different times; the
  cache of a synchronized subsurface must be applied exactly once.
* *Buffers*: several holders of one buffer and asynchronous idle events; a
  buffer is released once, after its last reader, and not before.
* *Seats, constraints, text input*: focus changes, device removal and object
  destruction in any order relative to the grabs and serials that name them.
* *Selections and drags*: transfers between two asynchronous parties either of
  which may vanish; the transfer must end, once.
* *Event loop*: timers removed or re-added by their own callbacks.

`PROJECT.json` lists the hazards at their lines, with the properties that are
about them.

## Runs

| Run | Modules | Asks |
|---|---|---|
| xdg_resize, xdg_live | `XdgSync` with `FrameClock` | the frame of a window, safety and liveness |
| surface_commit | `MCSurface`: `Surface` against `AtomicSurfaces` | commits of a tree of surfaces |
| drawing | `MCDrawing`: `BackBuffers`, `Stacking` | fences and swaps; the tree of views |
| services | `MCServices`: `FrameClock`, `BackBuffers`, `SelectionOwner`, `SelectionReader`, `Drag`, `DndTarget`, `WindowCache` | one component at a time |
| input | `MCInput`: `Pointer`, `PointerConstraints`, `Popup`, `TextInput`, and samples for `Positioner`, `ImText`, `Barriers` | one component at a time |
| xdg_scheduled, back_flip, surface_merge, stacking_lookup, selection_chunks, text_keys | one component each | a comment in the code that the code does not keep |

Components that do not interact share a run: the module extends or instantiates
them, and its initial state chooses the one that takes steps (`active`), so that
their state spaces add up and do not multiply. A property of such a run is the one
of the component, where it is the active one.

Proved are results about `FrameClock`, `XdgSync`, `Surface` (with its refinement of
`AtomicSurfaces`), `BackBuffers`, `Rings`, `Drag` and `DndTarget`; all else is
model-checked only, within the bounds each section names. Liveness under fairness,
ENABLED, and what RECURSIVE operators compute are outside of what the prover does.
Where a property holds only without some behaviour of the code, a constant switches
that behaviour off; the section names it, with what fails when it is on, and the
theorem has it as its hypothesis.

## Modules

### Conventions

State of C structures is kept in records whose fields have the names of the
structure's.  A function of the source that other functions call is an operator
from a state to a state, so that a step of the event loop, which runs many of
them, is one action built from these operators in the order of the calls.  The
environment (clients, X server, window manager, user) is nondeterministic: its
moves are actions of the same module, and what it decides during a step is an
argument quantified in the action (`StepChoices`).  Operators named `Wrong...`
are deliberate bugs and belong to no specification.

### `ClockFunctions`, `FrameClock`, `SyncCounter`, `ClockLemmas`, `FrameClockProofs` (frame_clock.c)

`clock` is `struct _FrameClock` together with the value of its counter in the X
server.  The entry points StartFrame, EndFrame, HandleEndFrame (the timer), the
sync request and `_NET_WM_FRAME_DRAWN` parts of XLFrameClockHandleFrameEvent,
NoteConfigure, SetPredictRefresh and NoteFakeFrame are operators and, in the
module's own `Next`, actions that may come in any order: the operators are in
`ClockFunctions`, that XdgSync extends too, and the lemmas about them in
`ClockLemmas`, that the proofs about both use.  Presentation times
matter only for whether the timer of an early frame can be armed, so that is a
choice.  `SyncCounter` is what the compositing manager is promised: the counter
grows and alternates between odd (drawing) and even (complete).

| Run | Shows | Instance |
|---|---|---|
| services | freezing for values already shown, the inductive invariant (parity, timers, lost requests, types), refinement of SyncCounter | with and without a compositing manager; odd, old and aligned requests; prediction on and off |

Two deviations from the comments in the code are left out of the run by its
choice of `SyncValues` and can be reproduced by adding 2, 6 and 10 to it.  A
request 2 (mod 4) while an end-of-frame timer is pending breaks
`FrozenForCurrentValue`: FreezeForValue tests "said value is now out of date"
before it ends the pending frame, which moves the counter past the request.  And
a frame that starts from such a value becomes 3 (mod 4), although the comment in
StartFrame reserves that remainder for urgent frames.  mutter and kwin ask for
multiples of four.

`MaxFrameId` bounds the counter.  The code is periodic in the counter modulo 4
and compares it only with requests and with itself, so a dozen values hold
several whole rounds of frame, freeze and resize.  `urgent` is False in every
call in the source, BumpFrame excepted, and so it is here.  The environment
variable DEBUG_REFRESH_PREDICTION only prints.

Proved for every set of requests and every bound: `ConsistentClock` is
inductive (`ClockConsistent`); from it follow the types, the parity, and that timers
and postponed requests have an open frame (`TimerInOpenFrame`,
`PostponedRequestHasFrame`, `FrozenClockIsIdle`: conjuncts of `ConsistentClock`, so
that the run does not list them).  The parity alone is not inductive: whether a step
leaves the counter odd depends on the finished frame's number, the timer that
may still close the frame, and the evenness of every value a frame may start
from, and these are the other conjuncts.  `ClockFresh` and
`ClockImplementsCounter` assume that requests are multiples of four
(`AlignedRequests`), as they need to.  The second is the
refinement theorem: every step of the clock is a step or a stutter of SyncCounter.

### `XdgSync`, `XdgSyncProofs` (sync_source.c, xdg_surface.c, xdg_toplevel.c, frames of subcompositor.c)

One window `w` is the clock, the flags of `struct _SyncHelper`, the frame keys
and damage of the subcompositor, the state of the xdg_surface and xdg_toplevel
roles and the X events in flight, and `reported` is what the window manager has
answered.  It uses the operators of ClockFunctions; a commit, an acknowledgement,
an X event, a timer or a presentation notification is one action that runs them
with everything they cause: a commit that completes a resize goes through
Commit of the toplevel role, Commit of xdg_surface, the sync helper's update,
NoteFrame, StartFrame, the composite, and the frame's end.  Sizes are reduced
to "differs from the window's", regions to "something is damaged".

| Run | Shows | Instance |
|---|---|---|
| xdg_resize | nothing is drawn before the awaited acknowledgement, which can always come; the commit that follows unfreezes the clock; the assertion on StartFrame; every frame of the clock will be ended | window manager and built-in interactive resizes, batched configures, desynchronous subsurfaces (so prediction) |
| xdg_live | a frame has a notification to wait for and is not forgotten; frame callbacks are always run | with and without a compositing manager, unmapping, synchronized and tearing presentation |
| xdg_scheduled | violation: an update scheduled in a frame is dropped though no configure event will follow | |

Three more deviations were met and are outside of the runs.  With tearing hints,
`CommitUnfreezes` fails: a commit that finds an asynchronous frame in progress
does not complete the resize (NoteFrame breaks at sync_source.c:289 before it
looks at FrameResize).  With `Exposures = {"view", "border"}`,
`FrameNotified` fails: an Expose that meets no view cancels the
notification of the frame in progress.  And a ConfigureNotify of the same size
"unfreezes the frame clock" (xdg_toplevel.c:1541) only in the role: the clock
stays frozen until the client commits again.

Bounds: inputs stop once the counter exceeds 4, so that three frames or bumps
fit, and three X events may be in flight (two in xdg_live).  Three events hold a
sync request, its ConfigureNotify and either a FRAME_DRAWN or the answer to a
resize of the translator's own, which is the longest conversation that the code
distinguishes; the bound is a guard on inputs only, so nothing that was begun is
cut short.  The runs of `AckPossible` exclude unmapping: a freeze whose
ConfigureNotify arrives after the unmap leaves `wait_ack` set, and the next
initial commit clears it.  Fairness (`Fairness`) is weak fairness of what the
event loop does (it handles every event, timer and notification in turn) and of
the X server and window manager answering; nothing is assumed of the client or
the user, so `CallbacksRun` holds even for a client that never acknowledges.

Proved in `XdgSyncProofs`, for every bound, every set of requests and every set of
commits, exposures and hints that the theorem does not restrict:

| Theorem | Property | Hypothesis, and what happens without it |
|---|---|---|
| TypeCorrect | TypeOK | |
| NeverAborts | NoAbort | |
| OpenFramesEnd | OpenFrameWillEnd | |
| FramesNotified | FrameNotified | an Expose uncovers a view: one that uncovers the border only cancels the notification of the frame in progress |
| Acknowledgeable | AckPossible | no commit without a buffer: an unmap while a sync request is on its way leaves `wait_ack` set |
| Unacknowledged | NoFrameWhileUnacked | |
| CommitsUnfreeze | CommitUnfreezes | no tearing: NoteFrame ignores the resize of an asynchronous frame |

No property is inductive alone.  That StartFrame finds no frame in progress
(`NoAbort`) rests on what the flags of the helper say of the clock.  `FramesSound`
says it, of every window between two calls: the clock is `ConsistentClock`; a
frame is drawn (and not asynchronous) exactly while the clock has one that was not
ended; who is synchronized uses the clock; a pending update is synchronized and waits
for no commit; an awaited acknowledgement is followed by an awaited commit.
`Steady` adds that a started frame is displayed, which fails inside of callbacks; so
each operator (the commit of a role, NoteFrame, the composite, the end of a
frame) has a lemma with the part that holds where it is called, and an action
is the composition of these.  `AckSound` follows the configure events on
their way: one will come for every sync request, and who waits for an
acknowledgement has sent, or will send, the event it answers.  `CallbacksRun` is
liveness and stays with the run xdg_live.

### `BackBuffers`, `DrawingProofs` (picture_renderer.c, damage of subcompositor.c)

`target` is the render target: two back buffers with busy and sync flags, age,
idle serial and (of the server) the state of the fence, the current buffer and
`just_presented`.  `views` and `prior` are the subcompositor's damage: of the
views, the additional damage of unmapped views, the garbage flags, and the ring
of the last two updates.  `screen` is what the user sees.  Contents are not
modelled as values but as sets of parts that are *stale*, i.e. differ from what
the views show now; each commit makes its parts stale everywhere, drawing and
presenting make them current.  So "the window is up to date" is a statement
about one state, and no bound on the number of commits is needed: the state
space is finite.  Ages above 2 are all "too old", so ages stop at 4.

| Run | Shows | Instance |
|---|---|---|
| services | no committed contents are forgotten, with back buffers of any age and direct presentation | the server copies; covered window; no Expose |
| drawing | flags, serials and fences agree; a buffer is never drawn to while it is read; no fence is awaited in vain | background frames, Expose, an age from malloc (services has all) |
| back_flip | violation: a redraw is not recorded as previous damage | the server flips |

The run leaves out three things that break `WindowCurrent`, each of them one
constant of its configuration.  An Expose event draws its rectangle and clears
the damage of all views, also that of an update still waiting for its frame
(`Exposures`); a frame that shows only background is drawn and not swapped
(`Uncovering`); a server that flips shows what a back buffer missed of a redraw
(`Flips`, which is run back_flip).  drawing looks at the state modulo the
stale sets (`WithoutContents` in `MCDrawing`), which no guard reads.

Two parts suffice: the code treats the points of a region alike, and the
properties relate one point with the rest (damaged or not, exposed or not).

Proved for every set of parts: `StateOK` (types and `TargetOK`) is inductive;
every operator, from creating a buffer to a whole update, has a lemma that it
preserves it.  `PickedNotBusy`, `FenceWillTrigger` and `NotReadWhenDrawn` follow
from `TargetOK`, none is inductive alone: that a picked buffer is free rests on
at most one buffer being busy, which rests on how a swap ages the other one.
`CopyKeepsCurrent` proves `WindowCurrent` under exactly the three assumptions
that are needed (a copying server, no uncovering, no Expose).

The model leaves out the variant SwapBackBuffersWithCopy for targets without
`note_frame`, a failing SetRenderMode (EGL only), and the
simplification of complicated damage (IsDamageComplicated), which only enlarges
regions.

### `Surface`, `AtomicSurfaces`, `MCSurface`, `SurfaceLemmas`, `SurfaceProofs` (surface.c, subsurface.c, buffer_release.c)

`surface[s]` is `struct _Surface` together with its `struct _Subsurface`: the
three states, the tree (`parent`, and `children` in the order of the commit
callbacks) and the flags of synchronization.  A commit applies several surfaces
in one step of the event loop; `CommitOrder` is the order in which InternalCommit
and AfterParentCommit recurse (merge the surface, then insert and commit each
subsurface, then the role), and `InternalCommit` folds that sequence over the
state, because the role of a desynchronized surface may draw the window in the
middle.  `draw` is the frame clock's consent to draw at once: what XdgSync
decides is a choice here.  Of the contents a State carries only the buffer is
kept; regions, scale, viewport, damage and frame callbacks are moved by the same
flags in the same places.

`AtomicSurfaces` is the promise to the client: what is committed, what is shown,
and a declarative definition of which surfaces are synchronized and what is
applied together.  `Promised` maps the state of Surface to it.

| Run | Shows | Instance |
|---|---|---|
| surface_commit | the tree implements `AtomicSurfaces`; the synchronous flags agree with the definition; every frame drawn is a whole update, but for the case of `DrawsTooEarly`; no buffer is lost, none is released while shown or cached | two shapes: a chain of three surfaces, one with two buffers, roles given up to twice, surfaces destroyed; and two subsurfaces of a subsurface, with six commits and set_desync requests (`ChainRoles`, `MaxRoles`, `MaxRequests`) |
| surface_merge | violation: a merged cached state keeps its flags, and the contents vanish | the chain, commits without an attach |

Three surfaces are the least for which a synchronized subsurface has a
synchronized child, and so for a set_desync that leaves cached state behind; two
buffers are what a client needs to replace one that is displayed.  Four, two of
them siblings, are the least in which a commit goes on to another subsurface after
a role drew the window; six requests give the siblings contents, leave one of them
with cached state behind, and commit what is above.  The violation needs a commit without an attached buffer, which surface_commit leaves
out (`AttachAlways`).

More deviations are in the model, excluded by constants or named by a definition.

* The parent of two subsurfaces becomes desynchronized while one of them has cached
  state.  NoteSubsurfaceDesynchronous (subsurface.c) leaves that state alone on
  purpose, to "avoid applying their pending state", and the next commit of the parent
  applies it: the first subsurface is now desynchronized and draws the window at once
  (subsurface.c:746), before the state of the second is applied or the second is
  inserted, and the frame shows part of an update.  `DrawsTooEarly` is exactly this
  state of two siblings.  `AtomicScreen` excepts a step from it and holds for all
  others; `AtomicScreenAlways`, without the exception, fails in the instance of
  surface_commit after 14 steps.  It is checked by hand, since the promise to the
  client of what is *shown* is nowhere written down.
* With `Destroys = {"applied", "cached"}`, `BuffersAccounted` fails: Teardown
  keeps the cached state; its buffer is released when something else is
  displayed, and again by the first commit of a later role, at a time when the
  client may have attached it anew ("releasing it is a mistake!", surface.c:896).
* With `DetachedDesync`, `crashed` becomes true: IsParentSynchronous
  dereferences the role of a parent that has `role_type` SubsurfaceType and no
  role any more, a case that CheckSiblingRelationship knows (subsurface.c:156).
* `BuffersAccounted` is about living surfaces: HandleSurfaceDestroy dereferences
  the buffers of a surface without releasing them, so that a client that waits
  for them, to use them elsewhere, waits for ever.

The picture renderer never lets go of a buffer early, so TryEarlyRelease and the
flag BufferAlreadyReleased have no effect and are left out.  One buffer is never
given to two surfaces; the protocol leaves its release undefined then.

Proved, for every set of surfaces and buffers and every sequence of requests:

| Theorem | Property | Hypothesis, and what happens without it |
|---|---|---|
| TypeCorrect | TypeOK | |
| SynchronizedUntilCrash | | says of the flags what AlwaysSynchronized does, until the crash |
| AlwaysSynchronized | SyncConsistent | no `DetachedDesync`: else the process is gone |
| BuffersAlwaysAccounted | BuffersAccounted | `Destroys` within {"applied"}: the cache that Teardown leaves |
| CommitsAtomic | AtomicCommits | no `DetachedDesync`; `AttachAlways`: the merged cache of run surface_merge |

*Trees.*  `TreeSound` is inductive: lists and parents agree and name each surface
once (`Listed`), the parents are without cycle (`Forest`: some rank grows along them),
and each flag is its definition applied to the flags of the parent
(`Synchronized`).  The rank replaces the recursion that the prover cannot follow:
`Reaches` lemmas show that the surfaces SetSync1 visits are exactly the ones whose flag
the definition changes.

*Commits.*  `BuffersSound` must say what holds in the middle of a commit, when
half of a tree is merged and the other half waits.  `CommitOrder` lists the events of
that commit, each of them once, so the fold over it has an invariant that
depends on what is already done (`States`, `Kept`, `Held`): a surface not yet
merged holds its old buffers, a merged one its new ones, and the difference is
released, or waits for the frame that shows it.

*Refinement.*  `AtomicSurfaces` defines what is synchronized, and what a commit
applies, by functions recursive in the parent.  `SynchronizedIs` and `AppliedWithIs`
show by induction on the rank (`ParentInduction`) that each has one solution, and
that the flags and the set `Applied` are it.  `CommitApplies` then says that the
fold sets the contents of exactly these surfaces, in whatever order the code visits
them, and one lemma per action that it is a step of the promise or stutters
(`NextPromised`).  The invariant needs one part more: only a surface with the role
of a subsurface waits for its parent (`OnlyRolesWait`).

`AtomicScreen` is checked only.

### `Stacking`, `Rings`, `MCStacking` (subcompositor.c, subsurface.c)

`Rings` has the circular lists of subcompositor.c as functions `next` and `last`
on a set of nodes, and one operator per list function.  `Stacking` is the view
hierarchy on top of it.  `tree` holds the fields of all `struct _View`s: the flat
`list` of a window, `parent`, `children` (sequences here), the `inferior` pointer
to the last descendant, `subcompositor`, and the flags that decide what is drawn.
`surface` holds what surface.c and subsurface.c know of the same tree: parents,
whether a subsurface is pending, its cached commit, and the stacking requests
recorded on a parent.  Each request of a client is one action, with everything
that its handler does: a commit attaches pending subsurfaces, applies their
cached commits recursively, carries out the recorded requests and then lets the
role map or unmap the views; the end of a surface tears its role down, orphans
its subsurfaces and forgets the requests that name it.

The run asks whether the two descriptions agree (`TreeConsistent`): the list must
be the preorder of the tree, for windows and for trees that were taken out of one,
every `inferior` pointer must be exact, a view has a subcompositor exactly while
the chain of its parents reaches a window, and a commit must leave the subsurfaces
in the order that the requests, folded over the old order, describe
(`CommitPlaces`; the fold knows nothing of views).

| Run | Shows | Instance |
|---|---|---|
| drawing | the above, and that a commit shows or hides a whole subtree | a root and two subsurfaces of it or of each other, one of which is restacked, two requests between commits; all are destroyed; 200k states |
| stacking_lookup | violation: `SubcompositorLookupView` goes round for ever | the same without requests and destruction |

Two subsurfaces give both shapes of a tree, siblings and a chain, and a chain is
what inferior pointers need to be wrong in two places.  Two requests are the
least that have an order.  With both subsurfaces restacked (`Movers = {a, b}`)
the model has 680k states and the same result; the run restacks one to be short.
`MCDrawing` runs this module and `BackBuffers` one at a time: its initial state
chooses the one that takes steps.

Five more deviations were met, and have no run of their own.

* place_above with the parent as reference uses `ViewInsert`, which puts the
  subsurface above all others, though the comment at subsurface.c:216 says
  "beginning" and the protocol says just above.  `CommitPlacesAll` fails.
* With `SelfPlacement`, a subsurface placed next to itself is linked behind its
  own view, outside of the list of the window: `TreeConsistent` fails and, one
  request later, the pointers of the list contradict each other (`TypeOK`).
* With `OrphanRequests`, `crashed` becomes true: two subsurfaces of a destroyed
  parent pass CheckSiblingRelationship, since both parents are NULL, and
  AddSurfaceAction uses it.
* A subsurface that enters a window without a commit of its own is not unmapped,
  though it has no buffer; subsurfaces below it that were committed before are
  shown.
* The role's commit does nothing outside of a window.  A subsurface that was
  unmapped and gets a buffer while its root has no role comes back with its
  `under` view unmapped, and the subsurfaces below it stay hidden until it
  commits again.

Left out: the requests of a subsurface whose surface is gone (RunOneSurfaceAction
ignores them, as long as the subsurface itself exists).

### `SelectionOwner`, `MCSelectionOwner`, `MCServices` (select.c, xdata.c)

The translator owns an X selection on behalf of a Wayland client, and other X
clients ask for it.  `owner` holds the lists of transfers and of queued
requests, the reference counts of the windows whose events are selected, and of
each MULTIPLE request how many conversions it waits for.  A transfer reads from
the pipe of the Wayland client into a buffer; data that fits is written to the
property of the requestor at once, longer data as an INCR property and then one
chunk for each deletion of the property.  The requestors (`SendRequest`,
`ReadProperty`) and the X events in flight are the environment.  Bytes are
counted, not modelled: `Length` units do not fit in the buffer of `Size`.  What
read and iconv return, whether pipe2 fails and when a timer fires are choices.
Functions that end transfers and drain the queue call each other; the folds over
the queue and over the transfers follow the order of the lists.

| Run | Shows | Instance |
|---|---|---|
| services | no assertion fails and references are counted (`TransfersCounted`); the queue is served and in order, no request is answered twice or forgotten (`RequestsServed`); no chunk is overwritten unread as long as deletions arrive for the transfer that waits (`DataIntact`) | one window, two properties, a plain target and TARGETS, MULTIPLE for UTF-8 and Latin-1; three requests; requestors that reuse a property early; ownership lost, timers, pipe failures |
| selection_chunks | violation: two transfers continue on the deletion of either property | one MULTIPLE request of a patient client, nothing fails |

Three units in a buffer of two need an INCR property, a full chunk and a rest;
three requests are one in progress, one queued, and one that overtakes or is
queued again; three conversions are a MULTIPLE request and a plain one, which meet in the
property of the first pair.  Two X
events in flight let a request cross a deletion.  One window makes
FindQueuedTransfer answer by its first disjunct; with two windows,
and without timers and failures, the same properties hold.

`MCServices` runs this module, `FrameClock`, `BackBuffers`, `SelectionReader`,
`Drag`, `DndTarget` and `WindowCache` one at a time: its initial state chooses the
one that takes steps.

More deviations, without a run of their own.

* ConvertSelectionMultiple reads `atoms[0]` and `atoms[1]` where it means the
  i-th pair: a first target that cannot be converted fails all pairs, and a
  second one that cannot be (`Multiples = {<<"text", "unknown">>}`) reaches
  abort() in GetClipboardCallback (`NoAbort`).  Only the first property is
  searched for transfers in progress.
* "A timer that times out after 5 seconds of inactivity" (select.c:180) is set
  once and never renewed: it ends any transfer that takes longer, and `late`
  excepts these from `Intact`.  If nothing was written before, the SelectionNotify
  is never sent; `RequestsServed` excepts them.
* A MULTIPLE request whose pairs cannot be read is never answered, and TARGETS
  leaves out the last target (select.c:1141 counts two of three additions).

Deletions of properties on other windows (the root window, the window the
translator reads selections with) reach HandlePropertyDelete too; in the model
every deletion is by a requestor.  Timestamps, and windows that are destroyed
while a transfer is in progress (its timer ends it), are abstracted.

### `SelectionReader` (select.c, xdata.c)

The other end of a transfer: the translator reads an X selection for a Wayland
client.  `transfers` are the ReadTransfers with their TransferInfo, `chain` their
list, `freeAtoms` and `atomCount` the property atoms that are given out again.
The X owner (`Answer`, `OwnerContinues`) writes the data in one property or in
INCR chunks, or refuses; the client (`HangUp`, and how much a pipe takes) reads
them.  Data are numbered units that say whose they are, so that a unit of another
transfer is seen.  One property (`got`) therefore shows both that data arrive
whole and in order and that they do not arrive at the wrong client.

| Run | Shows | Instance |
|---|---|---|
| services | a client gets its own data, in order and, if the transfer ends well, all of it; what waits is woken, what is gone holds no descriptor; live transfers have different atoms (`TransfersSound`) | two readers at once, one of them by conversion; three units in chunks of two; refusals, timers, pipes that take any part of a chunk or close |

The run looks at troubles one at a time: once a transfer failed, the next begins
when everything of it is over, and a timer or a closed pipe meets no other
transfer.  Without this (`Overlap`), `OwnDataOnly` fails.  When a client
closes its end, the descriptor is closed, but the callback that writes stays; the
next transfer gets the same descriptor, and the rest of the first is written to it.
An atom, too, is given out again as soon as its transfer ends, though the owner may
still write to the property.  And `TimesOutWhenIdle` fails: the timer
"of 5 seconds of inactivity" (select.c:133) is set once, and ends a transfer whose
owner has just written a chunk.

### `Drag`, `DragProofs`, `DndTarget`, `DndTargetProofs`, `WindowCache` (dnd.c, data_device.c, seat.c)

`Drag` is a drag that a Wayland client starts.  `seat` is what seat.c keeps of it,
`drag` is `drag_state`, `finish` the five variables `finish_*` of dnd.c and their
timers, `device` and `offers` the state of data_device.c.  The user moves the
pointer into Wayland surfaces, toplevels of X clients and nothing, presses Shift,
and drops; the clients of the surfaces accept, set actions and finish, also late;
an X target answers positions and the drop.  Every action calls the handlers as
the seat does, on a state that is passed through them.

`DndTarget` is the reverse: an X client drags over a toplevel with several
surfaces.  `dnd` is `dnd_state`, `requests` and `replies` are the XDND messages
in flight, `source` is the X client.  `WindowCache` is the tree of X windows that
a drag is directed with, with its circular lists as `next` and `last`; `server`
is the true tree, which changes while `xqueue` holds the events about it.

| Run | Shows | Instance |
|---|---|---|
| services, drag | `DragSound`: every drop outside is watched by one timer and one callback that both belong to it; nothing of a drag that is over remains; offer and source agree on the action; a source is not told of both outcomes; a target hears of positions and drops between enter and leave | one surface, one X target, two drags, two motions or changes of Shift; owning the selection may fail |
| services, target | `TargetAnswers`: a position and a drop are answered, or something is on its way that will; success is reported only if a client said so; old offers are not taken for new ones | two surfaces, one of whose clients cannot finish; two drags of three positions; the seat, the toplevel and the surface may go |
| services, cache | `CacheCurrent`: with all events handled the cache is the tree of the server, and finds the toplevel under the pointer | three windows, three changes of any kind |

Two drags are what it takes for one to meet what the other left, two motions to
enter a target and go to another place in it or leave it.  Three positions
enter a surface, another one, and return; three changes of a tree create a window,
restack it, and destroy it while the events of the first are unread.

What the runs leave out, each with what it breaks:

* `Overlap`: a drag that begins while the last one waits for XdndFinished moves
  nothing (XLDoDragMotion returns while there is a `finish_source`), and the
  selection and the entered window of the first are still there
  (`NothingLeftBehind`).
* `SourcesDie`: if the client of a drag dies, CancelDrag finds no source and does
  not call XLDoDragFinish (seat.c:5758): the target is never left.  The order in
  that function also means that its "If nothing was dropped, emit the cancelled
  event" never does.
* `LateAnswers`: an XdndFinished that comes after the timer is taken for that of
  the next drop, whose source is told of two outcomes (`OneOutcome`).
* A change of Shift after the drop sends a position to the target
  (`NoPositionAfterDrop`), where dnd.c:2526 means not to.
* HandleXdndFinished asks for bit 0 of `data.l[0]`, the window of the target, and
  not of `data.l[1]`: `odd` is a choice of the environment.
* `StaleDestroys`: an offer for a surface that was left or unmapped counts as one
  of the drag; when it is destroyed, FinishDndEntry ends the drag for the toplevel
  (dnd.c:538), and the next position is not answered.
* `source.clean`: a drop that is answered at once sets the mark `dropped` after
  FinishDndEntry has cleared it (dnd.c:1120).  The next drag begins with the mark set
  and gets no XdndStatus; `TargetAnswers` speaks of drags that begin without it.
* A drag whose seat is gone is excepted from `TargetAnswers`: dnd.c:751 and 1111
  promise dummy replies then.  The code forgets the surface with the seat and answers
  nothing any more (dnd.c:288); and where there was no seat in the first place, an
  offer or a drop dereferences it (`crash`).
* `ShortLived`: HandleConfigureNotify uses a window without looking whether it is
  known (dnd.c:1653), and the creation of one that was destroyed meanwhile is not
  recorded.
* `misled` marks what the handlers get wrong, and `CacheCurrent` holds while it is
  empty: the window that is topmost is not lowered, since "already at the bottom"
  is tested at the wrong end (`OrderKept`); circulated windows are linked by a
  node that was taken out; reparented ones behind their new parent instead of
  among its children; and changes between the two reads of the tree are missed.

Proved in `DragProofs`, for any number of surfaces, X targets (of any XDND
version), drags, motions and actions, with a selection that may fail to be owned:

| Theorem | Property | Hypotheses, beside `~Overlap` and `~SourcesDie` |
|---|---|---|
| DragsSound | DragSound | targets answer before the timer (`~LateAnswers`) |
| DragsKept | DragSound without `OneOutcome` | |
| DragTypesHold | DragTypeOK | |

All assume `Parameters`: no surface or toplevel is called `Nowhere`, every toplevel
has a version, `MaxDrags` is a number.  The instance of the run satisfies them.  The
two other hypotheses are the constants above, each with a behaviour of the code that
breaks the property.  Of the parts of `DragSound`, `OneOutcome` is the one that late
answers break, so it is the only one that needs them excluded.

None of the parts is inductive alone.  `DragInvariant` has, beside the types:

* `Steady`, of the seat, dnd.c and data_device.c: a drag that is under way has a
  live source that was told of no outcome, and none awaits XdndFinished (`Begun`);
  while it is over an X target it owns the selection (`Selected`); while it is over a
  surface it is over no target, and the current offer is that of its source for
  this surface (`Over`); then `FinishWatched` and `ActionAgreed` of any state
  (`Watched`, `Agreed`).
* `Targeted`, of the messages on their way: before each position or drop in a
  queue there is an enter with no leave or drop between, or the target is entered
  and no leave or drop comes before; and the queue of the target under the pointer
  ends so, unless dropped.  So `TargetInformed` does not depend on when targets read.
* `Counted`: a source whose drop is watched, or whose offer was dropped, was told
  that the drop was performed.
* `Single`, with `~LateAnswers` only: an outcome is told at most once (`Told`), and a
  drop that awaits its outcome is in exactly one place: in a queue, at a target
  that has not answered, or in an answer that was not read (`Awaited`).  An
  XdndFinished therefore always belongs to the drop that waits.

An action is a composition of handlers on one state: for each handler a lemma says
what it changes and what it keeps, also in states between two calls, where parts of
`Steady` fail (CancelDrag and the drop clear the seat before dnd.c).

Proved in `DndTargetProofs`: `TargetAnswers` (TargetAnswered) and the types
(TargetTypesHold), for any number of surfaces with clients of any version, and of
drags, positions and messages on their way, with a seat, a toplevel and surfaces
that may go.  Assumed are `Parameters` (no surface is called `None`, versions are
positive, `MaxSessions` is a number) and `~StaleDestroys`, the constant above.

`TargetInvariant` was checked on the instance of the run before it was proved.
`Answered` is the property itself, and what makes it inductive is the position of
the drag in the queue of messages. While the enter of the last drag is on its way
(`Entering`), the toplevel is in an older drag; only messages of older drags are
before it, and only its own behind it (`Queued`). Once it was read without the mark
above, and unless the seat or the toplevel went, the toplevel is in that drag, with
a seat, not dropped, as long as the X client drags or its drop is on its way
(`Open`). A leave or drop is the last message of its drag (`Closed`), so none
overtakes the position that is to be answered. `Offered` says that a drag that may
be responded to has an offer that a client holds, and that the drag's version is at
most that of any of its offers; the latter is why destroying an offer never reports
a success that no client confirmed. For a request of a Wayland client one lemma
(`QuietStep`) suffices: it keeps the drag, or ends it with the answer to its drop.

`WindowCache` is model-checked only.

### `Pointer`, `PointerConstraints`, `Barriers` (seat.c, pointer_constraints.c)

`Pointer` is the pointer of a seat.  `pointer` is the X server's: where it is, its
buttons and its grab; `xevents` are the events on their way, in order; `focusSeat`
holds the fields of `struct _Seat` that decide the focus: the surface last seen,
the surface a button is held in and the lock count, the grab of a popup, the
interactive move, gestures and the cursor.  `told` is what the clients know after
the events they got, and `misused` collects events that the protocol has no place
for: motion, buttons and scrolling where the client was not told that the pointer
entered, a second release, an update of a gesture that did not begin, a leave
without an enter.  `Dispatch` handles one X event by the
handlers of seat.c.

`PointerConstraints` has the constraints and their status, the barriers of each
and where the window was when they were drawn, and what the seat was told.  A
window is in one of two places on the screen, and a surface has a place inside and
one outside of the region that is asked for.  `Barriers` are ComputeBarrier and
MaybeCloseTopEdge as operators: from the banded rectangles of a region to lines,
and from these to barriers of the X server.

| Run | Shows | Instance |
|---|---|---|
| input, pointer | `PointerSound`: clients are told of the pointer in one surface, the seat's; the lock, its surface and the grab agree; buttons that clients take for pressed are; the cursor is the client's; no event is out of place | two clients with a surface each, two buttons, two gestures, a window mapped under the pointer and three inputs of the user |
| input, constraints | `ConstraintsSound`: motion is withheld only by an active lock where the pointer is; an active constraint has the pointer inside; barriers are where the window is; one-shot constraints are active once; no walk hangs | one constraint, two surfaces, three commits, moves or constraints |
| input, regions | `ConfinesExactly`: the barriers stop each step out of a region and none within it, and the buffer is large enough | every region of a grid of 4 by 3 and of 3 by 4 |

Three inputs are a press in one surface, a crossing, and a release in the other.
(Four hold too; the run then has 2.5 million states.)  In a grid of four columns a row can lie under another in each of
the ways MaybeCloseTopEdge distinguishes, with a rest that meets a second one.

What the run leaves out, each with what it breaks:

* `SurfacesVanish`, `SlowManager`, `LateRequests`: a surface destroyed in a gesture
  sends the rest of the gesture to another surface; a window manager that grabs the
  pointer after the button was released has the client told of the release twice; a move
  that is asked for after the release lasts until the next click
  (`MoveEndsWithButton`; seat.c:5104 says "don't let go until the button is
  released"), one that is asked for while two buttons are held ends with one of them,
  and the client is never told of the release of the other, and a press that the
  request crosses locks the focus again, with nobody to unlock it.
* `UnmapsHeld`: a commit without a buffer runs no unmap callbacks, so that the
  focus stays locked in a surface that is gone from the screen
  (`LockedWhereMapped`, seat.c:4214).
* When the pointer leaves during a gesture, the flag that it began is not cleared,
  and it is ended twice (`GesturesEndOnce`); `PointerSound` excepts this one.
* A client that asks for its wl_pointer while the pointer is in its surface is told
  of no enter, and nevertheless of the leave: SendLeave (seat.c:3257) goes to every
  pointer of the client.  `LeavesAfterEnter` fails, and `PointerSound` excepts
  this one, too.
* `SerialsAdvance`: the serial of an X event is the number of the last request the
  server has handled.  If the compositor makes none between a scroll and the
  pointer's return (seat.c:3761 compares with `>`), the old value of the axis is not
  taken for stale, and the surface is told of what was scrolled past elsewhere.
* FindConfinement does not go on to the next of a list
  (pointer_constraints.c:1003): with constraints of two seats on one surface the
  compositor does not come back.  Nor with a subsurface (`HasChildren`): the walks
  over subsurfaces call themselves with the surface they were given.
* `SurfacesDie`: the constraints of a surface are freed without being ended, and
  the seat stays locked (`LockHolds`).
* A commit that changes only the region of an active confinement leaves its
  barriers as they were (`RegionTakesEffect`).

### `Popup`, `Positioner` (xdg_popup.c, positioner.c)

`popups` are the `struct _XdgPopup`s with the flags of their state, `popupSeat` the
grab surface and the serials of the seat, `configures` the events a client did not
answer.  A grab is asked for before the first commit; that commit asks the seat,
and the popup below gets the grab back when this one goes.  `agreed` is the
position a client acknowledged last.  Whether the X server grants a grab is a
choice at every call.  `Positioner` has the arithmetic as operators on one axis,
since the code treats both alike in pairs of functions.

| Run | Shows | Instance |
|---|---|---|
| input, popups | `PopupsSound`: what a grabbed popup stands on is grabbed; holders are seats that are there; the seat's grab is on a popup that has one; a popup is where its client agreed to | a menu and its submenu, two presses, three configures |
| input, positions | `PopupPlaced`: an adjustment that can bring the popup into its output does, one that is inside stays, and the client is told the place where it is | every anchor, gravity and adjustment, popups shorter and longer than the output, partly outside on either side; scale 1 and 2 |

What the run leaves out:

* `SeatGoes`: if a seat goes whose grab is held along a chain, the grab is given
  back to a popup whose seat was cleared, and NULL is used (`popupCrash`).
* A popup whose child was refused the grab is not the topmost again when the child
  is destroyed, and its client may not destroy it (`RefusedForOneAbove`; "it is
  grabbed, but not the topmost popup", xdg_popup.c:688).
* A popup longer than its output that was slid first is not resized
  (`ResizedToFit`, positioner.c:674): the new length is computed from where the
  popup was.

### `TextInput`, `ImText` (text_input.c, keys of seat.c)

`keyboard` is the keyboard focus and the keys that are down; `infos` the focus of
each client's text inputs; `inputs` the `struct _TextInput`s: pending and current
state, whether there is an input context, the preedit buffer and the map of keys
that were sent in place of others.  `held` are the keys the input method has,
`forwarded` those it gave back, and `pressed` is what the clients believe.  The
input method connects, is lost and comes back with other styles at any time.
`ImText` has positions in UTF-8 texts, the chunks they are sent in, the preedit
buffer, string conversion and the place of the preedit area, as operators on
sequences of the lengths of characters.

| Run | Shows | Instance |
|---|---|---|
| input, text | `TextInputsSound`: text inputs know the focus; one of a client is enabled, with the focus, and has the context; what a client displays is the preedit buffer; the cursor rectangle is the last asked for (but for `TakesBack`); a key that was replaced is known | two text inputs of a client and a second client; steps of each kind as in `Budgets` of `MCInput` |
| input, texts | `TextsRight`: positions by octets and by characters agree; chunks are the text and below the limit, one of them with the cursor; a deletion begins and ends between characters of the text, and a conversion aborts the server only where it asks for text up to the end; a preedit area that was moved is in the view and off the caret | all texts of up to four characters of one or two octets, a limit of five; all areas in a small view |
| text_keys | violation: a replaced key is released under its own name | one client, one key, an input method that lets releases pass |

The budgets are two changes of focus with commits, or with a commit and a key, and
one with a restart of the input method and a key or changes of the preedit text;
together they are too many states, and no guard joins the kinds in more than pairs.  In
text_keys the release comes after the press was given back: an input method keeps
the events of a key in order.

What the run leaves out, each with what it breaks:

* `TakesBack`: SetCursorRectangle ignores a rectangle that is the current one
  (text_input.c:596) also while another is pending, so that the next commit moves the
  input method to a rectangle the client has taken back (`RectangleKept`).
* `StartsAgain`: PreeditStartCallback replaces a buffer that is there by an empty one
  (text_input.c:1651) without telling the client, which goes on to display the old
  text (`PreeditTold`).  Input methods end a preedit before they start another.

In the texts, each checked by hand:

* `NeverAborts`: a conversion that asks for text up to the end of the surrounding
  text, such as one forward with the caret at its end, comes to an XLAssert
  (text_input.c:2410) and aborts the server.
* `MovesBackwards`: MoveCaret counts a negative number of characters further down
  (text_input.c:2176), comes before the start and always fails, so that an input
  method that moves the caret backwards converts nothing.
* `KeepsItsWidth`: an area of at most half of the view that is moved leftwards loses
  part of its width (text_input.c:653).
* `DeletesWhatItReturns`: a conversion whose text does not contain the caret deletes
  another part than it returned (the code says so at text_input.c:2432).


## Plan

What is there came in the order of importance of the first plan: the frames of a
window, its buffers, surfaces and views, then selections, drags and input.  What
the plan has left, in order:

1. `ViewBounds` (subcompositor.c): positions, sizes, and the bounds of a window,
   which are kept incrementally and become the size of the X window, against the
   smallest rectangle of the mapped views; with it viewports and the fractional
   part of positions.
2. `Buffers` (buffer.c, shm.c, dmabuf.c, buffer_release.c,
   explicit_synchronization.c, fence_ring.c): references from clients, surfaces
   and renderer.  Theorem: no release while a reference is held.
3. `SelectionState` (xdata.c, data_device.c, primary_selection.c): who owns a
   selection, between X and Wayland.
4. `EventLoop` (timer.c, run.c): the ordered timers against callbacks that
   remove and add timers.
5. `Devices` (seat.c): hierarchy events, seats that come and go with what is
   attached to them; shortcut inhibition.
6. Small state machines: `DrmLease`, `Activation`, `IdleInhibit` with
   `Process`, `Outputs`, `ClientErrors` (xerror.c).
7. `Presentation`: records of pending presentations of picture_renderer.c and
   their cancellation.
8. `SyncTime` (sync_source.c): 32-bit server times; their comparison and
   extension as operators checked against unbounded time.

Theorems still to prove about what is modelled:

* `RequestsServed` and `TransfersCounted` of SelectionOwner (as in Drag, what is on
  its way belongs to the invariant), `LockHolds` and `OneShotsEnd` of
  PointerConstraints: the loops of the code are folds over sequences (FoldLeft), of
  which nothing can be proved for every length.  One step of each loop can, so that
  the loops must first become sequences of small steps or functions on sets.
* `GrabsNested` and `HolderLives` of Popup, `TransfersSound` of SelectionReader,
  `CacheCurrent` of WindowCache, `ViewsConsistent` of Stacking (that a view is
  linked in only where `DrawingProofs` allows it) and the properties of Pointer:
  their modules have RECURSIVE operators, which must become functions first.

To stay with the model checker: what holds under fairness (`CallbacksRun` and the
other liveness properties), and what recursive operators compute for every input
(`PopupPlaced`, `TextsRight`, `ConfinesExactly`, which compare algorithms with
reference definitions over bounded inputs).

## Not modelled, and hazards without a property

`PROJECT.json` gives the reason for every component that is not modelled:
protocol objects that only set a field of a surface, straight-line start-up code,
and small state machines nothing else depends on.  Inside of the modelled
components, positions and sizes (but for popups and regions), formats, rendering
and device discovery are abstracted.

Its list of hazards holds those that a property is about.  Others wait for the
module that will own them, or are described in the sections above: a batched
change recorded before MaybePostDelayedConfigure refuses it (`xdg_toplevel.c:545`),
the cached state that Teardown leaves (`subsurface.c:905`), the role read of a parent
that has none (`subsurface.c:449`), a subsurface placed next to itself
(`subsurface.c:178`), incremental bounds with `min_y` compared with `min_x`
(`subcompositor.c:682`), the pairs of MULTIPLE judged by the first (`select.c:1288`),
acquire fences closed and kept (`surface.c:1200`), a freeze that arrives after an
unmap (`xdg_toplevel.c:2619`), a resize completed during an asynchronous frame
(`sync_source.c:318`), an Expose that clears all damage (`subcompositor.c:3110`), lost
release records (`buffer_release.c:125`), the 64-bit value joined without a mask
(`frame_clock.c:705`), server times 2^31 ms apart (`sync_source.c:156`),
`SetWindowGeometry` comparing pending with current fields (`xdg_surface.c:447`), a
presentation callback run before its record is unlinked
(`picture_renderer.c:3399`), the buffers of a destroyed surface that are dereferenced
and not released (`surface.c:1366`), and the flag of a copied buffer that only asking
for it clears (`egl.c:2538`).
