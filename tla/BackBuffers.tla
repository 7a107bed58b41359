----------------------------- MODULE BackBuffers -----------------------------
(***************************************************************************)
(* How the contents of a window reach the screen: damage in the            *)
(* subcompositor (subcompositor.c), and the two back buffers of a window   *)
(* of the picture renderer (picture_renderer.c), whose contents are one or *)
(* more frames old when they are drawn to again.                           *)
(*                                                                         *)
(* The window is a set of parts.  What matters of the contents of a part,  *)
(* on the screen or in a back buffer, is only whether it is what the views *)
(* of the subcompositor show there now; "stale" sets hold the parts where  *)
(* it is not.  "covered" are the parts that some view with a buffer shows; *)
(* elsewhere the background is drawn.                                      *)
(*                                                                         *)
(* The X server triggers the idle fence of a buffer and then sends an idle *)
(* event.  A buffer's "fence" is "held" while the server may read it,      *)
(* "triggered" until it is awaited, and "reset" afterwards.                *)
(*                                                                         *)
(* An operator named Wrong... is a deliberate bug in the operator that     *)
(* follows it.                                                             *)
(***************************************************************************)
EXTENDS Integers

CONSTANTS
  Parts,        \* parts of the window
  Flips,        \* whether presenting a pixmap shows all of it: subset of BOOLEAN
  FreshAges,    \* the ages malloc may leave in a new back buffer
  Presentation, \* buffers of clients may be presented directly
  Uncovering,   \* views may be unmapped while others keep the bounds
  Exposures     \* the window may lose contents

ASSUME FlipsAssumption == Flips \subseteq BOOLEAN /\ Flips # {}
ASSUME FlagsAssumption == {Presentation, Uncovering, Exposures} \subseteq BOOLEAN
ASSUME PartsAssumption == Parts # {}

VARIABLES
  views,  \* the subcompositor: what its next update has to draw
  prior,  \* its ring of previous damage, and how many of the two are set
  target, \* the render target
  screen  \* the window as the user sees it

bufferVars == <<views, prior, target, screen>>

\* malloc leaves the age of a new buffer undefined.
CreateBackBuffer(age) ==
  [exists |-> TRUE, busy |-> FALSE, sync |-> FALSE, serial |-> FALSE,
   age |-> age, fence |-> "reset", event |-> FALSE,
   stale |-> Parts]

NoBuffer == [CreateBackBuffer(0) EXCEPT !.exists = FALSE]


\* Ages above this bound are all too old (age > 2 in SubcompositorComposite).
MaxAge == 4
Ages == 0 .. MaxAge
Slots == {0, 1}

ASSUME FreshAgesAssumption == FreshAges \subseteq Ages /\ FreshAges # {}

InitViews ==
  [covered |-> Parts, presentable |-> FALSE, damage |-> Parts, additional |-> {},
   garbaged |-> FALSE, resized |-> FALSE]

InitTarget ==
  [buffers |-> [i \in Slots |-> NoBuffer], current |-> -1, just_presented |-> FALSE]

BuffersInit ==
  /\ views = InitViews
  /\ prior = [stored |-> 0, last |-> {}, before |-> {}]
  /\ target = InitTarget
  /\ screen = [stale |-> Parts, exposed |-> {}]

-----------------------------------------------------------------------------
(* The back buffers of picture_renderer.c. *)

IsFree(b) == b.exists /\ ~b.busy

GetNextBackBuffer(t) ==
  IF IsFree(t.buffers[0]) THEN t.buffers[0] ELSE t.buffers[1]

TargetAge(t) ==
  CASE t.just_presented              -> -2
    [] ~t.just_presented /\ ~GetNextBackBuffer(t).exists -> -1
    [] OTHER                         -> GetNextBackBuffer(t).age - 1

FreeBackBuffers(t) == [t EXCEPT !.buffers = [i \in Slots |-> NoBuffer], !.current = -1]

WrongMaybeAwaitBuffer(b) ==
  IF b.sync THEN [b EXCEPT !.sync = FALSE, !.fence = "reset"] ELSE b

MaybeAwaitBuffer(b) ==
  IF b.sync THEN [b EXCEPT !.sync = FALSE, !.serial = FALSE, !.fence = "reset"] ELSE b

\* The slot that EnsurePicture draws to.
PickSlot(t) ==
  IF t.current # -1 THEN t.current
  ELSE IF t.buffers[0].exists => ~t.buffers[0].busy THEN 0 ELSE 1

EnsurePicture(t, age) ==
  LET i == PickSlot(t)
      b == IF t.buffers[i].exists THEN t.buffers[i] ELSE CreateBackBuffer(age)
  IN  IF t.current # -1 THEN t
      ELSE [t EXCEPT !.buffers[i] = MaybeAwaitBuffer(b),
                     !.current = i,
                     !.just_presented = @ /\ t.buffers[i].exists]

\* FillBoxesWithTransparency, Composite.
Draw(t, region, age) ==
  LET e == EnsurePicture(t, age)
  IN  [e EXCEPT !.buffers[e.current].stale = @ \ region]

WrongAgeOtherBusy(b) ==
  IF ~b.exists THEN b
  ELSE [b EXCEPT !.sync = TRUE, !.age = IF @ \in 1 .. MaxAge - 1 THEN @ + 1 ELSE @]

WrongAgeOtherSync(b) ==
  IF ~b.exists THEN b
  ELSE [b EXCEPT !.busy = FALSE, !.age = IF @ \in 1 .. MaxAge - 1 THEN @ + 1 ELSE @]

\* The other back buffer is released by a presentation and will be idle.
AgeOther(b) ==
  IF ~b.exists THEN b
  ELSE [b EXCEPT !.sync = TRUE, !.busy = FALSE,
                 !.age = IF @ \in 1 .. MaxAge - 1 THEN @ + 1 ELSE @]

SwapBackBuffers(t) ==
  [t EXCEPT !.buffers =
     [i \in Slots |->
        IF i = t.current
        THEN [t.buffers[i] EXCEPT !.busy = TRUE, !.serial = TRUE, !.age = 1,
                                  !.fence = "held",
                                  !.event = FALSE]
        ELSE AgeOther(t.buffers[i])],
     !.current = -1]

-----------------------------------------------------------------------------
(* The subcompositor.  Its operators take and return all the state. *)

State == [views |-> views, prior |-> prior, target |-> target, screen |-> screen]

SetState(s) ==
  /\ views' = s.views
  /\ prior' = s.prior
  /\ target' = s.target
  /\ screen' = s.screen

\* What is left to the environment in a step: whether a presentation shows
\* the whole pixmap, and what malloc leaves in the age of a new buffer.
StepChoices == [flip : Flips, age : FreshAges]

\* The server shows a pixmap, of which the parts "stale" are not current.
Show(s, stale, region, ch) ==
  [s EXCEPT !.screen.stale = IF ch.flip THEN stale ELSE (@ \ region) \cup (stale \cap region)]

\* TryPresent: the topmost view covers the window and its buffer can be presented.
CanPresent(s) == s.views.presentable /\ s.views.covered = Parts

PresentToWindow(s, region, ch) ==
  [Show(s, {}, region, ch) EXCEPT
     !.target = [FreeBackBuffers(@) EXCEPT !.just_presented = TRUE]]

WrongFinishRender(s, region, ch) ==
  IF region \cap s.views.covered = {} THEN s
  ELSE Show([s EXCEPT !.target = SwapBackBuffers(@)],
            s.target.buffers[s.target.current].stale, s.views.damage, ch)

\* Nothing is swapped unless some buffer of a view was used.
FinishRender(s, region, ch) ==
  IF region \cap s.views.covered = {} THEN s
  ELSE Show([s EXCEPT !.target = SwapBackBuffers(@)],
            s.target.buffers[s.target.current].stale, region, ch)

ClearDamage(s) == [s EXCEPT !.views.damage = {}]

\* SubcompositorComposite1, unless it bails out.
Composite1(s, region, ch) ==
  ClearDamage(
    IF CanPresent(s) THEN PresentToWindow(s, region, ch)
    ELSE FinishRender([s EXCEPT !.target = Draw(@, region, ch.age)], region, ch))

ClearAdditional(s) == [s EXCEPT !.views.additional = {}]

SubcompositorRedraw(s, ch) == ClearAdditional(Composite1(s, Parts, ch))

WrongStorePreviousDamage(s, region) ==
  [s EXCEPT !.prior = [stored |-> @.stored + 1, last |-> region, before |-> @.last]]

StorePreviousDamage(s, region) ==
  [s EXCEPT !.prior = [stored |-> IF @.stored = 2 THEN 2 ELSE @.stored + 1,
                       last |-> region, before |-> @.last]]

PriorDamage(s, age) ==
  (IF age > 0 THEN s.prior.last ELSE {}) \cup (IF age > 1 THEN s.prior.before ELSE {})

TooOld(s, age) ==
  \/ age = -1
  \/ age > 2
  \/ age > s.prior.stored

\* An update draws the damage and what the target has missed; if it cannot
\* (and, just after a presentation, if it cannot present) everything.
SubcompositorComposite(s, ch) ==
  LET age == TargetAge(s.target)
      damage == s.views.damage \cup s.views.additional
      stored == StorePreviousDamage(s, damage)
  IN  IF damage = {} THEN s
      ELSE IF TooOld(s, age) THEN SubcompositorRedraw(s, ch)
      ELSE IF age = -2 /\ ~CanPresent(s) THEN SubcompositorRedraw(stored, ch)
      ELSE ClearAdditional(Composite1(stored, damage \cup PriorDamage(s, age), ch))

\* RenderNoteTargetSize.
NoteTargetSize(s) ==
  IF s.views.resized THEN [s EXCEPT !.target = FreeBackBuffers(@)] ELSE s

SubcompositorUpdate(s, ch) ==
  IF s.views.garbaged \/ s.views.resized
  THEN [SubcompositorRedraw(NoteTargetSize(s), ch) EXCEPT
          !.views.garbaged = FALSE, !.views.resized = FALSE]
  ELSE SubcompositorComposite(s, ch)

-----------------------------------------------------------------------------
(* The steps. *)

OutdateBuffer(b, region) == [b EXCEPT !.stale = @ \cup region]

\* What the views show in region changes: nothing shows it yet.
Outdate(s, region) ==
  [s EXCEPT
     !.screen.stale = @ \cup region,
     !.target.buffers = [i \in Slots |-> OutdateBuffer(@[i], region)]]

\* ViewDamage, after a surface committed a buffer.
Damage ==
  \E region \in SUBSET views.covered, presentable \in BOOLEAN :
    /\ region # {}
    /\ presentable => Presentation
    /\ SetState([Outdate(State, region) EXCEPT
                   !.views.damage = @ \cup region, !.views.presentable = presentable])

\* ViewUnmap or ViewMove: the bounds stay as they are, other views see to that.
Uncover ==
  /\ Uncovering
  /\ \E region \in (SUBSET views.covered) \ {{}, views.covered} :
       SetState([Outdate(State, region) EXCEPT
                   !.views.covered = @ \ region, !.views.additional = @ \cup region])

\* ViewMap.
Cover ==
  \E region \in SUBSET (Parts \ views.covered) :
    /\ region # {}
    /\ SetState([Outdate(State, region) EXCEPT
                   !.views.covered = @ \cup region, !.views.damage = @ \cup region])

\* SubcompositorGarbage, or a change of the origin.
Garbage ==
  /\ ~views.garbaged
  /\ SetState([State EXCEPT !.views.garbaged = TRUE])

\* The bounds change, and with them all of the window.
Resize ==
  SetState([Outdate(State, Parts) EXCEPT !.views.resized = TRUE])

Update == \E ch \in StepChoices : SetState(SubcompositorUpdate(State, ch))

\* The server loses contents of the window and queues Expose events; the
\* window is mapped by the commit that makes the first update.
LoseContents ==
  /\ Exposures
  /\ target # InitTarget
  /\ \E region \in (SUBSET Parts) \ {{}} :
       screen' = [stale |-> screen.stale \cup region, exposed |-> screen.exposed \cup region]
  /\ UNCHANGED <<views, prior, target>>

\* One Expose event, for one rectangle.
SubcompositorExpose ==
  \E region \in (SUBSET screen.exposed) \ {{}}, ch \in StepChoices :
    SetState([Composite1(State, region, ch) EXCEPT !.screen.exposed = @ \ region])

\* The server has finished with a pixmap, and sends an idle event.
TriggerFence ==
  \E i \in Slots :
    /\ target.buffers[i].exists
    /\ target.buffers[i].fence = "held"
    /\ target' = [target EXCEPT !.buffers[i].fence = "triggered",
                                !.buffers[i].event = TRUE]
    /\ UNCHANGED <<views, prior, screen>>

WrongNoteIdle(b) == [b EXCEPT !.event = FALSE, !.busy = FALSE, !.sync = TRUE]

\* The idle event for the last presentation of a buffer, unless its serial was
\* forgotten when the fence was awaited.
NoteIdle(b) ==
  IF b.serial
  THEN [b EXCEPT !.event = FALSE, !.busy = FALSE, !.sync = TRUE, !.serial = FALSE]
  ELSE [b EXCEPT !.event = FALSE]

\* Events for older presentations match no serial and change nothing.
HandlePresentIdleNotify ==
  \E i \in Slots :
    /\ target.buffers[i].exists
    /\ target.buffers[i].event
    /\ target' = [target EXCEPT !.buffers[i] = NoteIdle(@)]
    /\ UNCHANGED <<views, prior, screen>>

BuffersNext ==
  \/ Damage \/ Uncover \/ Cover \/ Garbage \/ Resize
  \/ Update \/ LoseContents \/ SubcompositorExpose
  \/ TriggerFence \/ HandlePresentIdleNotify

BuffersSpec == BuffersInit /\ [][BuffersNext]_bufferVars

-----------------------------------------------------------------------------
(* Properties. *)

BackBuffer ==
  [exists : BOOLEAN, busy : BOOLEAN, sync : BOOLEAN, serial : BOOLEAN, age : Ages,
   fence : {"held", "triggered", "reset"},
   event : BOOLEAN, stale : SUBSET Parts]

ViewsType ==
  [covered : SUBSET Parts, presentable : BOOLEAN, damage : SUBSET Parts,
   additional : SUBSET Parts, garbaged : BOOLEAN, resized : BOOLEAN]
PriorType == [stored : 0 .. 2, last : SUBSET Parts, before : SUBSET Parts]
TargetType ==
  [buffers : [Slots -> BackBuffer], current : {-1, 0, 1},
   just_presented : BOOLEAN]
ScreenType == [stale : SUBSET Parts, exposed : SUBSET Parts]

\* Types of the subcompositor, its damage ring, the target and the screen; in
\* particular the ring never holds more than two regions.
BuffersTypeOK ==
  /\ views \in ViewsType
  /\ prior \in PriorType
  /\ target \in TargetType
  /\ screen \in ScreenType

\* The server may read a buffer, or its fence waits to be reset, exactly while
\* the buffer is busy or has to be awaited.
BufferOK(b) ==
  /\ b.fence # "reset" <=> b.busy \/ b.sync
  /\ b.serial => b.fence # "reset"
  /\ b.event /\ b.serial => b.fence = "triggered"

TargetOK(t) ==
  /\ \A i \in Slots : t.buffers[i].exists => BufferOK(t.buffers[i])
  /\ \A i \in Slots :
       LET b == t.buffers[i]
       IN  IF i = t.current THEN b.exists /\ b.fence = "reset"
                            ELSE b.exists => b.fence # "reset"
  /\ \A i, j \in Slots : /\ t.buffers[i].exists /\ t.buffers[i].busy
                          /\ t.buffers[j].exists /\ t.buffers[j].busy
                          => i = j

\* The inductive invariant behind the three properties that follow: flags,
\* serials and fences of both buffers agree, and only the buffer being drawn
\* to is neither read by the server nor waiting for its fence.
ConsistentTarget == TargetOK(target)

\* EnsurePicture asserts that the buffer it picks is not busy; this is so
\* because two buffers are never busy at once, whatever the order of swaps,
\* idle events and the releases a presentation implies.
PickedNotBusy ==
  LET b == target.buffers[PickSlot(target)] IN b.exists => ~b.busy

\* MaybeAwaitBuffer blocks the whole process: a fence is awaited only if the
\* server has triggered it or will, never a second time for one presentation.
FenceWillTrigger ==
  \A i \in Slots :
    LET b == target.buffers[i] IN b.exists /\ b.sync => b.fence # "reset"

\* A buffer is drawn to without waiting only if the server does not read it.
NotReadWhenDrawn ==
  \A i \in Slots :
    LET b == target.buffers[i] IN b.exists /\ ~b.busy /\ ~b.sync => b.fence = "reset"

\* "Finish rendering, and swap changes in given damage to display": what the
\* window does not show yet is still recorded as damage, to be drawn by the
\* next update or by an Expose that is on its way.
WindowCurrent ==
  \/ views.garbaged \/ views.resized
  \/ screen.stale \subseteq views.damage \cup views.additional \cup screen.exposed

=============================================================================
