------------------------------- MODULE XdgSync -------------------------------
(***************************************************************************)
(* One toplevel window of the translator: frame clock (ClockFunctions),    *)
(* the sync helper that drives it (sync_source.c), the frames of its       *)
(* subcompositor (subcompositor.c), its xdg_surface and xdg_toplevel roles *)
(* (xdg_surface.c, xdg_toplevel.c), and around them the Wayland client,    *)
(* the X window manager and the X server.                                  *)
(*                                                                         *)
(* The translator is single threaded: every callback of its event loop is  *)
(* one step, and a step is built from the operators below, each of them a  *)
(* function of the source made a function from a window to a window.       *)
(*                                                                         *)
(* Abstracted: sizes and regions.  "damage" says that something committed  *)
(* has not been drawn, "resized" that the bounds of the contents differ    *)
(* from the size last given to the window.  X events wait in "xevents",    *)
(* where NoteWindowResized may take a ConfigureNotify out of order, and    *)
(* "owed" counts the ConfigureNotify events that will answer a resize.     *)
(*                                                                         *)
(* An operator named Wrong... is a deliberate bug in the operator that     *)
(* follows it; PROJECT.json names the property that each of them breaks.   *)
(***************************************************************************)
EXTENDS ClockFunctions, Sequences, SequencesExt

CONSTANTS
  FrameSync,           \* whether the WM has _NET_WM_FRAME_DRAWN and sync requests:
                       \* subset of BOOLEAN
  DesyncChildren,      \* the surface has desynchronous subsurfaces
  TearingHints,        \* whether a commit may ask for async presentation: subset of BOOLEAN
  BatchStateChanges,   \* batch_state_changes: a timer may delay configure events
  InteractiveResize,   \* the user may resize through the translator's own code
  CommitKinds,         \* what a mapped client may commit: subset of Kinds
  Exposures,           \* what an Expose may uncover: subset of {"view", "border"}
  WmResizes,           \* the window manager may resize the window
  MaxFrameId,          \* bound: no input arrives once the counter exceeds it
  MaxEvents            \* bound: X events in flight

ASSUME WindowAssumption ==
  /\ FrameSync \subseteq BOOLEAN
  /\ TearingHints \subseteq BOOLEAN
  /\ DesyncChildren \in BOOLEAN

VARIABLES
  w,       \* the window
  reported \* the last counter value the window manager has reported as drawn

vars == <<w, reported>>

InitWindow(supported) ==
  [ \* FrameClock, and the flags, used and pending_frame of struct _SyncHelper
    clock |-> InitClock(supported),
    started |-> FALSE, pending |-> FALSE, synchronized |-> FALSE, resize |-> FALSE,
    used |-> "clock", displaying |-> FALSE,
    \* struct _Subcompositor: render_key or present_key, damage, bounds; the view's buffer
    key |-> FALSE, damage |-> FALSE, resized |-> FALSE, buffer |-> FALSE,
    \* struct _XdgRole: state
    wait_ack |-> FALSE, wait_commit |-> FALSE, maybe_configure |-> FALSE,
    temporary_bounds |-> FALSE, pending_release |-> FALSE, pending_callback |-> FALSE,
    \* struct _XdgToplevel: state, conf_reply and configuration_timer
    mapped |-> FALSE, wait_initial |-> TRUE, conf_reply |-> FALSE,
    config_timer |-> FALSE, ack_movement |-> FALSE, pending_resize |-> FALSE,
    \* Surface: frame callbacks not yet run, the presentation hint
    callbacks |-> FALSE, async |-> FALSE,
    \* XLAssert (success) failed, or SubcompositorUpdate was reentered
    aborted |-> FALSE,
    \* the X connection
    xevents |-> <<>>, owed |-> 0 ]

\* What the environment decides during a step: whether the end-of-frame
\* timer can be armed, and whether a ConfigureNotify answers a resize in time.
StepChoices == [arm : IF DesyncChildren THEN BOOLEAN ELSE {FALSE}, answer : BOOLEAN]

-----------------------------------------------------------------------------
(* Frame callbacks, and freezing. *)

\* Frame callbacks wait for the release of the buffers they follow.
RunCallbacks(x) ==
  IF x.pending_release THEN [x EXCEPT !.pending_callback = TRUE]
                       ELSE [x EXCEPT !.callbacks = FALSE]

WrongHandleResize(x, how) ==
  CASE how = "none"   -> x
    [] how = "frame"  -> RunCallbacks([x EXCEPT !.pending = FALSE, !.resize = TRUE])
    [] how = "freeze" -> [x EXCEPT !.pending = FALSE, !.resize = TRUE, !.wait_ack = TRUE,
                                   !.wait_commit = TRUE, !.maybe_configure = TRUE]

HandleResize(x, how) ==
  LET f == [x EXCEPT !.pending = FALSE, !.resize = TRUE]
  IN  CASE how = "none"   -> x
        [] how = "frame"  -> RunCallbacks(f)
        [] how = "freeze" -> RunCallbacks([f EXCEPT !.wait_ack = TRUE,
                                                    !.wait_commit = TRUE,
                                                    !.maybe_configure = TRUE])

\* The clock did something: keep its state and run its freeze callback.
ClockDid(x, outcome) == HandleResize([x EXCEPT !.clock = outcome.clock], outcome.freeze)

CheckFastForward(x) == ~x.wait_commit

-----------------------------------------------------------------------------
(* Resizing the window. *)

IsConfigure(e) == e.type = "configure"

\* XResizeWindow, then wait for a ConfigureNotify: one that is already queued
\* is taken for the answer, else the answer may come in time or later.
NoteWindowResized(x, ch) ==
  LET noted == [x EXCEPT !.clock = NoteConfigure(@), !.resized = FALSE]
  IN  IF \E i \in DOMAIN x.xevents : IsConfigure(x.xevents[i])
      THEN [noted EXCEPT
              !.xevents = RemoveAt(@, SelectInSeq(@, IsConfigure)),
              !.owed = @ + 1]
      ELSE IF ch.answer THEN noted
           ELSE [x EXCEPT !.resized = FALSE, !.owed = @ + 1]

NoteBounds(x, ch) ==
  IF x.wait_commit \/ x.temporary_bounds \/ ~x.resized THEN x
  ELSE NoteWindowResized(x, ch)

-----------------------------------------------------------------------------
(* Frames. *)

WantedType(x) == IF x.synchronized \/ x.resize \/ ~x.async THEN "clock" ELSE "present"

\* NoteFrame (ModeStarted).
BeginFrame(x, ch) ==
  LET c == SetPredictRefresh(x.clock, DesyncChildren)
      s == [x EXCEPT !.displaying = TRUE, !.started = TRUE]
      m == [s EXCEPT !.used = WantedType(x), !.resize = @ /\ x.synchronized]
  IN  IF x.started THEN s
      ELSE IF WantedType(x) = "present" THEN m
      ELSE [m EXCEPT !.clock = StartFrame(c, FALSE, ch.arm),
                     !.aborted = @ \/ ~CanStartFrame(c),
                     !.synchronized = TRUE]

\* Damage is drawn, and its presentation will be notified, unless no buffer
\* was drawn from.  Without damage an earlier notification is waited for.
Composite(x) ==
  IF x.damage THEN [x EXCEPT !.damage = FALSE, !.key = x.buffer] ELSE x

WrongFrameDone(x) == [x EXCEPT !.started = FALSE]

\* NoteFrame (ModePresented or ModeComplete), up to FrameCompleted.
FrameDone(x) ==
  LET ended == IF x.used = "clock"
               THEN ClockDid(x, EndFrame(x.clock, CheckFastForward(x)))
               ELSE x
  IN  [ended EXCEPT !.started = FALSE]

WrongEndSubcompositorFrame(x) == x

\* A frame that draws nothing is complete at once when the renderer presents
\* asynchronously, which it does for the clock; else it asks for a
\* notification.  An immediate completion outside of a synchronized frame
\* would reenter SubcompositorUpdate.
EndSubcompositorFrame(x) ==
  IF x.key THEN x
  ELSE IF x.used = "present" THEN [x EXCEPT !.key = TRUE]
  ELSE [FrameDone(x) EXCEPT !.displaying = FALSE,
                            !.aborted = @ \/ ~FrameDone(x).synchronized]

SubcompositorUpdate(x, ch) ==
  EndSubcompositorFrame(Composite(BeginFrame(NoteBounds(x, ch), ch)))

FrameCompleted(x, ch) ==
  IF x.pending THEN SubcompositorUpdate([x EXCEPT !.pending = FALSE], ch)
  ELSE RunCallbacks(x)

\* NoteFrame (ModePresented), called once the X server has presented.
NoteFramePresented(x, ch) ==
  LET done == FrameDone(x)
  IN  IF ~x.displaying THEN x
      ELSE [IF done.synchronized THEN done ELSE FrameCompleted(done, ch)
              EXCEPT !.displaying = FALSE]

AfterFrame(x, ch) == FrameCompleted([x EXCEPT !.synchronized = FALSE], ch)

WrongCheckFrame(x) == TRUE

\* No update happens while the compositing manager reads the frame.
CheckFrame(x) ==
  x.used = "clock" => ~x.clock.in_frame \/ x.clock.end_frame_timer

SyncHelperUpdate(x, ch) ==
  IF CheckFrame(x) THEN SubcompositorUpdate(x, ch) ELSE [x EXCEPT !.pending = TRUE]

-----------------------------------------------------------------------------
(* Configure events. *)

WrongSendConfigure(x) ==
  [x EXCEPT !.wait_ack = TRUE, !.wait_commit = TRUE, !.conf_reply = TRUE,
            !.temporary_bounds = FALSE, !.maybe_configure = FALSE]

SendConfigure(x) ==
  [x EXCEPT !.wait_ack = TRUE, !.wait_commit = TRUE, !.conf_reply = TRUE,
            !.pending = FALSE, !.temporary_bounds = FALSE, !.maybe_configure = FALSE]

WrongNoteRejectedConfigure(x) == x

NoteRejectedConfigure(x) ==
  IF x.maybe_configure
  THEN [x EXCEPT !.wait_ack = FALSE, !.wait_commit = FALSE, !.maybe_configure = FALSE]
  ELSE x

\* MaybePostDelayedConfigure, or else the configure event itself.
PostConfigure(x, delay) ==
  IF BatchStateChanges /\ (delay \/ x.config_timer) THEN [x EXCEPT !.config_timer = TRUE]
  ELSE SendConfigure(x)

\* A ConfigureNotify whose size is the toplevel's, or is not.
HandleConfigureEvent(x, same, delay) ==
  LET noted == [x EXCEPT !.clock = NoteConfigure(@)]
  IN  IF ~x.mapped THEN x
      ELSE IF ~same
           THEN PostConfigure([noted EXCEPT !.temporary_bounds = TRUE, !.resized = TRUE],
                              delay)
      ELSE IF x.config_timer THEN noted
      ELSE NoteRejectedConfigure(noted)

\* PostResize1: the next step of an interactive resize waits for the last.
PostResize(x) ==
  IF x.ack_movement THEN [x EXCEPT !.pending_resize = TRUE]
  ELSE [SendConfigure(x) EXCEPT !.config_timer = FALSE, !.ack_movement = TRUE,
                                !.pending_resize = FALSE]

-----------------------------------------------------------------------------
(* Commits. *)

Unmap(x) ==
  [x EXCEPT !.mapped = FALSE, !.wait_initial = TRUE, !.conf_reply = FALSE,
            !.config_timer = FALSE, !.ack_movement = FALSE, !.pending_resize = FALSE]

\* ResizeForMap: NoteBounds, then a resize in any case.
Map(x, ch) ==
  LET m == [x EXCEPT !.mapped = TRUE, !.wait_initial = FALSE, !.damage = TRUE,
                     !.temporary_bounds = FALSE]
  IN  NoteWindowResized(NoteBounds(m, ch), ch)

\* Commit of xdg_toplevel.c.
ToplevelCommit(x, ch) ==
  LET i == [x EXCEPT !.wait_initial = FALSE]
  IN  IF ~x.buffer \/ x.wait_initial
      THEN SendConfigure([IF x.mapped THEN Unmap(i) ELSE i EXCEPT !.config_timer = FALSE])
      ELSE IF x.conf_reply \/ x.mapped THEN x
      ELSE Map(x, ch)

AfterCommit(x) ==
  LET moved == [x EXCEPT !.ack_movement = FALSE]
  IN  IF x.conf_reply \/ ~x.ack_movement THEN x
      ELSE IF x.pending_resize THEN PostResize(moved) ELSE moved

\* Commit of xdg_surface.c.
RoleCommit(x, ch) ==
  LET t == ToplevelCommit(x, ch)
      c == IF t.wait_ack THEN t ELSE [t EXCEPT !.wait_commit = FALSE]
  IN  IF c.wait_commit THEN RunCallbacks(c) ELSE AfterCommit(SyncHelperUpdate(c, ch))

\* What the client attached: nothing new, contents, contents whose size is
\* or is not that of the window, or no buffer.  Every commit asks for a frame
\* callback; "busy" says that the buffer it replaces is still being read.
Kinds == {"callback", "content", "fitting", "larger", "null"}

Apply(x, kind, async, busy) ==
  [x EXCEPT
    !.callbacks = TRUE,
    !.async = async,
    !.buffer = IF kind = "callback" THEN @ ELSE kind # "null",
    !.damage = @ \/ kind # "callback",
    !.resized = CASE kind = "larger" -> TRUE [] kind = "fitting" -> FALSE [] OTHER -> @,
    !.pending_release = @ \/ (busy /\ x.buffer /\ kind # "callback")]

-----------------------------------------------------------------------------
(* The steps. *)

Init == (\E supported \in FrameSync : w = InitWindow(supported)) /\ reported = 0

\* Inputs stop once the counter is large or too many X events wait.
Room(n) ==
  /\ w.clock.next_frame_id <= MaxFrameId
  /\ Len(w.xevents) + w.owed + n <= MaxEvents

ClientCommit ==
  /\ Room(1)
  /\ \E kind \in IF w.mapped THEN CommitKinds ELSE Kinds, async \in TearingHints,
        busy \in BOOLEAN, ch \in StepChoices :
       w' = RoleCommit(Apply(w, kind, async, busy), ch)
  /\ UNCHANGED reported

\* The client acknowledges the last configure event; acknowledging an older
\* one changes nothing.
ClientAck ==
  /\ w.conf_reply
  /\ w' = [w EXCEPT !.wait_ack = FALSE, !.conf_reply = FALSE, !.damage = TRUE]
  /\ UNCHANGED reported

\* A desynchronous subsurface committed.
SubsurfaceUpdate ==
  /\ DesyncChildren
  /\ Room(1)
  /\ \E grows \in BOOLEAN, ch \in StepChoices :
       LET s == [w EXCEPT !.damage = TRUE, !.resized = @ \/ grows]
       IN  w' = IF s.wait_commit THEN RunCallbacks(s) ELSE SyncHelperUpdate(s, ch)
  /\ UNCHANGED reported

AllBuffersReleased ==
  /\ w.pending_release
  /\ w' = [w EXCEPT !.pending_release = FALSE, !.pending_callback = FALSE,
                    !.callbacks = @ /\ ~w.pending_callback]
  /\ UNCHANGED reported

RenderCompleted ==
  /\ w.key
  /\ \E ch \in StepChoices : w' = NoteFramePresented([w EXCEPT !.key = FALSE], ch)
  /\ UNCHANGED reported

\* An Expose is drawn outside of any frame, and replaces its notification.
Expose ==
  /\ w.mapped
  /\ \E what \in Exposures :
       w' = [w EXCEPT !.damage = FALSE, !.key = w.buffer /\ what = "view"]
  /\ UNCHANGED reported

HandleSyncRequest ==
  /\ w.xevents # <<>>
  /\ Head(w.xevents).type = "sync"
  /\ w' = ClockDid([w EXCEPT !.xevents = Tail(@)],
                   SyncRequest(w.clock, Head(w.xevents).value, CheckFastForward(w)))
  /\ UNCHANGED reported

HandleConfigureNotify ==
  /\ w.xevents # <<>>
  /\ IsConfigure(Head(w.xevents))
  /\ \E same, delay \in BOOLEAN :
       w' = HandleConfigureEvent([w EXCEPT !.xevents = Tail(@)], same, delay)
  /\ UNCHANGED reported

HandleFrameDrawn ==
  /\ w.xevents # <<>>
  /\ Head(w.xevents).type = "drawn"
  /\ LET x == [w EXCEPT !.xevents = Tail(@)]
     IN  IF IsFrameDrawn(w.clock, Head(w.xevents).value)
         THEN \E ch \in StepChoices :
                w' = AfterFrame([x EXCEPT !.clock = FrameDrawn(@)], ch)
         ELSE w' = x
  /\ UNCHANGED reported

NoteFakeFrame ==
  /\ ~w.clock.frame_sync_supported
  /\ IsFakeFrame(w.clock)
  /\ \E ch \in StepChoices :
       w' = AfterFrame([w EXCEPT !.clock = FrameDrawn(@)], ch)
  /\ UNCHANGED reported

HandleEndFrame ==
  /\ w.clock.end_frame_timer
  /\ w' = ClockDid(w, StopTimer(w.clock, CheckFastForward(w)))
  /\ UNCHANGED reported

\* The WM changed _NET_WM_STATE.  A property that cannot be read is told at once.
HandleWmStateChange ==
  /\ Room(1)
  /\ \/ \E delay \in BOOLEAN : w' = PostConfigure(w, delay)
     \/ w' = SendConfigure(w)
  /\ UNCHANGED reported

NoteConfigureTime ==
  /\ w.config_timer
  /\ w' = [SendConfigure(w) EXCEPT !.config_timer = FALSE]
  /\ UNCHANGED reported

\* The user drags an edge of the window.
InteractiveResizeMotion ==
  /\ InteractiveResize
  /\ w.mapped
  /\ Room(1)
  /\ w' = PostResize(w)
  /\ UNCHANGED reported

-----------------------------------------------------------------------------
(* The window manager. *)

Configure == [type |-> "configure"]

\* Aligned and beyond the counter, as mutter and kwin choose it.
RequestedValue == 4 * ((w.clock.secondary_counter + 3) \div 4) + 4

\* A resize is a sync request followed by a ConfigureNotify.
WmResize ==
  /\ WmResizes
  /\ w.mapped
  /\ Room(2)
  /\ w' = [w EXCEPT !.xevents =
             @ \o IF w.clock.frame_sync_supported
                  THEN << [type |-> "sync", value |-> RequestedValue], Configure >>
                  ELSE << Configure >>]
  /\ UNCHANGED reported

WmAnswer ==
  /\ w.owed > 0
  /\ w' = [w EXCEPT !.xevents = Append(@, Configure), !.owed = @ - 1]
  /\ UNCHANGED reported

WmFrameDrawn ==
  /\ w.clock.frame_sync_supported
  /\ w.clock.secondary_counter % 2 = 0
  /\ w.clock.secondary_counter # reported
  /\ w' = [w EXCEPT !.xevents =
             Append(@, [type |-> "drawn", value |-> w.clock.secondary_counter])]
  /\ reported' = w.clock.secondary_counter

Next ==
  \/ ClientCommit \/ ClientAck \/ SubsurfaceUpdate
  \/ AllBuffersReleased \/ RenderCompleted \/ Expose
  \/ HandleSyncRequest \/ HandleConfigureNotify \/ HandleFrameDrawn
  \/ NoteFakeFrame \/ HandleEndFrame
  \/ HandleWmStateChange \/ NoteConfigureTime \/ InteractiveResizeMotion
  \/ WmResize \/ WmAnswer \/ WmFrameDrawn

Spec == Init /\ [][Next]_vars

\* The translator's loop handles every event and timer, the X server
\* completes and releases what it was given, and the window manager answers.
\* Nothing is assumed of the client or the user.
Fairness ==
  /\ WF_vars(AllBuffersReleased) /\ WF_vars(RenderCompleted)
  /\ WF_vars(HandleSyncRequest) /\ WF_vars(HandleConfigureNotify)
  /\ WF_vars(HandleFrameDrawn) /\ WF_vars(NoteFakeFrame)
  /\ WF_vars(HandleEndFrame) /\ WF_vars(NoteConfigureTime)
  /\ WF_vars(WmAnswer) /\ WF_vars(WmFrameDrawn)

FairSpec == Spec /\ Fairness

-----------------------------------------------------------------------------
(* Properties. *)

Event == {Configure} \cup [type : {"sync", "drawn"}, value : Nat]

Window ==
  [ clock : ClockType, started : BOOLEAN, pending : BOOLEAN, synchronized : BOOLEAN,
    resize : BOOLEAN, used : {"clock", "present"}, displaying : BOOLEAN,
    key : BOOLEAN, damage : BOOLEAN, resized : BOOLEAN, buffer : BOOLEAN,
    wait_ack : BOOLEAN, wait_commit : BOOLEAN, maybe_configure : BOOLEAN,
    temporary_bounds : BOOLEAN, pending_release : BOOLEAN, pending_callback : BOOLEAN,
    mapped : BOOLEAN, wait_initial : BOOLEAN, conf_reply : BOOLEAN,
    config_timer : BOOLEAN, ack_movement : BOOLEAN, pending_resize : BOOLEAN,
    callbacks : BOOLEAN, async : BOOLEAN, aborted : BOOLEAN,
    xevents : Seq(Event), owed : Nat ]

\* The window has the types of the four structs, a typed clock, and
\* well-formed X events.
TypeOK == w \in Window /\ reported \in Nat

\* NoteFrame asserts that XLFrameClockStartFrame succeeds ("if I were more
\* confident in this code, then the call would be allowed to fail"): no
\* sequence of commits, freezes, timers and late notifications starts a frame
\* while another is being drawn, or reenters SubcompositorUpdate.
NoAbort == ~w.aborted

\* A frame that was started is always waiting for a notification of the X
\* server; without one FrameStarted would stay set and the clock's frame open.
FrameHasNotification == w.started => w.key

\* pending_frame names a frame exactly while one is started.  NoteFrame
\* clears it after FrameCompleted, which may itself have started the next
\* frame: the completion of a frame so forgotten would be ignored.
StartedDisplayed == w.started <=> w.displaying

\* A started frame is known by its name, and will be notified of.
FrameNotified == StartedDisplayed /\ FrameHasNotification

\* An open frame of the clock will be ended: by the notification of the frame
\* that opened it, or by its timer once that notification has come.
OpenFrameWillEnd ==
  FrameOpen(w.clock) =>
    \/ w.started /\ w.used = "clock"
    \/ w.clock.end_frame_timer /\ w.clock.end_frame_called

\* "Nothing should be displayed while an ack_configure is pending": a frame
\* begins only when no acknowledgement is awaited, and if the commit that
\* follows it is, only in that commit; never when an earlier frame completes
\* or a subsurface updates.
NoFrameWhileUnacked ==
  [][ ~w.started /\ w'.started => ~w.wait_ack /\ (w.wait_commit => ClientCommit) ]_vars

ConfigureQueued ==
  w.owed > 0 \/ \E i \in DOMAIN w.xevents : IsConfigure(w.xevents[i])

\* While the role waits for an ack_configure, the client has a configure
\* event to acknowledge, or one will still be sent: a freeze whose
\* ConfigureNotify was taken by NoteWindowResized, batched by the timer or
\* answered with the same size never leaves the window waiting for nothing.
AckPossible ==
  w.wait_ack => \/ w.conf_reply
                \/ w.config_timer
                \/ w.wait_initial
                \/ ConfigureQueued

\* "Tell the sync helper to update the frame.  This will also complete any
\* resize if necessary": the commit that the role was waiting for starts a
\* frame at the value the window manager asked for.
CommitUnfreezes ==
  [][ ClientCommit /\ w.wait_commit /\ ~w'.wait_commit => ~w'.clock.need_configure ]_vars

\* "If the update will happen while the compositing manager is still drawing
\* the results, schedule the update for when the frame completes": a
\* scheduled update is not dropped, unless the client has to commit again.
ScheduledUpdateRuns ==
  [][ w.pending /\ ~w'.pending => w'.wait_commit \/ ~w'.damage ]_vars

\* "Otherwise ... clients will hang indefinitely": whatever the client and the
\* user do or stop doing, the frame callbacks of a commit are run.
CallbacksRun == w.callbacks ~> ~w.callbacks

=============================================================================
