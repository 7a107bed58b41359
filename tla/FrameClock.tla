----------------------------- MODULE FrameClock -----------------------------
(***************************************************************************)
(* The frame clock of one window on its own: the functions of frame_clock.c*)
(* (ClockFunctions), called in every order their callers may choose, by    *)
(* any window manager.                                                     *)
(***************************************************************************)
EXTENDS ClockFunctions

CONSTANTS
  FrameSync,           \* whether the WM has _NET_WM_FRAME_DRAWN: subset of BOOLEAN
  SyncValues,          \* counter values a window manager may ask for
  MaxFrameId           \* bound: no frame starts once next_frame_id exceeds it

ASSUME ClockAssumption ==
  /\ FrameSync \subseteq BOOLEAN
  /\ ServerTimeMonotonic \in BOOLEAN
  /\ SyncValues \subseteq Nat \ {0}
  /\ MaxFrameId \in Nat

VARIABLES
  clock, \* struct _FrameClock, and the value of its secondary sync counter
  freeze \* the freeze_callback run by the last step

clockVars == <<clock, freeze>>

-----------------------------------------------------------------------------
(* The clock on its own, used in every way its callers may use it.         *)

Init == (\E supported \in FrameSync : clock = InitClock(supported)) /\ freeze = "none"

Becomes(outcome) == clock' = outcome.clock /\ freeze' = outcome.freeze

CallStartFrame ==
  \E arm \in BOOLEAN :
    /\ clock.next_frame_id <= MaxFrameId
    /\ Becomes(Outcome(StartFrame(clock, FALSE, arm), "none"))

CallEndFrame ==
  \E forward \in BOOLEAN : Becomes(EndFrame(clock, forward))

WrongHandleEndFrame ==
  /\ clock.end_frame_timer
  /\ Becomes(Outcome([clock EXCEPT !.end_frame_timer = FALSE], "none"))

HandleEndFrame ==
  /\ clock.end_frame_timer
  /\ \E forward \in BOOLEAN : Becomes(StopTimer(clock, forward))

HandleSyncRequest ==
  /\ clock.frame_sync_supported
  /\ \E value \in SyncValues, forward \in BOOLEAN :
       Becomes(SyncRequest(clock, value, forward))

HandleFrameDrawn ==
  /\ clock.frame_sync_supported
  /\ IsFrameDrawn(clock, clock.finished_frame_id)
  /\ Becomes(Outcome(FrameDrawn(clock), "none"))

NoteFakeFrame ==
  /\ ~clock.frame_sync_supported
  /\ IsFakeFrame(clock)
  /\ Becomes(Outcome(FrameDrawn(clock), "none"))

CallNoteConfigure == Becomes(Outcome(NoteConfigure(clock), "none"))

CallSetPredictRefresh ==
  \E predict \in BOOLEAN :
    Becomes(Outcome(SetPredictRefresh(clock, predict), "none"))

Next ==
  \/ CallStartFrame
  \/ CallEndFrame
  \/ HandleEndFrame
  \/ HandleSyncRequest
  \/ HandleFrameDrawn
  \/ NoteFakeFrame
  \/ CallNoteConfigure
  \/ CallSetPredictRefresh

Spec == Init /\ [][Next]_clockVars

-----------------------------------------------------------------------------
(* Properties. *)

\* The clock record has the types of struct _FrameClock's fields.
TypeOK == clock \in ClockType /\ freeze \in Freezes

\* The compositing manager reads the counter's parity: whatever freezes,
\* timers and restarted frames did before, the value the X server holds is
\* odd exactly while the translator is inside a frame, so no window is ever
\* left looking half drawn, or complete while it is being drawn.
CounterParity ==
  clock.frame_sync_supported => (clock.secondary_counter % 2 = 1 <=> FrameOpen(clock))

\* PostEndFrame asserts that no timer is set, and HandleEndFrame and
\* FreezeForValue free it: an end-of-frame timer exists only inside an open
\* frame, so a timer can never close a frame other than its own.
TimerInOpenFrame == clock.end_frame_timer => FrameOpen(clock)

\* A sync request postponed because of a frame is not forgotten: the frame
\* it waits for is still open, and closing it is what applies the request.
PostponedRequestHasFrame == clock.pending_sync_value # 0 => FrameOpen(clock)

\* A frozen clock is never inside a frame: the first frame after the client
\* has resized always starts at configure_id, it is never absorbed by an
\* older frame that the compositing manager has not yet drawn.
FrozenClockIsIdle == clock.need_configure => ~clock.in_frame

\* "If it took too long to obtain the counter value, and said value is now
\* out of date, don't do anything": the value the clock is frozen for is
\* never older than the frames it has already shown.
FrozenForCurrentValue ==
  clock.need_configure => clock.configure_id >= clock.next_frame_id

ConsistentClock == Consistent(clock)

\* What the compositing manager may rely on: see module SyncCounter.
Counter == INSTANCE SyncCounter WITH counter <- clock.secondary_counter
CounterProtocol == Counter!Spec

=============================================================================
