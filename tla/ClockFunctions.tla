--------------------------- MODULE ClockFunctions ---------------------------
(***************************************************************************)
(* The functions of frame_clock.c.  A frame clock tells the X compositing  *)
(* manager, through an XSync counter, that a frame is being drawn (odd     *)
(* value) or is complete (even value), and a _NET_WM_SYNC_REQUEST freezes  *)
(* it until the client has resized.                                        *)
(*                                                                         *)
(* The clock is one record whose fields keep the names of struct           *)
(* _FrameClock.  Every function of frame_clock.c that other components     *)
(* call is an operator from a clock to an outcome, so that a module that   *)
(* composes the clock with its users can run them inside a larger step:    *)
(*   outcome.clock   the clock afterwards                                  *)
(*   outcome.freeze  the freeze_callback that ran: "none", "freeze"        *)
(*                   (its argument False) or "frame" (its argument True)   *)
(*                                                                         *)
(* got_configure_count and pending_configure_count matter only through the *)
(* test pending <= got, which is the field "configured".  Presentation     *)
(* times decide only whether PostEndFrame can arm the end-of-frame timer:  *)
(* the caller chooses that with the argument "arm".                        *)
(*                                                                         *)
(* An operator named Wrong... is a deliberate bug in the operator that     *)
(* follows it; no specification uses one, PROJECT.json names the property  *)
(* that each of them breaks.                                               *)
(***************************************************************************)
EXTENDS Naturals

CONSTANT
  ServerTimeMonotonic  \* compositor.server_time_monotonic: prediction is allowed

ClockType ==
  [ frame_sync_supported : BOOLEAN,
    next_frame_id : Nat, finished_frame_id : Nat, configure_id : Nat,
    pending_sync_value : Nat, secondary_counter : Nat,
    configured : BOOLEAN, need_configure : BOOLEAN, end_frame_called : BOOLEAN,
    in_frame : BOOLEAN, end_frame_timer : BOOLEAN, predict_refresh : BOOLEAN ]

Freezes == {"none", "freeze", "frame"}

InitClock(supported) ==
  [ frame_sync_supported |-> supported,
    next_frame_id      |-> 0,
    finished_frame_id  |-> 0,
    configure_id       |-> 0,
    pending_sync_value |-> 0,
    secondary_counter  |-> 0,
    configured         |-> TRUE,
    need_configure     |-> FALSE,
    end_frame_called   |-> FALSE,
    in_frame           |-> FALSE,
    end_frame_timer    |-> FALSE,
    predict_refresh    |-> FALSE ]

Outcome(c, f) == [clock |-> c, freeze |-> f]

SetSyncCounter(c) ==
  IF c.frame_sync_supported
  THEN [c EXCEPT !.secondary_counter = c.next_frame_id]
  ELSE c

-----------------------------------------------------------------------------
(* Starting a frame. *)

\* StartFrame returns False when the current frame is still being drawn.
CanStartFrame(c) ==
  c.in_frame => c.end_frame_timer /\ c.end_frame_called

\* The odd value that opens a frame: 3 (mod 4) asks for an immediate redraw.
OpenId(id, urgent) ==
  IF urgent THEN IF id % 4 = 2 THEN id + 1 ELSE id + 3
            ELSE IF id % 4 = 3 THEN id + 3 ELSE id + 1

WrongCloseId(id) == IF id % 4 = 3 THEN id + 1 ELSE id - 3

\* The even value that closes the frame with value id.
CloseId(id) == IF id % 4 = 3 THEN id + 1 ELSE id + 3

NewFrame(c, urgent, arm) ==
  LET base == IF c.need_configure THEN c.configure_id ELSE c.next_frame_id
  IN  SetSyncCounter(
        [c EXCEPT
          !.next_frame_id = OpenId(base, urgent),
          !.finished_frame_id = IF c.need_configure THEN 0 ELSE @,
          !.in_frame = TRUE,
          !.end_frame_called = FALSE,
          !.end_frame_timer =
             IF arm /\ c.frame_sync_supported /\ ~c.need_configure /\ c.predict_refresh
             THEN TRUE ELSE @,
          !.need_configure = IF c.frame_sync_supported THEN FALSE ELSE @])

WrongStartFrame(c, urgent, arm) ==
  IF ~CanStartFrame(c) THEN c
  ELSE IF c.in_frame THEN [c EXCEPT !.end_frame_called = FALSE]
  ELSE [NewFrame(c, urgent, arm) EXCEPT !.need_configure = c.need_configure]

StartFrame(c, urgent, arm) ==
  IF ~CanStartFrame(c) THEN c
  ELSE IF c.in_frame THEN [c EXCEPT !.end_frame_called = FALSE]
  ELSE NewFrame(c, urgent, arm)

-----------------------------------------------------------------------------
(* Ending a frame, and freezing the clock for a resize.                    *)
(*                                                                         *)
(* In C, EndFrame, FreezeForValue and BumpFrame call one another.  The     *)
(* cycle is cut where the code itself cuts it: EndFrame freezes only with  *)
(* no timer set, so that freeze ends no frame; and a bumped frame starts   *)
(* at configure_id, so its own EndFrame finds pending_sync_value out of    *)
(* date and freezes nothing.                                               *)

CloseFrame(c) ==
  [c EXCEPT !.next_frame_id = CloseId(@),
            !.finished_frame_id = CloseId(c.next_frame_id)]

\* BumpFrame: an empty urgent frame that only moves the counter.
BumpFrame(c) ==
  SetSyncCounter(
    [CloseFrame(NewFrame(c, TRUE, FALSE)) EXCEPT
       !.end_frame_called = TRUE,
       !.pending_sync_value = 0])

\* FreezeForValue from the point where no end-of-frame timer is left.
\* "forward" is the answer of can_forward_sync_counter.
Freeze(c, value, forward) ==
  LET frozen == [c EXCEPT !.in_frame = FALSE,
                          !.need_configure = TRUE,
                          !.configure_id = value]
  IN  IF c.configured
      THEN Outcome(IF forward THEN BumpFrame(frozen) ELSE frozen, "frame")
      ELSE Outcome(frozen, "freeze")

EndFrame(c, forward) ==
  LET called == [c EXCEPT !.end_frame_called = TRUE]
      closed == CloseFrame(called)
      froze  == IF c.pending_sync_value # 0
                   /\ closed.next_frame_id <= c.pending_sync_value
                THEN Freeze(closed, c.pending_sync_value, forward)
                ELSE Outcome(closed, "none")
  IN  IF \/ ~c.in_frame
         \/ c.finished_frame_id = c.next_frame_id
         \/ c.end_frame_timer
      THEN Outcome(called, "none")
      ELSE Outcome(SetSyncCounter([froze.clock EXCEPT !.pending_sync_value = 0]),
                   froze.freeze)

\* RemoveTimer, then EndFrame if it was called while the timer was ticking.
StopTimer(c, forward) ==
  LET stopped == [c EXCEPT !.end_frame_timer = FALSE]
  IN  IF c.end_frame_called THEN EndFrame(stopped, forward)
                            ELSE Outcome(stopped, "none")

WrongFreezeForValue(c, value, forward) ==
  Freeze(IF c.end_frame_timer THEN StopTimer(c, forward).clock ELSE c, value, forward)

WrongFreezeInFrame(c, value, forward) ==
  IF c.next_frame_id > value THEN Outcome(c, "none")
  ELSE Outcome([c EXCEPT !.need_configure = TRUE, !.configure_id = value], "freeze")

FreezeForValue(c, value, forward) ==
  IF c.next_frame_id > value THEN Outcome(c, "none")
  ELSE Freeze(IF c.end_frame_timer THEN StopTimer(c, forward).clock ELSE c,
              value, forward)

-----------------------------------------------------------------------------
(* Events from the window manager. *)

\* The value of a sync request is made even before it is used.
EvenValue(value) == value + (value % 2)

SyncRequest(c, value, forward) ==
  LET requested == [c EXCEPT !.configured = FALSE]
  IN  IF c.in_frame /\ ~c.end_frame_called
      THEN Outcome([requested EXCEPT !.pending_sync_value = EvenValue(value)], "none")
      ELSE FreezeForValue(requested, EvenValue(value), forward)

\* The compositing manager has drawn the frame that ended with "value".
IsFrameDrawn(c, value) ==
  /\ value = c.finished_frame_id
  /\ c.in_frame
  /\ c.finished_frame_id = c.next_frame_id

FrameDrawn(c) == [c EXCEPT !.in_frame = FALSE]

NoteConfigure(c) == [c EXCEPT !.configured = TRUE]

\* Prediction compares presentation times with the monotonic clock, so it
\* needs an X server whose timestamps come from that clock.
SetPredictRefresh(c, predict) ==
  IF predict => ServerTimeMonotonic THEN [c EXCEPT !.predict_refresh = predict] ELSE c

\* Without a compositing manager a timer stands in for _NET_WM_FRAME_DRAWN.
IsFakeFrame(c) == c.in_frame /\ c.finished_frame_id = c.next_frame_id

-----------------------------------------------------------------------------
(* How the fields of a clock fit together. *)

\* A frame is open from StartFrame until EndFrame really ends it.
FrameOpen(c) == c.in_frame /\ c.finished_frame_id # c.next_frame_id

\* The inductive invariant: how the fields of the clock fit together between
\* any two calls.  It says besides the above that the X server always holds
\* the clock's own idea of the frame, that an open frame whose end was
\* called for is only waiting for its timer, and that every value a frame
\* may start from is even.
Consistent(c) ==
  /\ c \in ClockType
  /\ c.next_frame_id % 2 = 1 <=> FrameOpen(c)
  /\ c.finished_frame_id % 2 = 0
  /\ c.configure_id % 2 = 0
  /\ c.pending_sync_value % 2 = 0
  /\ c.end_frame_timer => FrameOpen(c) /\ c.frame_sync_supported
  /\ FrameOpen(c) /\ c.end_frame_called => c.end_frame_timer
  /\ c.in_frame /\ ~c.end_frame_called => FrameOpen(c)
  /\ c.pending_sync_value # 0 => FrameOpen(c) /\ c.frame_sync_supported
  /\ c.need_configure => ~c.in_frame /\ c.frame_sync_supported
  /\ c.secondary_counter = IF c.frame_sync_supported THEN c.next_frame_id ELSE 0

=============================================================================
