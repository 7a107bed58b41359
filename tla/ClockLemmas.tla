---------------------------- MODULE ClockLemmas ----------------------------
(***************************************************************************)
(* Each function of the frame clock keeps a clock consistent: lemmas about *)
(* the operators of ClockFunctions, for every clock, which the proofs      *)
(* about the clock alone (FrameClockProofs) and about a window that runs   *)
(* it inside its own steps (XdgSyncProofs) both cite.                      *)
(***************************************************************************)
EXTENDS ClockFunctions, TLAPS

\* Opening a frame moves an even value to the next odd ones.
LEMMA OpenIdOdd ==
  ASSUME NEW id \in Nat, id % 2 = 0, NEW urgent \in BOOLEAN
  PROVE  /\ OpenId(id, urgent) \in Nat
         /\ OpenId(id, urgent) % 2 = 1
         /\ OpenId(id, urgent) > id
BY DEF OpenId

\* Closing a frame moves an odd value to an even one, without stepping over
\* a multiple of four.
LEMMA CloseIdEven ==
  ASSUME NEW id \in Nat, id % 2 = 1
  PROVE  /\ CloseId(id) \in Nat
         /\ CloseId(id) % 2 = 0
         /\ CloseId(id) > id
         /\ \A v \in Nat : v % 4 = 0 /\ id <= v => CloseId(id) <= v
BY DEF CloseId

\* The values a window manager sends become even and stay positive.
LEMMA EvenValueEven ==
  ASSUME NEW v \in Nat \ {0}
  PROVE  EvenValue(v) \in Nat /\ EvenValue(v) % 2 = 0 /\ EvenValue(v) # 0
BY DEF EvenValue

\* The state StartFrame leaves when it opens a frame.
LEMMA NewFrameConsistent ==
  ASSUME NEW c, Consistent(c), ~c.in_frame,
         NEW urgent \in BOOLEAN, NEW arm \in BOOLEAN
  PROVE  /\ Consistent(NewFrame(c, urgent, arm))
         /\ FrameOpen(NewFrame(c, urgent, arm))
         /\ ~NewFrame(c, urgent, arm).end_frame_called
PROOF
<1> DEFINE base == IF c.need_configure THEN c.configure_id ELSE c.next_frame_id
           n == NewFrame(c, urgent, arm)
<1>1. base \in Nat /\ base % 2 = 0
  BY DEF Consistent, ClockType, FrameOpen
<1>2. OpenId(base, urgent) \in Nat /\ OpenId(base, urgent) % 2 = 1
  BY <1>1, OpenIdOdd
<1>3. /\ n.next_frame_id = OpenId(base, urgent)
      /\ n.finished_frame_id = IF c.need_configure THEN 0 ELSE c.finished_frame_id
      /\ n.in_frame = TRUE
      /\ n.end_frame_called = FALSE
      /\ n.end_frame_timer =
           IF arm /\ c.frame_sync_supported /\ ~c.need_configure /\ c.predict_refresh
           THEN TRUE ELSE c.end_frame_timer
      /\ n.need_configure = IF c.frame_sync_supported THEN FALSE ELSE c.need_configure
      /\ n.secondary_counter =
           IF c.frame_sync_supported THEN OpenId(base, urgent) ELSE c.secondary_counter
      /\ n.configure_id = c.configure_id
      /\ n.pending_sync_value = c.pending_sync_value
      /\ n.frame_sync_supported <=> c.frame_sync_supported
      /\ n \in ClockType
  BY ZenonT(30), <1>1, <1>2 DEF NewFrame, SetSyncCounter, Consistent, ClockType
<1>4. QED
  BY <1>1, <1>2, <1>3 DEF Consistent, FrameOpen

LEMMA StartFrameConsistent ==
  ASSUME NEW c, Consistent(c), NEW urgent \in BOOLEAN, NEW arm \in BOOLEAN
  PROVE  Consistent(StartFrame(c, urgent, arm))
PROOF
<1> DEFINE s == [c EXCEPT !.end_frame_called = FALSE]
<1>1. CASE ~CanStartFrame(c)
  BY <1>1 DEF StartFrame
<1>2. CASE CanStartFrame(c) /\ c.in_frame
  <2>1. c.end_frame_timer /\ StartFrame(c, urgent, arm) = s
    BY <1>2 DEF StartFrame, CanStartFrame
  <2>2. Consistent(s)
    BY <2>1 DEF Consistent, ClockType, FrameOpen
  <2>3. QED
    BY <2>1, <2>2
<1>3. CASE CanStartFrame(c) /\ ~c.in_frame
  BY <1>3, NewFrameConsistent DEF StartFrame
<1>4. QED
  BY <1>1, <1>2, <1>3 DEF Consistent, ClockType

-----------------------------------------------------------------------------
(* Freezing.  A frame that has just been closed is frozen before its value *)
(* reaches the counter, so Freeze starts from a clock that is only typed,  *)
(* even and without a timer.                                               *)

Freezable(c) ==
  /\ c \in ClockType
  /\ c.next_frame_id % 2 = 0
  /\ c.finished_frame_id % 2 = 0
  /\ ~c.end_frame_timer
  /\ c.frame_sync_supported

\* BumpFrame leaves a complete frame that starts from configure_id.
LEMMA BumpFrameConsistent ==
  ASSUME NEW c, Freezable(c), c.need_configure, ~c.in_frame,
         c.configure_id % 2 = 0
  PROVE  /\ Consistent(BumpFrame(c))
         /\ ~FrameOpen(BumpFrame(c))
         /\ ~BumpFrame(c).need_configure
         /\ BumpFrame(c).pending_sync_value = 0
         /\ BumpFrame(c).next_frame_id > c.configure_id
         /\ BumpFrame(c).predict_refresh = c.predict_refresh
         /\ BumpFrame(c).frame_sync_supported <=> c.frame_sync_supported
         /\ BumpFrame(c).configured = c.configured
PROOF
<1> DEFINE n == NewFrame(c, TRUE, FALSE)
           open == OpenId(c.configure_id, TRUE)
           b == BumpFrame(c)
<1>1. c.configure_id \in Nat
  BY DEF Freezable, ClockType
<1>2. open \in Nat /\ open % 2 = 1 /\ open > c.configure_id
  BY <1>1, OpenIdOdd
<1>3. /\ n \in ClockType
      /\ n.next_frame_id = open
      /\ n.in_frame = TRUE
      /\ ~n.need_configure
      /\ ~n.end_frame_timer
      /\ n.configure_id = c.configure_id
      /\ n.predict_refresh = c.predict_refresh
      /\ n.frame_sync_supported <=> c.frame_sync_supported
      /\ n.configured = c.configured
  BY <1>1, <1>2 DEF NewFrame, SetSyncCounter, Freezable, ClockType
<1>4. CloseId(open) \in Nat /\ CloseId(open) % 2 = 0 /\ CloseId(open) > open
  BY <1>2, CloseIdEven
<1>5. /\ b \in ClockType
      /\ b.next_frame_id = CloseId(open)
      /\ b.finished_frame_id = CloseId(open)
      /\ b.secondary_counter = CloseId(open)
      /\ b.configure_id = c.configure_id
      /\ b.pending_sync_value = 0
      /\ ~b.need_configure
      /\ b.end_frame_called
      /\ ~b.end_frame_timer
      /\ b.predict_refresh = c.predict_refresh
      /\ b.frame_sync_supported <=> c.frame_sync_supported
      /\ b.configured = c.configured
  BY <1>3, <1>4 DEF BumpFrame, CloseFrame, SetSyncCounter, Freezable, ClockType
<1> HIDE DEF n, open, b
<1>6. ~FrameOpen(b)
  BY <1>5 DEF FrameOpen
<1>7. b.next_frame_id > c.configure_id
  BY <1>1, <1>2, <1>4, <1>5
<1>8. Consistent(b)
  <2>1. b.next_frame_id % 2 = 0 /\ b.finished_frame_id % 2 = 0 /\ b.configure_id % 2 = 0
    BY <1>4, <1>5
  <2>2. QED
    BY <1>5, <1>6, <2>1 DEF Consistent, Freezable
<1>9. QED
  BY <1>5, <1>6, <1>7, <1>8 DEF b

\* Freeze leaves a clock that is consistent once its counter is written and
\* the value it was frozen for is forgotten.
LEMMA FreezeConsistent ==
  ASSUME NEW c, Freezable(c), NEW v \in Nat, v % 2 = 0, NEW forward \in BOOLEAN
  PROVE  LET f == Freeze(c, v, forward).clock
         IN  /\ f \in ClockType
             /\ Consistent(SetSyncCounter([f EXCEPT !.pending_sync_value = 0]))
             /\ ~FrameOpen(f)
             /\ c.pending_sync_value = 0 /\ c.secondary_counter = c.next_frame_id
                  => Consistent(f)
             /\ \/ /\ f.next_frame_id = c.next_frame_id
                   /\ f.configure_id = v
                   /\ f.need_configure
                   /\ f.secondary_counter = c.secondary_counter
                \/ /\ f.next_frame_id > v
                   /\ ~f.need_configure
                   /\ c.configured
             /\ f.predict_refresh = c.predict_refresh
             /\ f.frame_sync_supported <=> c.frame_sync_supported
             /\ f.configured = c.configured
PROOF
<1> DEFINE frozen == [c EXCEPT !.in_frame = FALSE,
                               !.need_configure = TRUE,
                               !.configure_id = v]
           f == Freeze(c, v, forward).clock
           after(x) == SetSyncCounter([x EXCEPT !.pending_sync_value = 0])
<1>1. /\ Freezable(frozen)
      /\ frozen.need_configure
      /\ ~frozen.in_frame
      /\ frozen.configure_id = v
      /\ frozen.next_frame_id = c.next_frame_id
      /\ frozen.secondary_counter = c.secondary_counter
      /\ frozen.pending_sync_value = c.pending_sync_value
      /\ frozen.predict_refresh = c.predict_refresh
      /\ frozen.frame_sync_supported <=> c.frame_sync_supported
      /\ frozen.configured = c.configured
  BY DEF Freezable, ClockType
<1>2. CASE f = frozen
  <2>1. Consistent(after(frozen))
    <3> DEFINE a == after(frozen)
    <3>1. /\ a \in ClockType
          /\ a.next_frame_id % 2 = 0
          /\ a.finished_frame_id % 2 = 0
          /\ a.configure_id = v
          /\ a.pending_sync_value = 0
          /\ a.secondary_counter = a.next_frame_id
          /\ ~a.end_frame_timer
          /\ ~a.in_frame
          /\ a.frame_sync_supported
      BY <1>1 DEF Freezable, SetSyncCounter, ClockType
    <3> HIDE DEF a
    <3>2. Consistent(a)
      BY <1>1, <3>1 DEF Freezable, Consistent, FrameOpen
    <3>3. QED
      BY <3>2 DEF a
  <2>2. c.pending_sync_value = 0 /\ c.secondary_counter = c.next_frame_id
          => Consistent(frozen)
    BY <1>1 DEF Freezable, Consistent, ClockType, FrameOpen
  <2>3. QED
    BY <1>1, <1>2, <2>1, <2>2 DEF FrameOpen, Freezable
<1>3. CASE f = BumpFrame(frozen) /\ c.configured
  <2>1. /\ Consistent(f)
        /\ ~FrameOpen(f)
        /\ ~f.need_configure
        /\ f.pending_sync_value = 0
        /\ f.next_frame_id > v
        /\ f.predict_refresh = c.predict_refresh
        /\ f.frame_sync_supported <=> c.frame_sync_supported
        /\ f.configured = c.configured
    <3> HIDE DEF frozen, f
    <3>1. QED
      BY <1>1, <1>3, BumpFrameConsistent
  <2>2. after(f) = f
    <3>1. f \in ClockType /\ f.pending_sync_value = 0 /\ f.secondary_counter = f.next_frame_id
      BY <1>1, <2>1 DEF Freezable, Consistent
    <3>2. \A x \in ClockType :
            x.pending_sync_value = 0 /\ x.secondary_counter = x.next_frame_id
              => after(x) = x
      BY DEF SetSyncCounter, ClockType
    <3>3. QED
      BY <3>1, <3>2
  <2>3. QED
    BY <1>3, <2>1, <2>2 DEF Consistent
<1>4. f = frozen \/ (f = BumpFrame(frozen) /\ c.configured)
  BY DEF Freeze, Outcome
<1>5. QED
  BY <1>2, <1>3, <1>4

-----------------------------------------------------------------------------
(* Ending a frame. *)

\* Consistent, but perhaps just robbed of the timer an ended frame waits for.
Endable(c) ==
  /\ c \in ClockType
  /\ c.next_frame_id % 2 = 1 <=> FrameOpen(c)
  /\ c.finished_frame_id % 2 = 0
  /\ c.configure_id % 2 = 0
  /\ c.pending_sync_value % 2 = 0
  /\ c.end_frame_timer => FrameOpen(c) /\ c.frame_sync_supported
  /\ c.in_frame /\ ~c.end_frame_called => FrameOpen(c)
  /\ c.pending_sync_value # 0 => FrameOpen(c) /\ c.frame_sync_supported
  /\ c.need_configure => ~c.in_frame /\ c.frame_sync_supported
  /\ c.secondary_counter = IF c.frame_sync_supported THEN c.next_frame_id ELSE 0

\* A frozen clock waits for a value that no frame has passed.
Fresh(c) == c.need_configure => c.configure_id >= c.next_frame_id

LEMMA ConsistentEndable ==
  ASSUME NEW c, Consistent(c)
  PROVE  Endable(c) /\ Endable([c EXCEPT !.end_frame_timer = FALSE])
BY DEF Consistent, Endable, ClockType, FrameOpen

\* What EndFrame's last two assignments leave of each field.
LEMMA SettledFields ==
  ASSUME NEW c \in ClockType
  PROVE  LET s == SetSyncCounter([c EXCEPT !.pending_sync_value = 0])
         IN  /\ s \in ClockType
             /\ s.next_frame_id = c.next_frame_id
             /\ s.finished_frame_id = c.finished_frame_id
             /\ s.configure_id = c.configure_id
             /\ s.pending_sync_value = 0
             /\ s.secondary_counter =
                  IF c.frame_sync_supported THEN c.next_frame_id ELSE c.secondary_counter
             /\ s.in_frame = c.in_frame
             /\ s.need_configure = c.need_configure
             /\ s.end_frame_called = c.end_frame_called
             /\ s.end_frame_timer = c.end_frame_timer
             /\ s.predict_refresh = c.predict_refresh
             /\ s.frame_sync_supported <=> c.frame_sync_supported
             /\ s.configured = c.configured
BY DEF SetSyncCounter, ClockType

LEMMA EndFrameConsistent ==
  ASSUME NEW c, Endable(c), NEW forward \in BOOLEAN
  PROVE  LET e == EndFrame(c, forward).clock
         IN  /\ Consistent(e)
             /\ Fresh(c) => Fresh(e)
             /\ e.predict_refresh = c.predict_refresh
             /\ e.frame_sync_supported <=> c.frame_sync_supported
             /\ e.configured = c.configured
             /\ e.end_frame_timer => c.end_frame_timer
             /\ ~c.end_frame_timer => ~FrameOpen(e)
             /\ \/ e.next_frame_id = c.next_frame_id
                \/ /\ FrameOpen(c)
                   /\ e.next_frame_id > c.next_frame_id
                   /\ e.next_frame_id % 2 = 0
                   /\ ~c.configured => e.next_frame_id = CloseId(c.next_frame_id)
PROOF
<1> DEFINE called == [c EXCEPT !.end_frame_called = TRUE]
           closed == CloseFrame(called)
           freezes == /\ c.pending_sync_value # 0
                      /\ closed.next_frame_id <= c.pending_sync_value
           f == Freeze(closed, c.pending_sync_value, forward).clock
           after(x) == SetSyncCounter([x EXCEPT !.pending_sync_value = 0])
           e == EndFrame(c, forward).clock
           ends == /\ c.in_frame
                   /\ c.finished_frame_id # c.next_frame_id
                   /\ ~c.end_frame_timer
<1>1. CASE ~ends
  <2>1. e = called
    BY <1>1 DEF EndFrame, Outcome
  <2>2. Consistent(called)
    BY <1>1 DEF Endable, Consistent, ClockType, FrameOpen
  <2>3. Fresh(c) => Fresh(called)
    BY DEF Endable, ClockType, Fresh
  <2>4. /\ called.next_frame_id = c.next_frame_id /\ called.predict_refresh = c.predict_refresh
        /\ called.frame_sync_supported <=> c.frame_sync_supported
        /\ called.configured = c.configured /\ called.end_frame_timer = c.end_frame_timer
    BY DEF Endable, ClockType
  <2>5. ~c.end_frame_timer => ~FrameOpen(called)
    BY <1>1 DEF Endable, ClockType, FrameOpen
  <2>6. QED
    BY <2>1, <2>2, <2>3, <2>4, <2>5
<1>2. CASE ends
  <2>1. FrameOpen(c) /\ ~c.need_configure /\ ~c.end_frame_timer
    BY <1>2 DEF Endable, FrameOpen
  <2>2. /\ CloseId(c.next_frame_id) \in Nat
        /\ CloseId(c.next_frame_id) % 2 = 0
        /\ CloseId(c.next_frame_id) > c.next_frame_id
    BY <2>1, CloseIdEven DEF Endable, ClockType
  <2>3. /\ closed \in ClockType
        /\ closed.next_frame_id = CloseId(c.next_frame_id)
        /\ closed.finished_frame_id = CloseId(c.next_frame_id)
        /\ closed.configure_id = c.configure_id
        /\ closed.pending_sync_value = c.pending_sync_value
        /\ closed.secondary_counter = c.secondary_counter
        /\ closed.predict_refresh = c.predict_refresh
        /\ closed.frame_sync_supported <=> c.frame_sync_supported
        /\ closed.configured = c.configured
        /\ closed.end_frame_called
        /\ ~closed.need_configure
        /\ ~closed.end_frame_timer
    BY <2>1, <2>2 DEF CloseFrame, Endable, ClockType
  <2>4. CASE freezes
    <3>1. e = after(f)
      BY <1>2, <2>4 DEF EndFrame, Outcome
    <3>2. Freezable(closed) /\ c.pending_sync_value \in Nat /\ c.pending_sync_value % 2 = 0
      BY <2>2, <2>3, <2>4 DEF Freezable, Endable, ClockType
    <3>3. /\ f \in ClockType
          /\ Consistent(after(f))
          /\ ~FrameOpen(f)
          /\ \/ /\ f.next_frame_id = closed.next_frame_id
                /\ f.configure_id = c.pending_sync_value
                /\ f.need_configure
             \/ /\ f.next_frame_id > c.pending_sync_value
                /\ ~f.need_configure
                /\ closed.configured
          /\ f.predict_refresh = closed.predict_refresh
          /\ f.frame_sync_supported <=> closed.frame_sync_supported
          /\ f.configured = closed.configured
      <4> HIDE DEF closed
      <4>1. QED
        BY <3>2, FreezeConsistent
    <3>4. f \in ClockType
      BY <3>3
    <3>5. /\ after(f).next_frame_id = f.next_frame_id
          /\ after(f).finished_frame_id = f.finished_frame_id
          /\ after(f).in_frame = f.in_frame
          /\ after(f).configure_id = f.configure_id
          /\ after(f).need_configure = f.need_configure
          /\ after(f).predict_refresh = f.predict_refresh
          /\ after(f).frame_sync_supported <=> f.frame_sync_supported
          /\ after(f).configured = f.configured
      <4> HIDE DEF f
      <4>1. QED
        BY <3>4, SettledFields
    <3> HIDE DEF closed, called, f, after
    <3>6. Fresh(after(f))
      BY <2>2, <2>3, <2>4, <3>2, <3>3, <3>4, <3>5 DEF Fresh, ClockType
    <3>7. ~FrameOpen(after(f))
      BY <3>3, <3>5 DEF FrameOpen
    <3>8. after(f).next_frame_id % 2 = 0
      BY <3>3, <3>7 DEF Consistent, ClockType
    <3>9. /\ after(f).next_frame_id > c.next_frame_id
          /\ ~c.configured => after(f).next_frame_id = CloseId(c.next_frame_id)
      BY <2>2, <2>3, <2>4, <3>2, <3>3, <3>4, <3>5 DEF Endable, ClockType
    <3>10. ~after(f).end_frame_timer
      BY <3>3, <3>7 DEF Consistent
    <3>11. QED
      BY <3>10, <2>1, <2>3, <3>1, <3>3, <3>5, <3>6, <3>7, <3>8, <3>9
  <2>5. CASE ~freezes
    <3>1. e = after(closed)
      BY <1>2, <2>5 DEF EndFrame, Outcome
    <3>2. /\ e \in ClockType
          /\ e.next_frame_id = CloseId(c.next_frame_id)
          /\ e.finished_frame_id = CloseId(c.next_frame_id)
          /\ e.configure_id = c.configure_id
          /\ e.pending_sync_value = 0
          /\ e.secondary_counter =
               IF c.frame_sync_supported THEN CloseId(c.next_frame_id) ELSE c.secondary_counter
          /\ e.predict_refresh = c.predict_refresh
          /\ e.frame_sync_supported <=> c.frame_sync_supported
          /\ e.configured = c.configured
          /\ e.end_frame_called
          /\ ~e.need_configure
          /\ ~e.end_frame_timer
      <4> HIDE DEF closed
      <4>1. QED
        BY <2>3, <3>1, SettledFields
    <3> HIDE DEF e
    <3>3. ~FrameOpen(e) /\ Fresh(e)
      BY <3>2 DEF FrameOpen, Fresh
    <3>4. Consistent(e)
      BY <2>2, <3>2, <3>3 DEF Consistent, Endable, ClockType
    <3>5. QED
      BY <2>1, <2>2, <3>2, <3>3, <3>4 DEF e
  <2>6. QED
    BY <2>4, <2>5
<1>3. QED
  BY <1>1, <1>2

\* Removing the end-of-frame timer, by its expiry or before a freeze.
LEMMA StopTimerConsistent ==
  ASSUME NEW c, Consistent(c), NEW forward \in BOOLEAN
  PROVE  LET e == StopTimer(c, forward).clock
         IN  /\ Consistent(e)
             /\ Fresh(c) => Fresh(e)
             /\ e.predict_refresh = c.predict_refresh
             /\ e.frame_sync_supported <=> c.frame_sync_supported
             /\ e.configured = c.configured
             /\ ~e.end_frame_timer
             /\ c.end_frame_called => ~FrameOpen(e)
             /\ \/ e.next_frame_id = c.next_frame_id
                \/ /\ FrameOpen(c)
                   /\ e.next_frame_id > c.next_frame_id
                   /\ e.next_frame_id % 2 = 0
                   /\ ~c.configured => e.next_frame_id = CloseId(c.next_frame_id)
PROOF
<1> DEFINE stopped == [c EXCEPT !.end_frame_timer = FALSE]
           ended == EndFrame(stopped, forward).clock
           e == StopTimer(c, forward).clock
<1>1. Endable(stopped)
  BY ConsistentEndable
<1>2. /\ stopped \in ClockType
      /\ ~stopped.end_frame_timer
      /\ stopped.next_frame_id = c.next_frame_id
      /\ stopped.configured = c.configured
      /\ stopped.predict_refresh = c.predict_refresh
      /\ stopped.frame_sync_supported <=> c.frame_sync_supported
      /\ FrameOpen(stopped) <=> FrameOpen(c)
      /\ Fresh(stopped) <=> Fresh(c)
      /\ stopped.end_frame_called = c.end_frame_called
  BY DEF Consistent, ClockType, FrameOpen, Fresh
<1>3. CASE c.end_frame_called
  <2>1. e = ended
    BY <1>3 DEF StopTimer
  <2> HIDE DEF stopped, e
  <2>2. QED
    BY <1>1, <1>2, <2>1, EndFrameConsistent DEF e
<1>4. CASE ~c.end_frame_called
  <2>1. e = stopped
    BY <1>4 DEF StopTimer, Outcome
  <2> HIDE DEF stopped, e
  <2>2. Consistent(stopped)
    BY <1>1, <1>2, <1>4 DEF Endable, Consistent
  <2>3. QED
    BY <1>2, <1>4, <2>1, <2>2 DEF e
<1>5. QED
  BY <1>3, <1>4

-----------------------------------------------------------------------------
(* Sync requests. *)

\* The clock when FreezeForValue has dealt with the timer of a frame whose
\* end was called for.
LEMMA StoppedFreezable ==
  ASSUME NEW c, Consistent(c), c.frame_sync_supported, ~c.in_frame \/ c.end_frame_called,
         NEW forward \in BOOLEAN
  PROVE  LET s == IF c.end_frame_timer THEN StopTimer(c, forward).clock ELSE c
         IN  /\ Freezable(s)
             /\ s.pending_sync_value = 0
             /\ s.secondary_counter = s.next_frame_id
             /\ s.predict_refresh = c.predict_refresh
             /\ s.frame_sync_supported <=> c.frame_sync_supported
             /\ s.configured = c.configured
             /\ \/ s.next_frame_id = c.next_frame_id
                \/ /\ FrameOpen(c)
                   /\ c.end_frame_timer
                   /\ s.next_frame_id > c.next_frame_id
                   /\ s.next_frame_id % 2 = 0
                   /\ ~c.configured => s.next_frame_id = CloseId(c.next_frame_id)
PROOF
<1> DEFINE t == StopTimer(c, forward).clock
           s == IF c.end_frame_timer THEN t ELSE c
<1>1. /\ Consistent(s)
      /\ ~FrameOpen(s)
      /\ ~s.end_frame_timer
      /\ s.predict_refresh = c.predict_refresh
      /\ s.frame_sync_supported <=> c.frame_sync_supported
      /\ s.configured = c.configured
      /\ \/ s.next_frame_id = c.next_frame_id
         \/ /\ FrameOpen(c)
            /\ c.end_frame_timer
            /\ s.next_frame_id > c.next_frame_id
            /\ s.next_frame_id % 2 = 0
            /\ ~c.configured => s.next_frame_id = CloseId(c.next_frame_id)
  <2>1. CASE c.end_frame_timer
    <3>1. c.end_frame_called /\ s = t
      BY <2>1 DEF Consistent, FrameOpen
    <3> HIDE DEF s, t
    <3>2. t.frame_sync_supported <=> c.frame_sync_supported
      BY StopTimerConsistent DEF t
    <3>3. /\ Consistent(t)
          /\ ~FrameOpen(t)
          /\ ~t.end_frame_timer
          /\ t.predict_refresh = c.predict_refresh
          /\ t.configured = c.configured
          /\ \/ t.next_frame_id = c.next_frame_id
             \/ /\ FrameOpen(c)
                /\ t.next_frame_id > c.next_frame_id
                /\ t.next_frame_id % 2 = 0
                /\ ~c.configured => t.next_frame_id = CloseId(c.next_frame_id)
      BY <3>1, StopTimerConsistent DEF t
    <3>4. QED
      BY <2>1, <3>1, <3>2, <3>3
  <2>2. CASE ~c.end_frame_timer
    BY <2>2 DEF Consistent, FrameOpen
  <2>3. QED
    BY <2>1, <2>2
<1> HIDE DEF s, t
<1>2. Freezable(s) /\ s.pending_sync_value = 0 /\ s.secondary_counter = s.next_frame_id
  BY <1>1 DEF Consistent, Freezable, ClockType
<1>3. QED
  BY <1>1, <1>2 DEF s, t

LEMMA SyncRequestConsistent ==
  ASSUME NEW c, Consistent(c), c.frame_sync_supported, NEW value \in Nat \ {0},
         NEW forward \in BOOLEAN
  PROVE  LET d == SyncRequest(c, value, forward).clock
         IN  /\ Consistent(d)
             /\ d.predict_refresh = c.predict_refresh
             /\ d.frame_sync_supported <=> c.frame_sync_supported
             /\ d.end_frame_timer => c.end_frame_timer
             /\ Fresh(c) /\ (c.end_frame_timer => EvenValue(value) % 4 = 0) => Fresh(d)
             /\ \/ d.next_frame_id = c.next_frame_id
                \/ /\ FrameOpen(c)
                   /\ d.next_frame_id > c.next_frame_id
                   /\ d.next_frame_id % 2 = 0
PROOF
<1> DEFINE r == [c EXCEPT !.configured = FALSE]
           v == EvenValue(value)
           p == [r EXCEPT !.pending_sync_value = v]
           s == IF r.end_frame_timer THEN StopTimer(r, forward).clock ELSE r
           f == Freeze(s, v, forward).clock
           d == SyncRequest(c, value, forward).clock
<1>1. /\ Consistent(r)
      /\ ~r.configured
      /\ r.predict_refresh = c.predict_refresh
      /\ r.frame_sync_supported <=> c.frame_sync_supported
      /\ r.end_frame_timer = c.end_frame_timer
      /\ r.next_frame_id = c.next_frame_id
      /\ Fresh(r) <=> Fresh(c)
      /\ FrameOpen(r) <=> FrameOpen(c)
      /\ r.in_frame = c.in_frame /\ r.end_frame_called = c.end_frame_called
  BY DEF Consistent, ClockType, FrameOpen, Fresh
<1>2. v \in Nat /\ v % 2 = 0 /\ v # 0
  BY EvenValueEven
<1>3. CASE c.in_frame /\ ~c.end_frame_called
  <2>1. d = p
    BY <1>3 DEF SyncRequest, Outcome
  <2>2. CASE FrameOpen(r)
    <3>1. /\ Consistent(p)
          /\ p.predict_refresh = r.predict_refresh
          /\ p.frame_sync_supported <=> r.frame_sync_supported
          /\ p.end_frame_timer = r.end_frame_timer
          /\ p.next_frame_id = r.next_frame_id
          /\ Fresh(r) => Fresh(p)
      <4> HIDE DEF r, v
      <4>1. QED
        BY <1>1, <1>2, <2>2 DEF Consistent, ClockType, FrameOpen, Fresh
    <3> HIDE DEF p, d
    <3>2. QED
      BY <1>1, <2>1, <3>1 DEF d
  <2>3. FrameOpen(r)
    <3> HIDE DEF r
    <3>1. QED
      BY <1>1, <1>3 DEF Consistent, FrameOpen
  <2>4. QED
    BY <2>2, <2>3
<1>4. CASE ~(c.in_frame /\ ~c.end_frame_called) /\ c.next_frame_id > v
  <2>1. d = r
    BY <1>1, <1>4 DEF SyncRequest, FreezeForValue, Outcome
  <2> HIDE DEF r, d
  <2>2. QED
    BY <1>1, <2>1 DEF d
<1>5. CASE ~(c.in_frame /\ ~c.end_frame_called) /\ ~(c.next_frame_id > v)
  <2>1. d = f
    BY <1>1, <1>5 DEF SyncRequest, FreezeForValue, Outcome
  <2>2. /\ Freezable(s)
        /\ s.pending_sync_value = 0
        /\ s.secondary_counter = s.next_frame_id
        /\ s.predict_refresh = r.predict_refresh
        /\ s.configured = r.configured
        /\ \/ s.next_frame_id = r.next_frame_id
           \/ /\ FrameOpen(r)
              /\ r.end_frame_timer
              /\ s.next_frame_id > r.next_frame_id
              /\ s.next_frame_id % 2 = 0
              /\ ~r.configured => s.next_frame_id = CloseId(r.next_frame_id)
    <3> HIDE DEF r
    <3>1. ~r.in_frame \/ r.end_frame_called
      BY <1>1, <1>5
    <3>2. QED
      BY <1>1, <3>1, StoppedFreezable
  <2> HIDE DEF r, s, v, f, d
  <2>3. /\ Consistent(f)
        /\ ~FrameOpen(f)
        /\ f.next_frame_id = s.next_frame_id
        /\ f.configure_id = v
        /\ f.predict_refresh = s.predict_refresh
        /\ f.frame_sync_supported
    <3>0. Freezable(s) /\ v \in Nat /\ v % 2 = 0
      BY <1>2, <2>2
    <3>1. \/ /\ f.next_frame_id = s.next_frame_id
             /\ f.configure_id = v
             /\ f.need_configure
             /\ f.secondary_counter = s.secondary_counter
          \/ /\ f.next_frame_id > v
             /\ ~f.need_configure
             /\ s.configured
      BY ZenonT(30), <3>0, FreezeConsistent DEF f
    <3>2. Consistent(f) /\ ~FrameOpen(f)
      BY <1>2, <2>2, FreezeConsistent DEF f
    <3>3. /\ f.predict_refresh = s.predict_refresh
          /\ f.frame_sync_supported
      BY ZenonT(30), <1>2, <2>2, FreezeConsistent DEF f, Freezable
    <3>4. QED
      BY <1>1, <2>2, <3>1, <3>2, <3>3
  <2>4. c.end_frame_timer /\ v % 4 = 0 /\ FrameOpen(r) => CloseId(r.next_frame_id) <= v
    BY <1>1, <1>2, <1>5, CloseIdEven DEF Consistent, ClockType
  <2>5. ~f.end_frame_timer
    BY <2>3 DEF Consistent
  <2>6. (c.end_frame_timer => v % 4 = 0) => Fresh(f)
    BY <1>1, <1>2, <1>5, <2>2, <2>3, <2>4 DEF Fresh, Consistent, ClockType
  <2>7. QED
    BY <1>1, <2>1, <2>2, <2>3, <2>5, <2>6 DEF v, d
<1>6. QED
  BY <1>3, <1>4, <1>5

-----------------------------------------------------------------------------
(* What a call leaves of the fields that its callers read. *)

\* Freezing keeps the end of the frame called for, opens no frame of its own
\* unless the ConfigureNotify has come, and runs the callback that says so.
LEMMA FreezeFields ==
  ASSUME NEW c \in ClockType, NEW v \in Nat, NEW forward \in BOOLEAN
  PROVE  LET o == Freeze(c, v, forward)
         IN  /\ o.freeze \in {"freeze", "frame"}
             /\ o.freeze = "freeze" <=> ~c.configured
             /\ o.clock \in ClockType
             /\ o.clock.configured <=> c.configured
             /\ c.end_frame_called => o.clock.end_frame_called
             /\ o.clock.in_frame => c.configured
PROOF
<1> DEFINE frozen == [c EXCEPT !.in_frame = FALSE, !.need_configure = TRUE, !.configure_id = v]
           b == BumpFrame(frozen)
<1>1. /\ frozen \in ClockType
      /\ frozen.configured <=> c.configured
      /\ frozen.end_frame_called <=> c.end_frame_called
      /\ ~frozen.in_frame
  BY DEF ClockType
<1>2. /\ b \in ClockType
      /\ b.configured <=> frozen.configured
      /\ b.end_frame_called
  <2> DEFINE n == NewFrame(frozen, TRUE, FALSE)
             d == CloseFrame(n)
  <2>1. n \in ClockType /\ (n.configured <=> frozen.configured)
    <3>1. OpenId(v, TRUE) \in Nat
      BY DEF OpenId
    <3>2. frozen.need_configure /\ frozen.configure_id = v
      BY DEF ClockType
    <3> HIDE DEF frozen
    <3>3. CASE frozen.frame_sync_supported
      BY ZenonT(30), <1>1, <3>1, <3>2, <3>3 DEF NewFrame, SetSyncCounter, ClockType
    <3>4. CASE ~frozen.frame_sync_supported
      BY ZenonT(30), <1>1, <3>1, <3>2, <3>4 DEF NewFrame, SetSyncCounter, ClockType
    <3>5. QED
      BY <3>3, <3>4
  <2>2. d \in ClockType /\ (d.configured <=> n.configured)
    <3> HIDE DEF n
    <3>1. CloseId(n.next_frame_id) \in Nat
      BY <2>1 DEF CloseId, ClockType
    <3>2. QED
      BY <2>1, <3>1 DEF CloseFrame, ClockType
  <2> HIDE DEF d
  <2>3. QED
    BY <2>1, <2>2 DEF BumpFrame, SetSyncCounter, ClockType, d
<1> HIDE DEF b, frozen
<1>3. QED
  BY <1>1, <1>2 DEF Freeze, Outcome, frozen, b

\* Once EndFrame has run its end was called for; it freezes only for a
\* postponed request, and never opens a frame outside of one.
LEMMA EndFrameFields ==
  ASSUME NEW c \in ClockType, c.pending_sync_value # 0 => c.in_frame,
         NEW forward \in BOOLEAN
  PROVE  LET o == EndFrame(c, forward)
         IN  /\ o.freeze \in Freezes
             /\ o.freeze = "freeze" => ~c.configured
             /\ o.freeze # "none" => c.pending_sync_value # 0
             /\ o.clock.configured <=> c.configured
             /\ o.clock.end_frame_called
             /\ o.clock.in_frame => c.in_frame
PROOF
<1> DEFINE called == [c EXCEPT !.end_frame_called = TRUE]
           closed == CloseFrame(called)
           froze == Freeze(closed, c.pending_sync_value, forward)
           after(x) == SetSyncCounter([x EXCEPT !.pending_sync_value = 0])
           o == EndFrame(c, forward)
<1>0. /\ called \in ClockType
      /\ called.configured <=> c.configured
      /\ called.in_frame <=> c.in_frame
      /\ called.end_frame_called
  BY DEF ClockType
<1>1. /\ closed \in ClockType
      /\ closed.configured <=> c.configured
      /\ closed.in_frame <=> c.in_frame
      /\ closed.end_frame_called
  <2> HIDE DEF called
  <2>1. CloseId(called.next_frame_id) \in Nat
    BY <1>0 DEF CloseId, ClockType
  <2>2. QED
    BY <1>0, <2>1 DEF ClockType, CloseFrame
<1>2. CASE o = Outcome(called, "none")
  <2> HIDE DEF called
  <2>1. o.clock = called /\ o.freeze = "none"
    BY <1>2 DEF Outcome
  <2> HIDE DEF o
  <2>2. QED
    BY <1>0, <2>1 DEF Freezes, o
<1>3. CASE o = Outcome(after(closed), "none")
  <2> HIDE DEF closed
  <2>1. /\ after(closed).configured <=> closed.configured
        /\ after(closed).end_frame_called <=> closed.end_frame_called
        /\ after(closed).in_frame <=> closed.in_frame
    BY <1>1, SettledFields
  <2> HIDE DEF after
  <2>2. o.clock = after(closed) /\ o.freeze = "none"
    BY <1>3 DEF Outcome
  <2> HIDE DEF o
  <2>3. QED
    BY <1>1, <2>1, <2>2 DEF Freezes, o
<1>4. CASE /\ c.in_frame /\ c.pending_sync_value # 0
           /\ o = Outcome(after(froze.clock), froze.freeze)
  <2>1. c.pending_sync_value \in Nat
    BY DEF ClockType
  <2> HIDE DEF closed
  <2>2. /\ froze.freeze \in {"freeze", "frame"}
        /\ froze.freeze = "freeze" <=> ~closed.configured
        /\ froze.clock \in ClockType
        /\ froze.clock.configured <=> closed.configured
        /\ froze.clock.end_frame_called
    BY <1>1, <2>1, FreezeFields
  <2>3. /\ after(froze.clock).configured <=> froze.clock.configured
        /\ after(froze.clock).end_frame_called <=> froze.clock.end_frame_called
    <3> DEFINE d == froze.clock
    <3> HIDE DEF froze
    <3>1. d \in ClockType
      BY <2>2
    <3> HIDE DEF d
    <3>2. (after(d).configured <=> d.configured) /\ (after(d).end_frame_called <=> d.end_frame_called)
      BY <3>1, SettledFields
    <3>3. QED
      BY <3>2 DEF d
  <2> HIDE DEF froze, after
  <2>4. o.clock = after(froze.clock) /\ o.freeze = froze.freeze
    BY <1>4 DEF Outcome
  <2> HIDE DEF o
  <2>5. QED
    BY <1>1, <1>4, <2>2, <2>3, <2>4 DEF Freezes, o
<1>5. QED
  BY <1>2, <1>3, <1>4 DEF EndFrame, Outcome

\* A freeze that may forward the counter leaves the clock waiting only if it
\* told the client so.
LEMMA FreezeForwards ==
  ASSUME NEW c \in ClockType, c.frame_sync_supported, NEW v \in Nat,
         NEW forward \in BOOLEAN
  PROVE  forward /\ Freeze(c, v, forward).freeze # "freeze"
           => ~Freeze(c, v, forward).clock.need_configure
PROOF
<1> DEFINE frozen == [c EXCEPT !.in_frame = FALSE, !.need_configure = TRUE, !.configure_id = v]
           n == NewFrame(frozen, TRUE, FALSE)
<1>1. /\ frozen \in ClockType /\ frozen.need_configure /\ frozen.configure_id = v
      /\ frozen.frame_sync_supported
  BY DEF ClockType
<1>2. OpenId(v, TRUE) \in Nat
  BY DEF OpenId
<1>3. forward /\ Freeze(c, v, forward).freeze # "freeze"
        => Freeze(c, v, forward).clock = BumpFrame(frozen)
  BY DEF Freeze, Outcome
<1> HIDE DEF frozen
<1>4. n \in ClockType /\ ~n.need_configure
  <2>1. n = [frozen EXCEPT !.next_frame_id = OpenId(v, TRUE), !.finished_frame_id = 0,
                           !.in_frame = TRUE, !.end_frame_called = FALSE,
                           !.need_configure = FALSE, !.secondary_counter = OpenId(v, TRUE)]
    BY <1>1, <1>2 DEF NewFrame, SetSyncCounter, ClockType
  <2> HIDE DEF n
  <2>2. QED
    BY ZenonT(30), <1>1, <1>2, <2>1 DEF ClockType
<1> HIDE DEF n
<1>5. CloseId(n.next_frame_id) \in Nat
  BY <1>4 DEF CloseId, ClockType
<1>6. CloseFrame(n) \in ClockType /\ ~CloseFrame(n).need_configure
  BY <1>4, <1>5 DEF CloseFrame, ClockType
<1>7. ~BumpFrame(frozen).need_configure
  BY <1>6 DEF BumpFrame, SetSyncCounter, ClockType, n
<1>8. QED
  BY <1>3, <1>7

\* The same of EndFrame, for a clock that was not waiting.
LEMMA EndFrameForwards ==
  ASSUME NEW c, Consistent(c), NEW forward \in BOOLEAN
  PROVE  forward /\ ~c.need_configure /\ EndFrame(c, forward).freeze # "freeze"
           => ~EndFrame(c, forward).clock.need_configure
PROOF
<1> DEFINE called == [c EXCEPT !.end_frame_called = TRUE]
           closed == CloseFrame(called)
           froze == Freeze(closed, c.pending_sync_value, forward)
           after(x) == SetSyncCounter([x EXCEPT !.pending_sync_value = 0])
           o == EndFrame(c, forward)
<1>1. /\ called \in ClockType
      /\ called.need_configure <=> c.need_configure
      /\ (called.frame_sync_supported <=> c.frame_sync_supported)
  BY DEF ClockType, Consistent
<1>2. /\ closed \in ClockType
      /\ closed.need_configure <=> c.need_configure
      /\ closed.frame_sync_supported <=> c.frame_sync_supported
  <2> HIDE DEF called
  <2>1. CloseId(called.next_frame_id) \in Nat
    BY <1>1 DEF CloseId, ClockType
  <2>2. QED
    BY <1>1, <2>1 DEF ClockType, CloseFrame
<1>3. CASE o = Outcome(called, "none")
  <2> HIDE DEF called
  <2>1. o.clock = called
    BY <1>3 DEF Outcome
  <2> HIDE DEF o
  <2>2. QED
    BY <1>1, <2>1 DEF o
<1>4. CASE o = Outcome(after(closed), "none")
  <2> HIDE DEF closed
  <2>1. after(closed).need_configure <=> closed.need_configure
    BY <1>2, SettledFields
  <2> HIDE DEF after
  <2>2. o.clock = after(closed)
    BY <1>4 DEF Outcome
  <2> HIDE DEF o
  <2>3. QED
    BY <1>2, <2>1, <2>2 DEF o
<1>5. CASE c.pending_sync_value # 0 /\ o = Outcome(after(froze.clock), froze.freeze)
  <2>1. c.pending_sync_value \in Nat /\ c.frame_sync_supported
    BY <1>5 DEF ClockType, Consistent
  <2> HIDE DEF closed
  <2>2. o.clock = after(froze.clock) /\ o.freeze = froze.freeze
    BY <1>5 DEF Outcome
  <2>3. /\ froze.clock \in ClockType
        /\ forward /\ froze.freeze # "freeze" => ~froze.clock.need_configure
    BY <1>2, <2>1, FreezeFields, FreezeForwards
  <2> DEFINE d == froze.clock
  <2>4. d \in ClockType
    BY <2>3
  <2> HIDE DEF d
  <2>5. after(d).need_configure <=> d.need_configure
    BY <2>4, SettledFields
  <2> HIDE DEF after, o
  <2>6. QED
    BY <2>2, <2>3, <2>5 DEF o, d
<1>6. QED
  BY <1>3, <1>4, <1>5 DEF EndFrame, Outcome

\* The end of the timer ends a frame only if its end was called for.
LEMMA StopTimerFields ==
  ASSUME NEW c, Consistent(c), NEW forward \in BOOLEAN
  PROVE  LET o == StopTimer(c, forward)
         IN  /\ o.freeze \in Freezes
             /\ o.freeze = "freeze" => ~c.configured
             /\ o.freeze # "none" => c.end_frame_called
             /\ o.clock.configured <=> c.configured
             /\ o.clock.end_frame_called <=> c.end_frame_called
             /\ o.clock.in_frame => c.in_frame
             /\ ~c.end_frame_called => (o.clock.in_frame <=> c.in_frame)
PROOF
<1> DEFINE s == [c EXCEPT !.end_frame_timer = FALSE]
           e == EndFrame(s, forward)
           o == StopTimer(c, forward)
<1>1. /\ s \in ClockType
      /\ s.pending_sync_value # 0 => s.in_frame
      /\ s.configured <=> c.configured
      /\ s.end_frame_called <=> c.end_frame_called
      /\ s.in_frame <=> c.in_frame
  BY DEF Consistent, ClockType, FrameOpen
<1>2. CASE c.end_frame_called
  <2>1. o = e
    BY <1>2 DEF StopTimer
  <2> HIDE DEF s, o
  <2>2. /\ e.freeze \in Freezes
        /\ e.freeze = "freeze" => ~s.configured
        /\ e.clock.configured <=> s.configured
        /\ e.clock.end_frame_called
        /\ e.clock.in_frame => s.in_frame
    BY <1>1, EndFrameFields
  <2> HIDE DEF e
  <2>3. QED
    BY <1>1, <1>2, <2>1, <2>2 DEF o
<1>3. CASE ~c.end_frame_called
  <2> HIDE DEF s
  <2>1. o.clock = s /\ o.freeze = "none"
    BY <1>3 DEF StopTimer, Outcome, s
  <2> HIDE DEF o
  <2>2. QED
    BY <1>1, <1>3, <2>1 DEF Freezes, o
<1>4. QED
  BY <1>2, <1>3

\* A sync request leaves a frame that is being drawn alone, and else freezes
\* the clock until its ConfigureNotify comes, unless its value is out of date.
LEMMA SyncRequestFields ==
  ASSUME NEW c, Consistent(c), c.frame_sync_supported, NEW value \in Nat,
         NEW forward \in BOOLEAN
  PROVE  LET o == SyncRequest(c, value, forward)
         IN  /\ o.freeze \in {"none", "freeze"}
             /\ o.freeze = "freeze" => ~c.in_frame \/ c.end_frame_called
             /\ ~o.clock.configured
             /\ c.end_frame_called => o.clock.end_frame_called
             /\ o.clock.in_frame => c.in_frame
             /\ c.in_frame /\ ~c.end_frame_called
                  => o.clock.in_frame /\ ~o.clock.end_frame_called
PROOF
<1> DEFINE r == [c EXCEPT !.configured = FALSE]
           v == EvenValue(value)
           t == StopTimer(r, forward)
           s == IF r.end_frame_timer THEN t.clock ELSE r
           f == Freeze(s, v, forward)
           o == SyncRequest(c, value, forward)
<1>1. /\ Consistent(r)
      /\ ~r.configured
      /\ r.end_frame_called <=> c.end_frame_called
      /\ r.in_frame <=> c.in_frame
      /\ r.frame_sync_supported
      /\ r.next_frame_id = c.next_frame_id
  BY DEF Consistent, ClockType, FrameOpen
<1>2. v \in Nat
  BY DEF EvenValue
<1>3. CASE c.in_frame /\ ~c.end_frame_called
  <2> DEFINE p == [r EXCEPT !.pending_sync_value = v]
  <2>1. o.clock = p /\ o.freeze = "none"
    BY <1>3 DEF SyncRequest, Outcome
  <2>2. ~p.configured /\ p.in_frame /\ ~p.end_frame_called
    BY <1>3 DEF Consistent, ClockType
  <2> HIDE DEF p, o
  <2>3. QED
    BY <1>3, <2>1, <2>2 DEF o
<1>4. CASE ~(c.in_frame /\ ~c.end_frame_called) /\ c.next_frame_id > v
  <2>1. o.clock = r /\ o.freeze = "none"
    BY <1>1, <1>4 DEF SyncRequest, FreezeForValue, Outcome
  <2> HIDE DEF r, o
  <2>2. QED
    BY <1>1, <1>4, <2>1 DEF o
<1>5. CASE ~(c.in_frame /\ ~c.end_frame_called) /\ ~(c.next_frame_id > v)
  <2>1. o = f
    BY <1>1, <1>5 DEF SyncRequest, FreezeForValue, Outcome
  <2>2. /\ s \in ClockType
        /\ ~s.configured
        /\ s.end_frame_called <=> r.end_frame_called
    <3> HIDE DEF r
    <3>1. Consistent(t.clock) /\ ~t.clock.configured
          /\ (t.clock.end_frame_called <=> r.end_frame_called)
      BY <1>1, StopTimerConsistent, StopTimerFields
    <3> HIDE DEF t
    <3>2. QED
      BY <1>1, <3>1 DEF Consistent
  <2> HIDE DEF r, s, v, o
  <2>3. /\ f.freeze = "freeze"
        /\ ~f.clock.configured
        /\ s.end_frame_called => f.clock.end_frame_called
        /\ ~f.clock.in_frame
    BY <1>2, <2>2, FreezeFields
  <2> HIDE DEF f
  <2>4. QED
    BY <1>1, <1>5, <2>1, <2>2, <2>3 DEF o
<1>6. QED
  BY <1>3, <1>4, <1>5

\* A frame that could start is open, its end not called for, and no longer
\* frozen.
LEMMA StartFrameFields ==
  ASSUME NEW c, Consistent(c), CanStartFrame(c), NEW arm \in BOOLEAN
  PROVE  LET s == StartFrame(c, FALSE, arm)
         IN  /\ s.in_frame /\ ~s.end_frame_called
             /\ ~s.need_configure
             /\ s.configured <=> c.configured
             /\ s.frame_sync_supported <=> c.frame_sync_supported
PROOF
<1> DEFINE n == NewFrame(c, FALSE, arm)
           s == StartFrame(c, FALSE, arm)
<1>1. CASE c.in_frame
  <2>1. s = [c EXCEPT !.end_frame_called = FALSE]
    BY <1>1 DEF StartFrame
  <2> HIDE DEF s
  <2>2. QED
    BY <1>1, <2>1 DEF Consistent, ClockType, s
<1>2. CASE ~c.in_frame
  <2>1. s = n
    BY <1>2 DEF StartFrame
  <2>2. CASE c.frame_sync_supported
    BY ZenonT(30), <2>1, <2>2 DEF NewFrame, SetSyncCounter, Consistent, ClockType
  <2>3. CASE ~c.frame_sync_supported
    BY ZenonT(30), <2>1, <2>3 DEF NewFrame, SetSyncCounter, Consistent, ClockType
  <2>4. QED
    BY <2>2, <2>3
<1>3. QED
  BY <1>1, <1>2

\* The calls that set one field.
LEMMA NoteConfigureConsistent ==
  ASSUME NEW c, Consistent(c)
  PROVE  /\ Consistent(NoteConfigure(c))
         /\ NoteConfigure(c).configured
         /\ NoteConfigure(c).frame_sync_supported <=> c.frame_sync_supported
         /\ NoteConfigure(c).in_frame <=> c.in_frame
         /\ NoteConfigure(c).end_frame_called <=> c.end_frame_called
         /\ NoteConfigure(c).end_frame_timer <=> c.end_frame_timer
         /\ NoteConfigure(c).need_configure <=> c.need_configure
         /\ NoteConfigure(c).next_frame_id = c.next_frame_id
         /\ NoteConfigure(c).secondary_counter = c.secondary_counter
BY DEF NoteConfigure, Consistent, ClockType, FrameOpen

LEMMA SetPredictRefreshConsistent ==
  ASSUME NEW c, Consistent(c), NEW predict \in BOOLEAN
  PROVE  LET d == SetPredictRefresh(c, predict)
         IN  /\ Consistent(d)
             /\ CanStartFrame(d) <=> CanStartFrame(c)
             /\ d.configured <=> c.configured
             /\ d.frame_sync_supported <=> c.frame_sync_supported
BY DEF SetPredictRefresh, CanStartFrame, Consistent, ClockType, FrameOpen

LEMMA FrameDrawnConsistent ==
  ASSUME NEW c, Consistent(c), IsFakeFrame(c)
  PROVE  /\ Consistent(FrameDrawn(c))
         /\ ~FrameDrawn(c).in_frame
         /\ c.end_frame_called
         /\ FrameDrawn(c).configured <=> c.configured
         /\ FrameDrawn(c).frame_sync_supported <=> c.frame_sync_supported
BY DEF FrameDrawn, IsFakeFrame, Consistent, ClockType, FrameOpen

=============================================================================
