-------------------------- MODULE FrameClockProofs --------------------------
(***************************************************************************)
(* For every window manager and every length of a run: the frame clock     *)
(* keeps the inductive invariant Consistent, and with it the parity of the *)
(* counter, the discipline of its timer and of postponed and frozen sync   *)
(* requests; and, where the translator starts no frame from a stale value, *)
(* it implements the counter protocol of SyncCounter.                      *)
(***************************************************************************)
EXTENDS FrameClock, ClockLemmas

(* The specification. *)

\* Without a monotonic server clock the translator never predicts.
Untimed(c) == ~ServerTimeMonotonic => ~c.predict_refresh /\ ~c.end_frame_timer

\* With prediction, a closing frame passes no requested value.
AlignedRequests ==
  ServerTimeMonotonic => \A v \in SyncValues : EvenValue(v) % 4 = 0

\* A step of the clock begins a frame, ends one, or moves no value.
CounterStep(c, d) ==
  /\ d.frame_sync_supported <=> c.frame_sync_supported
  /\ \/ d.next_frame_id = c.next_frame_id
     \/ c.next_frame_id % 2 = 0 /\ d.next_frame_id % 2 = 1 /\ d.next_frame_id > c.next_frame_id
     \/ c.next_frame_id % 2 = 1 /\ d.next_frame_id % 2 = 0 /\ d.next_frame_id > c.next_frame_id

LEMMA InitConsistent ==
  ASSUME NEW supported \in FrameSync
  PROVE  LET c == InitClock(supported) IN Consistent(c) /\ Untimed(c) /\ Fresh(c)
BY ClockAssumption DEF InitClock, Consistent, ClockType, FrameOpen, Untimed, Fresh

LEMMA StartFrameStep ==
  ASSUME NEW c, Consistent(c), Fresh(c), Untimed(c), NEW arm \in BOOLEAN
  PROVE  LET d == StartFrame(c, FALSE, arm)
         IN  Fresh(d) /\ Untimed(d) /\ CounterStep(c, d)
PROOF
<1> DEFINE base == IF c.need_configure THEN c.configure_id ELSE c.next_frame_id
           n == NewFrame(c, FALSE, arm)
           d == StartFrame(c, FALSE, arm)
           no == FALSE
           open == OpenId(base, no)
<1>1. CASE CanStartFrame(c) /\ ~c.in_frame
  <2>1. d = n
    BY <1>1 DEF StartFrame
  <2>2. base \in Nat /\ base % 2 = 0 /\ base >= c.next_frame_id /\ c.next_frame_id % 2 = 0
    BY <1>1 DEF Consistent, ClockType, FrameOpen, Fresh
  <2>3. open \in Nat /\ open % 2 = 1 /\ open > base
    <3> HIDE DEF base, no
    <3>1. no \in BOOLEAN
      BY DEF no
    <3>2. QED
      BY <2>2, <3>1, OpenIdOdd
  <2>4. /\ n.next_frame_id = open
        /\ n.need_configure => ~c.frame_sync_supported /\ c.need_configure
        /\ n.predict_refresh = c.predict_refresh
        /\ n.frame_sync_supported <=> c.frame_sync_supported
        /\ n.end_frame_timer => c.predict_refresh \/ c.end_frame_timer
    BY <2>3, ClockAssumption DEF NewFrame, SetSyncCounter, Consistent, ClockType
  <2> HIDE DEF d, n, open, base
  <2>5. CounterStep(c, n)
    BY <2>2, <2>3, <2>4 DEF CounterStep, Consistent, ClockType
  <2>6. Fresh(n) /\ Untimed(n)
    BY <2>4 DEF Fresh, Untimed, Consistent
  <2>7. QED
    BY <2>1, <2>5, <2>6 DEF d
<1>2. CASE ~CanStartFrame(c)
  BY <1>2 DEF StartFrame, CounterStep
<1>3. CASE CanStartFrame(c) /\ c.in_frame
  BY <1>3 DEF StartFrame, CounterStep, Fresh, Untimed, Consistent, ClockType
<1>4. QED
  BY <1>1, <1>2, <1>3 DEF Consistent, ClockType

\* Every step keeps the clock consistent, whoever the window manager is.
LEMMA NextConsistent == Consistent(clock) /\ [Next]_clockVars => Consistent(clock')
PROOF
<1> SUFFICES ASSUME Consistent(clock), [Next]_clockVars
             PROVE  Consistent(clock')
  OBVIOUS
<1>1. CASE CallStartFrame
  <2>1. PICK arm \in BOOLEAN : clock' = StartFrame(clock, FALSE, arm)
    BY <1>1 DEF CallStartFrame, Becomes, Outcome
  <2> DEFINE no == FALSE
  <2>2. no \in BOOLEAN /\ clock' = StartFrame(clock, no, arm)
    BY <2>1
  <2> HIDE DEF no
  <2>3. QED
    BY <2>2, StartFrameConsistent
<1>2. CASE CallEndFrame
  <2>1. PICK forward \in BOOLEAN : clock' = EndFrame(clock, forward).clock
    BY <1>2 DEF CallEndFrame, Becomes
  <2>2. Endable(clock)
    BY ConsistentEndable
  <2>3. QED
    BY <2>1, <2>2, EndFrameConsistent
<1>3. CASE HandleEndFrame
  BY <1>3, StopTimerConsistent DEF HandleEndFrame, Becomes
<1>4. CASE HandleSyncRequest
  BY <1>4, SyncRequestConsistent, ClockAssumption DEF HandleSyncRequest, Becomes
<1>5. CASE HandleFrameDrawn
  BY <1>5 DEF HandleFrameDrawn, Becomes, Outcome, FrameDrawn, IsFrameDrawn,
              Consistent, ClockType, FrameOpen
<1>6. CASE NoteFakeFrame
  BY <1>6 DEF NoteFakeFrame, Becomes, Outcome, FrameDrawn, IsFakeFrame,
              Consistent, ClockType, FrameOpen
<1>7. CASE CallNoteConfigure
  BY <1>7 DEF CallNoteConfigure, Becomes, Outcome, NoteConfigure,
              Consistent, ClockType, FrameOpen
<1>8. CASE CallSetPredictRefresh
  BY <1>8 DEF CallSetPredictRefresh, Becomes, Outcome, SetPredictRefresh,
              Consistent, ClockType, FrameOpen
<1>9. CASE UNCHANGED clockVars
  BY <1>9 DEF clockVars
<1>10. QED
  BY <1>1, <1>2, <1>3, <1>4, <1>5, <1>6, <1>7, <1>8, <1>9 DEF Next

\* The freeze callbacks that a step may run.
LEMMA FreezeTypes ==
  /\ \A c, v, forward : Freeze(c, v, forward).freeze \in Freezes
  /\ \A c, forward : EndFrame(c, forward).freeze \in Freezes
  /\ \A c, forward : StopTimer(c, forward).freeze \in Freezes
  /\ \A c, v, forward : SyncRequest(c, v, forward).freeze \in Freezes
PROOF
<1>1. \A c, v, forward : Freeze(c, v, forward).freeze \in Freezes
  BY DEF Freeze, Outcome, Freezes
<1>2. \A c, forward : EndFrame(c, forward).freeze \in Freezes
  BY <1>1 DEF EndFrame, Outcome, Freezes
<1>3. \A c, forward : StopTimer(c, forward).freeze \in Freezes
  BY <1>2 DEF StopTimer, Outcome, Freezes
<1>4. \A c, v, forward : SyncRequest(c, v, forward).freeze \in Freezes
  BY <1>1 DEF SyncRequest, FreezeForValue, Outcome, Freezes
<1>5. QED
  BY <1>1, <1>2, <1>3, <1>4

LEMMA NextFreeze == freeze \in Freezes /\ [Next]_clockVars => freeze' \in Freezes
PROOF
<1> SUFFICES ASSUME freeze \in Freezes, [Next]_clockVars
             PROVE  freeze' \in Freezes
  OBVIOUS
<1>1. CASE CallStartFrame \/ HandleFrameDrawn \/ NoteFakeFrame
           \/ CallNoteConfigure \/ CallSetPredictRefresh
  BY <1>1 DEF CallStartFrame, HandleFrameDrawn, NoteFakeFrame, CallNoteConfigure,
              CallSetPredictRefresh, Becomes, Outcome, Freezes
<1>2. CASE CallEndFrame
  BY <1>2, FreezeTypes DEF CallEndFrame, Becomes
<1>3. CASE HandleEndFrame
  BY <1>3, FreezeTypes DEF HandleEndFrame, Becomes
<1>4. CASE HandleSyncRequest
  BY <1>4, FreezeTypes DEF HandleSyncRequest, Becomes
<1>5. CASE UNCHANGED clockVars
  BY <1>5 DEF clockVars
<1>6. QED
  BY <1>1, <1>2, <1>3, <1>4, <1>5 DEF Next

\* The inductive invariant holds in every state of every run: StartFrame,
\* EndFrame, the timer, freezes and the window manager's events all keep it.
THEOREM ClockConsistent == Spec => []ConsistentClock
PROOF
<1>1. Init => ConsistentClock
  BY InitConsistent DEF Init, ConsistentClock
<1>2. ConsistentClock /\ [Next]_clockVars => ConsistentClock'
  BY NextConsistent DEF ConsistentClock
<1>3. QED
  BY <1>1, <1>2, PTL DEF Spec

\* The fields of struct _FrameClock keep their types.
THEOREM ClockTypeOK == Spec => []TypeOK
PROOF
<1>1. Init => freeze \in Freezes
  BY DEF Init, Freezes
<1>2. freeze \in Freezes /\ [Next]_clockVars => (freeze \in Freezes)'
  BY NextFreeze
<1>3. ConsistentClock /\ freeze \in Freezes => TypeOK
  BY DEF ConsistentClock, Consistent, TypeOK
<1>4. QED
  BY <1>1, <1>2, <1>3, ClockConsistent, PTL DEF Spec

\* The value the X server holds is odd exactly while a frame is open, for
\* whatever values the window manager asks.
THEOREM ClockCounterParity == Spec => []CounterParity
PROOF
<1>1. ConsistentClock => CounterParity
  BY DEF ConsistentClock, Consistent, CounterParity
<1>2. QED
  BY <1>1, ClockConsistent, PTL

\* The assertion of PostEndFrame, and that no timer outlives its frame.
THEOREM ClockTimer == Spec => []TimerInOpenFrame
PROOF
<1>1. ConsistentClock => TimerInOpenFrame
  BY DEF ConsistentClock, Consistent, TimerInOpenFrame
<1>2. QED
  BY <1>1, ClockConsistent, PTL

\* A postponed sync request always has the end of a frame to wait for, and a
\* frozen clock never has a frame in the way of the next one.
THEOREM ClockRequests == Spec => [](PostponedRequestHasFrame /\ FrozenClockIsIdle)
PROOF
<1>1. ConsistentClock => PostponedRequestHasFrame /\ FrozenClockIsIdle
  BY DEF ConsistentClock, Consistent, PostponedRequestHasFrame, FrozenClockIsIdle
<1>2. QED
  BY <1>1, ClockConsistent, PTL

-----------------------------------------------------------------------------
(* The counter protocol. *)

FreshClock == Consistent(clock) /\ Fresh(clock) /\ Untimed(clock)

LEMMA NextFresh ==
  ASSUME AlignedRequests, FreshClock, [Next]_clockVars
  PROVE  FreshClock' /\ CounterStep(clock, clock')
PROOF
<1>1. Consistent(clock) /\ Fresh(clock) /\ Untimed(clock) /\ Consistent(clock')
  BY NextConsistent DEF FreshClock
<1>2. CASE CallStartFrame
  BY <1>1, <1>2, StartFrameStep DEF CallStartFrame, Becomes, Outcome, FreshClock
<1>3. CASE CallEndFrame
  <2>1. PICK forward \in BOOLEAN : clock' = EndFrame(clock, forward).clock
    BY <1>3 DEF CallEndFrame, Becomes
  <2>2. Endable(clock)
    BY <1>1, ConsistentEndable
  <2>3. /\ Fresh(clock')
        /\ clock'.predict_refresh = clock.predict_refresh
        /\ clock'.frame_sync_supported <=> clock.frame_sync_supported
        /\ clock'.end_frame_timer => clock.end_frame_timer
        /\ \/ clock'.next_frame_id = clock.next_frame_id
           \/ /\ FrameOpen(clock)
              /\ clock'.next_frame_id > clock.next_frame_id
              /\ clock'.next_frame_id % 2 = 0
    BY <1>1, <2>1, <2>2, EndFrameConsistent
  <2>4. QED
    BY <1>1, <2>3 DEF FreshClock, Untimed, CounterStep, Consistent
<1>4. CASE HandleEndFrame
  <2>1. PICK forward \in BOOLEAN : clock' = StopTimer(clock, forward).clock
    BY <1>4 DEF HandleEndFrame, Becomes
  <2>2. /\ Fresh(clock')
        /\ clock'.predict_refresh = clock.predict_refresh
        /\ clock'.frame_sync_supported <=> clock.frame_sync_supported
        /\ ~clock'.end_frame_timer
        /\ \/ clock'.next_frame_id = clock.next_frame_id
           \/ /\ FrameOpen(clock)
              /\ clock'.next_frame_id > clock.next_frame_id
              /\ clock'.next_frame_id % 2 = 0
    BY <1>1, <2>1, StopTimerConsistent
  <2>3. QED
    BY <1>1, <2>2 DEF FreshClock, Untimed, CounterStep, Consistent
<1>5. CASE HandleSyncRequest
  <2>1. PICK value \in SyncValues, forward \in BOOLEAN :
          clock' = SyncRequest(clock, value, forward).clock
    BY <1>5 DEF HandleSyncRequest, Becomes
  <2>2. clock.frame_sync_supported /\ value \in Nat \ {0}
    BY <1>5, ClockAssumption DEF HandleSyncRequest
  <2>3. clock.end_frame_timer => EvenValue(value) % 4 = 0
    BY <1>1 DEF AlignedRequests, Untimed
  <2>4. /\ Fresh(clock')
        /\ clock'.predict_refresh = clock.predict_refresh
        /\ clock'.frame_sync_supported <=> clock.frame_sync_supported
        /\ clock'.end_frame_timer => clock.end_frame_timer
        /\ \/ clock'.next_frame_id = clock.next_frame_id
           \/ /\ FrameOpen(clock)
              /\ clock'.next_frame_id > clock.next_frame_id
              /\ clock'.next_frame_id % 2 = 0
    BY <1>1, <2>1, <2>2, <2>3, SyncRequestConsistent
  <2>5. QED
    BY <1>1, <2>4 DEF FreshClock, Untimed, CounterStep, Consistent
<1>6. CASE HandleFrameDrawn \/ NoteFakeFrame
  BY <1>1, <1>6 DEF HandleFrameDrawn, NoteFakeFrame, Becomes, Outcome, FrameDrawn,
     FreshClock, Fresh, Untimed, CounterStep, Consistent, ClockType
<1>7. CASE CallNoteConfigure
  BY <1>1, <1>7 DEF CallNoteConfigure, NoteConfigure, Becomes, Outcome,
     FreshClock, Fresh, Untimed, CounterStep, Consistent, ClockType
<1>8. CASE CallSetPredictRefresh
  BY <1>1, <1>8 DEF CallSetPredictRefresh, SetPredictRefresh, Becomes, Outcome,
     FreshClock, Fresh, Untimed, CounterStep, Consistent, ClockType
<1>9. CASE UNCHANGED clockVars
  BY <1>1, <1>9 DEF clockVars, FreshClock, CounterStep
<1>10. QED
  BY <1>2, <1>3, <1>4, <1>5, <1>6, <1>7, <1>8, <1>9 DEF Next

\* If no frame is ended inside FreezeForValue at a value past the request,
\* a frozen clock never waits for a value it has already shown.
THEOREM ClockFresh == ASSUME AlignedRequests PROVE Spec => []FrozenForCurrentValue
PROOF
<1>1. Init => FreshClock
  BY InitConsistent DEF Init, FreshClock
<1>2. FreshClock /\ [Next]_clockVars => FreshClock'
  BY NextFresh
<1>3. FreshClock => FrozenForCurrentValue
  BY DEF FreshClock, Fresh, FrozenForCurrentValue
<1>4. QED
  BY <1>1, <1>2, <1>3, PTL DEF Spec

\* The frame clock implements the counter protocol: the X server sees the
\* counter begin and end frames in turn, with ever larger values.
THEOREM ClockImplementsCounter == ASSUME AlignedRequests PROVE Spec => CounterProtocol
PROOF
<1>1. Init => FreshClock /\ Counter!Init
  BY InitConsistent DEF Init, FreshClock, Counter!Init, InitClock
<1>2. FreshClock /\ [Next]_clockVars => FreshClock'
  BY NextFresh
<1>3. FreshClock /\ [Next]_clockVars => [Counter!Next]_(clock.secondary_counter)
  <2> SUFFICES ASSUME FreshClock, [Next]_clockVars
               PROVE  [Counter!Next]_(clock.secondary_counter)
    OBVIOUS
  <2>1. FreshClock' /\ CounterStep(clock, clock')
    BY NextFresh
  <2>2. /\ Consistent(clock) /\ Consistent(clock')
        /\ clock.next_frame_id \in Nat /\ clock'.next_frame_id \in Nat
    BY <2>1 DEF FreshClock, Consistent, ClockType
  <2>3. CASE clock.frame_sync_supported
    BY <2>1, <2>2, <2>3 DEF CounterStep, Consistent, Counter!Next, Counter!BeginFrame,
                            Counter!EndFrame, Counter!Drawing
  <2>4. CASE ~clock.frame_sync_supported
    BY <2>1, <2>2, <2>4 DEF CounterStep, Consistent
  <2>5. QED
    BY <2>3, <2>4
<1>4. QED
  BY <1>1, <1>2, <1>3, PTL DEF Spec, CounterProtocol, Counter!Spec

=============================================================================
