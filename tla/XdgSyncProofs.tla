--------------------------- MODULE XdgSyncProofs ---------------------------
(***************************************************************************)
(* For every window manager, client and length of a run, and for every     *)
(* value of the constants: the frames of a window are sound (FramesSound), *)
(* and a window that waits for an acknowledgement has been told of what to *)
(* acknowledge (AckSound).                                                 *)
(*                                                                         *)
(* Each operator of XdgSync has a lemma, in the order of the module; a     *)
(* step of the window is then one of them.  What the operators do to the   *)
(* frame clock comes from ClockLemmas.                                     *)
(***************************************************************************)
EXTENDS XdgSync, ClockLemmas, WellFoundedInduction

-----------------------------------------------------------------------------
(* The inductive invariants. *)

\* A frame of the clock is being drawn.
Drawing(x) == x.started /\ x.used = "clock"

\* Between two calls of the sync helper: the clock is consistent and is
\* inside a frame exactly while the helper draws one with it; a frame the
\* compositing manager has not drawn is synchronized, and only frames of the
\* clock are; an update is scheduled only behind such a frame, and never
\* while a commit is awaited; and only a window manager that was found to
\* support it asks for synchronization.
FramesSound(x) ==
  /\ x \in Window
  /\ Consistent(x.clock)
  /\ ~x.aborted
  /\ Drawing(x) <=> x.clock.in_frame /\ ~x.clock.end_frame_called
  /\ x.clock.in_frame => x.synchronized
  /\ x.synchronized => x.used = "clock"
  /\ x.pending => x.synchronized /\ ~x.wait_commit
  /\ x.wait_ack => x.wait_commit
  /\ \A i \in DOMAIN x.xevents :
       x.xevents[i].type = "sync" => x.xevents[i].value # 0 /\ x.clock.frame_sync_supported

Steady(x) == FramesSound(x) /\ (x.started <=> x.displaying)

\* ConfigureQueued, of any window.
Queued(x) == x.owed > 0 \/ \E i \in DOMAIN x.xevents : IsConfigure(x.xevents[i])

\* A mapped window has contents.  Whoever waits for an acknowledgement has
\* sent a configure event, unless the wait is for a ConfigureNotify; one is
\* on its way while the clock waits for it, and behind every sync request.
AckTold(x) ==
  /\ x.mapped => x.buffer /\ ~x.wait_initial
  /\ ~x.mapped => /\ x.clock.configured
                  /\ ~x.maybe_configure
                  /\ \A i \in DOMAIN x.xevents : x.xevents[i].type # "sync"
  /\ x.wait_ack /\ ~x.maybe_configure => x.conf_reply
  /\ ~x.clock.configured => Queued(x)
  /\ \A i \in DOMAIN x.xevents :
       x.xevents[i].type = "sync" =>
         x.owed > 0 \/ \E j \in DOMAIN x.xevents : j > i /\ IsConfigure(x.xevents[j])

\* And so there is something that the client will have to acknowledge.
AckSound(x) ==
  /\ AckTold(x)
  /\ x.wait_ack => x.conf_reply \/ x.config_timer \/ Queued(x)

\* Two windows whose frames are in the same state.
SameFrame(x, y) ==
  /\ y.clock = x.clock
  /\ y.xevents = x.xevents
  /\ y.used = x.used
  /\ y.started <=> x.started
  /\ y.displaying <=> x.displaying
  /\ y.synchronized <=> x.synchronized
  /\ y.pending <=> x.pending
  /\ y.aborted <=> x.aborted
  /\ y.wait_commit <=> x.wait_commit
  /\ y.wait_ack <=> x.wait_ack

\* What drawing leaves alone: the toplevel, the X events, and the wait for an
\* acknowledgement unless the clock froze.
Drew(x, y) ==
  /\ y.xevents = x.xevents
  /\ y.owed = x.owed
  /\ y.mapped <=> x.mapped
  /\ y.buffer <=> x.buffer
  /\ y.wait_initial <=> x.wait_initial
  /\ y.conf_reply <=> x.conf_reply
  /\ y.config_timer <=> x.config_timer
  /\ y.async <=> x.async
  /\ y.clock.configured <=> x.clock.configured
  /\ x.wait_commit => y.wait_commit
  /\ \/ (y.wait_ack <=> x.wait_ack) /\ (y.maybe_configure <=> x.maybe_configure)
     \/ ~x.clock.configured /\ y.wait_ack /\ y.maybe_configure

LEMMA SameFrameSound ==
  ASSUME NEW x, NEW y \in Window, FramesSound(x), SameFrame(x, y)
  PROVE  FramesSound(y)
BY DEF FramesSound, SameFrame, Drawing

LEMMA DrewAgain ==
  ASSUME NEW x, NEW y, NEW z, Drew(x, y), Drew(y, z)
  PROVE  Drew(x, z)
BY DEF Drew

LEMMA DrewSound ==
  ASSUME NEW x, NEW y, AckSound(x), Drew(x, y)
  PROVE  AckSound(y)
PROOF
<1>1. Queued(x) <=> Queued(y)
  BY DEF Queued, Drew
<1>2. QED
  BY <1>1 DEF AckSound, AckTold, Drew

-----------------------------------------------------------------------------
(* Sequences of X events. *)

LEMMA MinInSet ==
  ASSUME NEW S \in SUBSET Nat, S # {}
  PROVE  Min(S) \in S
PROOF
<1>1. PICK x \in S : \A y \in S : ~ (<<y, x>> \in OpToRel(<, Nat))
  BY ZenonT(30), NatLessThanWellFounded, WFMin
<1>2. ASSUME NEW y \in S
      PROVE  x =< y
  <2>1. <<y, x>> \in Nat \X Nat /\ <<y, x>>[1] = y /\ <<y, x>>[2] = x
    OBVIOUS
  <2>2. y < x => <<y, x>> \in OpToRel(<, Nat)
    BY <2>1, Zenon DEF OpToRel
  <2>3. ~ (y < x)
    BY <1>1, <2>2, Zenon
  <2>4. QED
    BY <2>1, <2>3
<1>3. QED
  BY <1>2 DEF Min

\* The event that WindowResizedPredicate picks is one of the queue.
LEMMA SelectConfigure ==
  ASSUME NEW s \in Seq(Event), \E i \in DOMAIN s : IsConfigure(s[i])
  PROVE  SelectInSeq(s, IsConfigure) \in 1 .. Len(s)
PROOF
<1> DEFINE I == { i \in 1 .. Len(s) : IsConfigure(s[i]) }
<1>1. I \in SUBSET Nat /\ I # {}
  OBVIOUS
<1>2. Min(I) \in I
  BY <1>1, MinInSet
<1>3. SelectInSeq(s, IsConfigure) = Min(I)
  BY <1>1 DEF SelectInSeq
<1>4. QED
  BY <1>2, <1>3

\* Taking an event out of the queue leaves only events that were in it.
LEMMA RemoveAtElements ==
  ASSUME NEW S, NEW s \in Seq(S), NEW k \in 1 .. Len(s)
  PROVE  /\ RemoveAt(s, k) \in Seq(S)
         /\ \A j \in DOMAIN RemoveAt(s, k) : \E i \in DOMAIN s : RemoveAt(s, k)[j] = s[i]
PROOF
<1> DEFINE a == SubSeq(s, 1, k - 1)
           b == SubSeq(s, k + 1, Len(s))
<1>1. /\ a \in Seq(S) /\ Len(a) = k - 1
      /\ \A i \in 1 .. k - 1 : a[i] = s[i]
  OBVIOUS
<1>2. /\ b \in Seq(S) /\ Len(b) = Len(s) - k
      /\ \A i \in 1 .. Len(s) - k : b[i] = s[k + i]
  OBVIOUS
<1> HIDE DEF a, b
<1>3. a \o b \in Seq(S) /\ DOMAIN (a \o b) = 1 .. Len(s) - 1
  BY <1>1, <1>2
<1>4. ASSUME NEW j \in DOMAIN (a \o b)
      PROVE  \E i \in DOMAIN s : (a \o b)[j] = s[i]
  <2>1. CASE j < k
    BY SMTT(30), <1>1, <1>2, <1>3, <2>1
  <2>2. CASE ~(j < k)
    <3>1. (a \o b)[j] = b[j - (k - 1)] /\ j - (k - 1) \in 1 .. Len(s) - k
      BY SMTT(30), <1>1, <1>2, <1>3, <2>2
    <3>2. (a \o b)[j] = s[j + 1] /\ j + 1 \in DOMAIN s
      BY SMTT(30), <1>2, <1>3, <2>2, <3>1
    <3>3. QED
      BY <3>2
  <2>3. QED
    BY <2>1, <2>2
<1>5. QED
  BY <1>3, <1>4 DEF RemoveAt, a, b

-----------------------------------------------------------------------------
(* Frame callbacks, and freezing. *)

\* What a freeze callback changes of a window: y is x, but for the clock, a
\* dropped update, and the wait for a commit and its acknowledgement.
Resized(x, y, froze) ==
  /\ y.xevents = x.xevents
  /\ y.owed = x.owed
  /\ y.used = x.used
  /\ y.started <=> x.started
  /\ y.displaying <=> x.displaying
  /\ y.synchronized <=> x.synchronized
  /\ y.aborted <=> x.aborted
  /\ y.key <=> x.key
  /\ y.buffer <=> x.buffer
  /\ y.mapped <=> x.mapped
  /\ y.wait_initial <=> x.wait_initial
  /\ y.conf_reply <=> x.conf_reply
  /\ y.config_timer <=> x.config_timer
  /\ y.async <=> x.async
  /\ y.wait_commit <=> x.wait_commit \/ froze
  /\ y.wait_ack <=> x.wait_ack \/ froze
  /\ y.maybe_configure <=> x.maybe_configure \/ froze
  /\ y.pending => x.pending /\ ~froze

\* Running or deferring the frame callbacks touches no frame.
LEMMA RunCallbacksSame ==
  ASSUME NEW x \in Window, NEW y, y = RunCallbacks(x)
  PROVE  y \in Window /\ SameFrame(x, y) /\ Drew(x, y) /\ Resized(x, y, FALSE)
PROOF
<1>1. CASE x.pending_release
  <2> DEFINE e == [x EXCEPT !.pending_callback = TRUE]
  <2>1. y = e
    BY <1>1 DEF RunCallbacks
  <2>2. e \in Window
    BY DEF Window
  <2>3. SameFrame(x, e) /\ Drew(x, e)
    BY DEF Window, SameFrame, Drew
  <2>4. Resized(x, e, FALSE)
    BY DEF Window, Resized
  <2> HIDE DEF e
  <2>5. QED
    BY <2>1, <2>2, <2>3, <2>4
<1>2. CASE ~x.pending_release
  <2> DEFINE e == [x EXCEPT !.callbacks = FALSE]
  <2>1. y = e
    BY <1>2 DEF RunCallbacks
  <2>2. e \in Window
    BY ZenonT(30) DEF Window
  <2>3. SameFrame(x, e) /\ Drew(x, e)
    BY DEF Window, SameFrame, Drew
  <2>4. Resized(x, e, FALSE)
    BY DEF Window, Resized
  <2> HIDE DEF e
  <2>5. QED
    BY <2>1, <2>2, <2>3, <2>4
<1>3. QED
  BY <1>1, <1>2

LEMMA HandleResizeResized ==
  ASSUME NEW x \in Window, NEW how \in Freezes, NEW y, y = HandleResize(x, how)
  PROVE  y \in Window /\ y.clock = x.clock /\ Resized(x, y, how = "freeze")
PROOF
<1> DEFINE f == [x EXCEPT !.pending = FALSE, !.resize = TRUE]
           g == [f EXCEPT !.wait_ack = TRUE, !.wait_commit = TRUE, !.maybe_configure = TRUE]
<1>1. f \in Window /\ f.clock = x.clock
  BY ZenonT(30) DEF Window
<1>2. Resized(x, f, FALSE)
  BY DEF Window, Resized
<1>3. g \in Window /\ g.clock = x.clock
  BY ZenonT(30) DEF Window
<1>4. Resized(x, g, TRUE)
  BY DEF Window, Resized
<1>5. CASE how = "none"
  <2>1. y = x
    BY <1>5 DEF HandleResize
  <2>2. Resized(x, x, how = "freeze")
    BY <1>5 DEF Resized
  <2>3. QED
    BY <2>1, <2>2
<1>6. CASE how = "frame"
  <2>1. y = RunCallbacks(f)
    BY <1>6 DEF HandleResize
  <2> HIDE DEF f
  <2>2. y \in Window /\ SameFrame(f, y) /\ Resized(f, y, FALSE)
    BY <1>1, <2>1, RunCallbacksSame
  <2>3. Resized(x, y, FALSE)
    BY <1>2, <2>2 DEF Resized
  <2>4. QED
    BY <1>1, <1>6, <2>2, <2>3 DEF Resized, SameFrame
<1>7. CASE how = "freeze"
  <2>1. y = RunCallbacks(g)
    BY <1>7 DEF HandleResize
  <2> HIDE DEF f, g
  <2>2. y \in Window /\ SameFrame(g, y) /\ Resized(g, y, FALSE)
    BY <1>3, <2>1, RunCallbacksSame
  <2>3. QED
    BY <1>3, <1>4, <1>7, <2>2 DEF Resized, SameFrame
<1>8. QED
  BY <1>5, <1>6, <1>7 DEF Freezes

\* The clock's outcome is kept, and its freeze callback run.
LEMMA ClockDidResized ==
  ASSUME NEW x \in Window, NEW o, o.clock \in ClockType, o.freeze \in Freezes,
         NEW y, y = ClockDid(x, o)
  PROVE  y \in Window /\ y.clock = o.clock /\ Resized(x, y, o.freeze = "freeze")
PROOF
<1> DEFINE c == [x EXCEPT !.clock = o.clock]
<1>1. c \in Window /\ c.clock = o.clock
  BY DEF Window
<1>2. y = HandleResize(c, o.freeze)
  BY DEF ClockDid
<1>3. Resized(x, c, FALSE)
  BY DEF Window, Resized
<1> HIDE DEF c
<1>4. y \in Window /\ y.clock = c.clock /\ Resized(c, y, o.freeze = "freeze")
  BY <1>1, <1>2, HandleResizeResized
<1>5. QED
  BY <1>1, <1>3, <1>4 DEF Resized

-----------------------------------------------------------------------------
(* Frames. *)

\* Ending a frame leaves the helper outside of it, whatever the clock did.
LEMMA FrameDoneSound ==
  ASSUME NEW x, FramesSound(x), NEW d, d = FrameDone(x)
  PROVE  /\ FramesSound(d)
         /\ Drew(x, d)
         /\ ~d.started
         /\ d.used = x.used
         /\ d.displaying <=> x.displaying
         /\ d.synchronized <=> x.synchronized
         /\ d.key <=> x.key
         /\ x.used = "clock" /\ ~x.wait_commit /\ ~x.clock.need_configure
              => (d.clock.need_configure => d.wait_commit)
PROOF
<1>1. x \in Window /\ Consistent(x.clock) /\ x.clock \in ClockType
  BY DEF FramesSound, Consistent
<1>2. CASE x.used = "clock"
  <2> DEFINE o == EndFrame(x.clock, CheckFastForward(x))
             y == ClockDid(x, o)
             e == [y EXCEPT !.started = FALSE]
  <2>1. d = e
    BY <1>2 DEF FrameDone
  <2>2. CheckFastForward(x) \in BOOLEAN
    BY DEF CheckFastForward
  <2>3. x.clock.pending_sync_value # 0 => x.clock.in_frame
    BY <1>1 DEF Consistent, FrameOpen
  <2>4. /\ Consistent(o.clock)
        /\ o.clock.frame_sync_supported <=> x.clock.frame_sync_supported
    BY <1>1, <2>2, ConsistentEndable, EndFrameConsistent
  <2>5. /\ o.freeze \in Freezes
        /\ o.freeze = "freeze" => ~x.clock.configured
        /\ o.clock.configured <=> x.clock.configured
        /\ o.clock.end_frame_called
        /\ o.clock.in_frame => x.clock.in_frame
    BY <1>1, <2>2, <2>3, EndFrameFields
  <2>5a. o.clock \in ClockType
    BY <2>4 DEF Consistent
  <2>6. ~x.wait_commit /\ ~x.clock.need_configure /\ o.freeze # "freeze"
          => ~o.clock.need_configure
    BY <1>1, <2>2, EndFrameForwards DEF CheckFastForward
  <2> HIDE DEF o
  <2>7. y \in Window /\ y.clock = o.clock /\ Resized(x, y, o.freeze = "freeze")
    BY <1>1, <2>5, <2>5a, ClockDidResized
  <2> HIDE DEF y
  <2>8. e \in Window
    BY ZenonT(30), <2>7 DEF Window
  <2>9. /\ e.clock = o.clock /\ ~e.started /\ e.used = x.used
        /\ e.xevents = x.xevents /\ e.owed = x.owed
        /\ e.aborted <=> x.aborted
        /\ e.displaying <=> x.displaying
        /\ e.synchronized <=> x.synchronized
        /\ e.key <=> x.key
        /\ e.pending => x.pending /\ o.freeze # "freeze"
    BY <1>1, <2>7 DEF Window, Resized
  <2>10. /\ e.wait_commit <=> x.wait_commit \/ o.freeze = "freeze"
         /\ e.wait_ack <=> x.wait_ack \/ o.freeze = "freeze"
         /\ e.maybe_configure <=> x.maybe_configure \/ o.freeze = "freeze"
    BY <1>1, <2>7 DEF Window, Resized
  <2>11. /\ e.mapped <=> x.mapped
         /\ e.buffer <=> x.buffer
         /\ e.wait_initial <=> x.wait_initial
         /\ e.conf_reply <=> x.conf_reply
         /\ e.config_timer <=> x.config_timer
         /\ e.async <=> x.async
    BY <1>1, <2>7 DEF Window, Resized
  <2> HIDE DEF e
  <2>12. Drew(x, d)
    BY <2>1, <2>5, <2>9, <2>10, <2>11 DEF Drew
  <2>13. FramesSound(d)
    BY <2>1, <2>4, <2>5, <2>8, <2>9, <2>10 DEF FramesSound, Drawing
  <2>14. /\ ~x.wait_commit /\ ~x.clock.need_configure /\ e.clock.need_configure
           => e.wait_commit
    BY <2>6, <2>9, <2>10
  <2>15. QED
    BY <2>1, <2>9, <2>12, <2>13, <2>14
<1>3. CASE x.used # "clock"
  <2> DEFINE e == [x EXCEPT !.started = FALSE]
  <2>1. d = e
    BY <1>3 DEF FrameDone
  <2>2. e \in Window
    BY <1>1 DEF Window
  <2>4. Drew(x, e) /\ ~e.started /\ (e.key <=> x.key)
    BY <1>1 DEF Window, Drew
  <2>5. /\ e.clock = x.clock /\ e.xevents = x.xevents /\ e.used = x.used
        /\ e.aborted <=> x.aborted
        /\ e.displaying <=> x.displaying
        /\ e.synchronized <=> x.synchronized
        /\ e.pending <=> x.pending
        /\ e.wait_commit <=> x.wait_commit
        /\ e.wait_ack <=> x.wait_ack
    BY <1>1 DEF Window
  <2> HIDE DEF e
  <2>6. FramesSound(e)
    BY <1>3, <2>2, <2>4, <2>5 DEF FramesSound, Drawing
  <2>7. QED
    BY <1>3, <2>1, <2>4, <2>5, <2>6
<1>4. QED
  BY <1>2, <1>3

\* Beginning a frame when none is being drawn succeeds, and draws with the
\* clock unless a commit asked for asynchronous presentation.
LEMMA BeginFrameSound ==
  ASSUME NEW x, FramesSound(x), x.started \/ CanStartFrame(x.clock),
         NEW ch \in StepChoices, NEW b, b = BeginFrame(x, ch)
  PROVE  /\ FramesSound(b)
         /\ Drew(x, b)
         /\ b.started /\ b.displaying
         /\ b.key <=> x.key
         /\ b.wait_commit <=> x.wait_commit
         /\ b.wait_ack <=> x.wait_ack
         /\ b.used = "clock" => ~b.clock.need_configure
         /\ x.used = "clock" /\ ~x.async => b.used = "clock"
PROOF
<1>1. x \in Window /\ Consistent(x.clock) /\ x.clock \in ClockType
  BY DEF FramesSound, Consistent
<1>2. CASE x.started
  <2> DEFINE e == [x EXCEPT !.displaying = TRUE, !.started = TRUE]
  <2>1. b = e
    BY <1>2 DEF BeginFrame
  <2>2. e \in Window
    BY ZenonT(30), <1>1 DEF Window
  <2>3. Drew(x, e) /\ e.started /\ e.displaying /\ (e.key <=> x.key)
    BY <1>1 DEF Window, Drew
  <2>4. /\ e.clock = x.clock /\ e.xevents = x.xevents /\ e.used = x.used
        /\ e.aborted <=> x.aborted
        /\ e.synchronized <=> x.synchronized
        /\ e.pending <=> x.pending
        /\ e.wait_commit <=> x.wait_commit
        /\ e.wait_ack <=> x.wait_ack
    BY <1>1 DEF Window
  <2> HIDE DEF e
  <2>5. FramesSound(e)
    BY <1>2, <2>2, <2>3, <2>4 DEF FramesSound, Drawing
  <2>6. e.used = "clock" => ~e.clock.need_configure
    BY <1>2, <2>4 DEF FramesSound, Drawing, Consistent
  <2>7. QED
    BY <2>1, <2>3, <2>4, <2>5, <2>6
<1> DEFINE r == x.resize /\ x.synchronized
           m == [x EXCEPT !.displaying = TRUE, !.started = TRUE,
                          !.used = WantedType(x), !.resize = r]
<1>3. r \in BOOLEAN /\ WantedType(x) \in {"clock", "present"}
  BY DEF WantedType
<1> HIDE DEF r
<1>4. m \in Window
  BY ZenonT(30), <1>1, <1>3 DEF Window
<1>5. /\ m.clock = x.clock /\ m.xevents = x.xevents /\ m.used = WantedType(x)
      /\ m.started /\ m.displaying
      /\ m.aborted <=> x.aborted
      /\ m.synchronized <=> x.synchronized
      /\ m.pending <=> x.pending
      /\ m.wait_commit <=> x.wait_commit
      /\ m.wait_ack <=> x.wait_ack
      /\ m.key <=> x.key
  BY <1>1, <1>3 DEF Window
<1>6. Drew(x, m)
  BY <1>1, <1>3 DEF Window, Drew
<1>7. CASE ~x.started /\ WantedType(x) = "present"
  <2>1. b = m
    BY <1>7 DEF BeginFrame, r
  <2>2. ~x.synchronized /\ x.async
    BY <1>7 DEF WantedType
  <2> HIDE DEF m
  <2>3. FramesSound(m)
    BY <1>4, <1>5, <1>7, <2>2 DEF FramesSound, Drawing
  <2>4. QED
    BY <1>5, <1>6, <1>7, <2>1, <2>2, <2>3
<1>8. CASE ~x.started /\ WantedType(x) = "clock"
  <2> DEFINE c == SetPredictRefresh(x.clock, DesyncChildren)
             d == StartFrame(c, FALSE, ch.arm)
             a == x.aborted \/ ~CanStartFrame(c)
             e == [m EXCEPT !.clock = d, !.aborted = a, !.synchronized = TRUE]
  <2>1. b = e
    BY <1>1, <1>8 DEF BeginFrame, r, Window
  <2>2. ch.arm \in BOOLEAN
    BY DEF StepChoices
  <2>3. /\ Consistent(c)
        /\ CanStartFrame(c) <=> CanStartFrame(x.clock)
        /\ c.configured <=> x.clock.configured
        /\ c.frame_sync_supported <=> x.clock.frame_sync_supported
    BY <1>1, SetPredictRefreshConsistent, WindowAssumption
  <2>4. CanStartFrame(c) /\ ~a
    BY <1>8, <2>3 DEF FramesSound
  <2> HIDE DEF c
  <2>5. /\ d.in_frame /\ ~d.end_frame_called
        /\ ~d.need_configure
        /\ d.configured <=> c.configured
        /\ d.frame_sync_supported <=> c.frame_sync_supported
    BY <2>2, <2>3, <2>4, StartFrameFields
  <2>6. Consistent(d)
    BY <2>2, <2>3, StartFrameConsistent
  <2> HIDE DEF d, a, m
  <2>7. d \in ClockType /\ a \in BOOLEAN
    BY <2>4, <2>6 DEF Consistent, a
  <2>8. e \in Window
    BY ZenonT(30), <1>4, <2>7 DEF Window
  <2>9. /\ e.clock = d /\ e.synchronized
        /\ e.aborted <=> a
        /\ e.xevents = m.xevents /\ e.used = m.used
        /\ e.started /\ e.displaying
        /\ e.pending <=> m.pending
        /\ e.wait_commit <=> m.wait_commit
        /\ e.wait_ack <=> m.wait_ack
        /\ e.key <=> m.key
    BY <1>4, <1>5, <2>7 DEF Window
  <2>10. Drew(m, e)
    BY <1>4, <1>5, <2>3, <2>5, <2>7 DEF Window, Drew
  <2> HIDE DEF e
  <2>11. FramesSound(e)
    BY <1>5, <1>8, <2>3, <2>4, <2>5, <2>6, <2>8, <2>9 DEF FramesSound, Drawing
  <2>12. Drew(x, e)
    BY <1>6, <2>10, DrewAgain
  <2>13. QED
    BY <1>5, <1>8, <2>1, <2>5, <2>9, <2>11, <2>12
<1>9. QED
  BY <1>2, <1>3, <1>7, <1>8

\* Drawing asks for a notification or, with no buffer, forgets it.
LEMMA CompositeSound ==
  ASSUME NEW x, FramesSound(x), NEW y, y = Composite(x)
  PROVE  FramesSound(y) /\ SameFrame(x, y) /\ Drew(x, y)
PROOF
<1>1. x \in Window
  BY DEF FramesSound
<1>2. CASE x.damage
  <2> DEFINE e == [x EXCEPT !.damage = FALSE, !.key = x.buffer]
  <2>1. y = e
    BY <1>2 DEF Composite
  <2>2. e \in Window
    BY ZenonT(30), <1>1 DEF Window
  <2>3. SameFrame(x, e) /\ Drew(x, e)
    BY <1>1 DEF Window, SameFrame, Drew
  <2> HIDE DEF e
  <2>4. QED
    BY <2>1, <2>2, <2>3, SameFrameSound
<1>3. CASE ~x.damage
  <2>1. y = x
    BY <1>3 DEF Composite
  <2>2. SameFrame(x, x) /\ Drew(x, x)
    BY DEF SameFrame, Drew
  <2>3. QED
    BY <2>1, <2>2
<1>4. QED
  BY <1>2, <1>3

\* The subcompositor's frame ends with a notification asked for, or is done.
LEMMA EndSubcompositorFrameSound ==
  ASSUME NEW x, FramesSound(x), x.started, x.displaying,
         NEW y, y = EndSubcompositorFrame(x)
  PROVE  /\ FramesSound(y)
         /\ Drew(x, y)
         /\ y.started <=> y.displaying
         /\ y.started => y.key
         /\ y.used = x.used
         /\ x.used = "clock" /\ ~x.wait_commit /\ ~x.clock.need_configure
              => (y.clock.need_configure => y.wait_commit)
PROOF
<1>1. x \in Window
  BY DEF FramesSound
<1>2. CASE x.key
  <2>1. y = x
    BY <1>2 DEF EndSubcompositorFrame
  <2>2. Drew(x, x)
    BY DEF Drew
  <2>3. QED
    BY <1>2, <2>1, <2>2
<1>3. CASE ~x.key /\ x.used = "present"
  <2> DEFINE e == [x EXCEPT !.key = TRUE]
  <2>1. y = e
    BY <1>3 DEF EndSubcompositorFrame
  <2>2. e \in Window /\ e.key
    BY <1>1 DEF Window
  <2>3. SameFrame(x, e) /\ Drew(x, e)
    BY <1>1 DEF Window, SameFrame, Drew
  <2> HIDE DEF e
  <2>4. FramesSound(e)
    BY <2>2, <2>3, SameFrameSound
  <2>5. e.started /\ e.displaying /\ e.used = x.used
    BY <2>3 DEF SameFrame
  <2>6. QED
    BY <1>3, <2>1, <2>2, <2>3, <2>4, <2>5
<1>4. CASE ~x.key /\ x.used # "present"
  <2> DEFINE d == FrameDone(x)
             a == d.aborted \/ ~d.synchronized
             e == [d EXCEPT !.displaying = FALSE, !.aborted = a]
  <2>1. y = e
    BY <1>4 DEF EndSubcompositorFrame
  <2>2. /\ FramesSound(d) /\ Drew(x, d)
        /\ ~d.started /\ d.used = x.used
        /\ d.synchronized <=> x.synchronized
        /\ x.used = "clock" /\ ~x.wait_commit /\ ~x.clock.need_configure
              => (d.clock.need_configure => d.wait_commit)
    BY FrameDoneSound
  <2>3. x.synchronized
    BY <1>1, <1>4 DEF FramesSound, Drawing, Window
  <2> HIDE DEF d
  <2>4. d \in Window /\ ~a
    BY <2>2, <2>3 DEF FramesSound
  <2> HIDE DEF a
  <2>5. a \in BOOLEAN
    BY <2>2, <2>3 DEF FramesSound, a
  <2>6. e \in Window
    BY ZenonT(30), <2>4, <2>5 DEF Window
  <2>7. /\ e.clock = d.clock /\ e.xevents = d.xevents /\ e.used = d.used
        /\ e.started <=> d.started
        /\ ~e.displaying
        /\ e.aborted <=> a
        /\ e.synchronized <=> d.synchronized
        /\ e.pending <=> d.pending
        /\ e.wait_commit <=> d.wait_commit
        /\ e.wait_ack <=> d.wait_ack
    BY <2>4, <2>5 DEF Window
  <2>8. Drew(d, e)
    BY <2>4, <2>5 DEF Window, Drew
  <2> HIDE DEF e
  <2>9. FramesSound(e)
    BY <2>2, <2>4, <2>6, <2>7 DEF FramesSound, Drawing
  <2>10. Drew(x, e)
    BY <2>2, <2>8, DrewAgain
  <2>11. QED
    BY <2>1, <2>2, <2>7, <2>9, <2>10
<1>5. QED
  BY <1>2, <1>3, <1>4

-----------------------------------------------------------------------------
(* Resizing the window. *)

\* What resizing the window leaves alone.
Noted(x, y) ==
  /\ y.used = x.used
  /\ y.started <=> x.started
  /\ y.displaying <=> x.displaying
  /\ y.key <=> x.key
  /\ y.synchronized <=> x.synchronized
  /\ y.pending <=> x.pending
  /\ y.aborted <=> x.aborted
  /\ y.wait_commit <=> x.wait_commit
  /\ y.wait_ack <=> x.wait_ack
  /\ y.maybe_configure <=> x.maybe_configure
  /\ y.mapped <=> x.mapped
  /\ y.buffer <=> x.buffer
  /\ y.wait_initial <=> x.wait_initial
  /\ y.conf_reply <=> x.conf_reply
  /\ y.config_timer <=> x.config_timer
  /\ y.async <=> x.async

\* What NoteConfigure leaves of the clock.
SameClock(c, d) ==
  /\ Consistent(d)
  /\ d.frame_sync_supported <=> c.frame_sync_supported
  /\ d.in_frame <=> c.in_frame
  /\ d.end_frame_called <=> c.end_frame_called
  /\ d.end_frame_timer <=> c.end_frame_timer
  /\ d.need_configure <=> c.need_configure
  /\ d.configured \/ (d.configured <=> c.configured)

LEMMA NotedSound ==
  ASSUME NEW x, FramesSound(x), NEW y \in Window, Noted(x, y), SameClock(x.clock, y.clock),
         \A j \in DOMAIN y.xevents : \E i \in DOMAIN x.xevents : y.xevents[j] = x.xevents[i]
  PROVE  FramesSound(y)
BY DEF FramesSound, Noted, SameClock, Drawing

\* A ConfigureNotify that was taken is still owed.
LEMMA NotedAck ==
  ASSUME NEW x, AckSound(x), NEW y \in Window, Noted(x, y), SameClock(x.clock, y.clock),
         \A j \in DOMAIN y.xevents : \E i \in DOMAIN x.xevents : y.xevents[j] = x.xevents[i],
         y.owed > 0 \/ (y.xevents = x.xevents /\ y.owed = x.owed)
  PROVE  AckSound(y)
PROOF
<1>1. Queued(x) => Queued(y)
  BY DEF Queued
<1>2. ~y.mapped => \A i \in DOMAIN y.xevents : y.xevents[i].type # "sync"
  BY DEF AckSound, AckTold, Noted
<1>3. \A i \in DOMAIN y.xevents :
        y.xevents[i].type = "sync" =>
          y.owed > 0 \/ \E j \in DOMAIN y.xevents : j > i /\ IsConfigure(y.xevents[j])
  BY DEF AckSound, AckTold
<1>4. QED
  BY <1>1, <1>2, <1>3 DEF AckSound, AckTold, Noted, SameClock

LEMMA NoteWindowResizedSound ==
  ASSUME NEW x, FramesSound(x), NEW ch \in StepChoices,
         NEW y, y = NoteWindowResized(x, ch)
  PROVE  /\ FramesSound(y)
         /\ Noted(x, y) /\ SameClock(x.clock, y.clock)
         /\ AckSound(x) => AckSound(y)
PROOF
<1> DEFINE Q == \E i \in DOMAIN x.xevents : IsConfigure(x.xevents[i])
           c == NoteConfigure(x.clock)
           Kept(e) == /\ e \in Window
                      /\ Noted(x, e) /\ SameClock(x.clock, e.clock)
                      /\ \A j \in DOMAIN e.xevents :
                           \E i \in DOMAIN x.xevents : e.xevents[j] = x.xevents[i]
                      /\ e.owed > 0 \/ (e.xevents = x.xevents /\ e.owed = x.owed)
<1>1. x \in Window /\ Consistent(x.clock) /\ x.clock \in ClockType
      /\ x.xevents \in Seq(Event) /\ x.owed \in Nat
  BY DEF FramesSound, Consistent, Window
<1>2. c \in ClockType /\ SameClock(x.clock, c)
  BY <1>1, NoteConfigureConsistent DEF SameClock, Consistent
<1> HIDE DEF c
<1>3. ASSUME Q, NEW k, k = SelectInSeq(x.xevents, IsConfigure)
      PROVE  Kept([x EXCEPT !.clock = c, !.resized = FALSE,
                            !.xevents = RemoveAt(x.xevents, k), !.owed = x.owed + 1])
  <2> DEFINE q == RemoveAt(x.xevents, k)
             n == x.owed + 1
             e == [x EXCEPT !.clock = c, !.resized = FALSE, !.xevents = q, !.owed = n]
  <2>1. /\ q \in Seq(Event)
        /\ \A j \in DOMAIN q : \E i \in DOMAIN x.xevents : q[j] = x.xevents[i]
    <3> DEFINE s == x.xevents
    <3>1. s \in Seq(Event) /\ \E i \in DOMAIN s : IsConfigure(s[i])
      BY <1>1, <1>3
    <3> HIDE DEF s
    <3>2. SelectInSeq(s, IsConfigure) \in 1 .. Len(s)
      BY <3>1, SelectConfigure
    <3>3. k \in 1 .. Len(s)
      BY <1>3, <3>2 DEF s
    <3>4. QED
      BY <3>1, <3>3, RemoveAtElements DEF s
  <2>2. n \in Nat /\ n > 0
    BY <1>1
  <2> HIDE DEF q, n
  <2>3. e \in Window
    BY ZenonT(30), <1>1, <1>2, <2>1, <2>2 DEF Window
  <2>4. e.clock = c /\ e.xevents = q /\ e.owed = n
    BY <1>1 DEF Window
  <2>5. Noted(x, e)
    BY <1>1 DEF Window, Noted
  <2> HIDE DEF e
  <2>6. Kept(e)
    BY <1>2, <2>1, <2>2, <2>3, <2>4, <2>5
  <2>7. QED
    BY <2>6 DEF e, q, n
<1>4. Kept([x EXCEPT !.clock = c, !.resized = FALSE])
  <2> DEFINE e == [x EXCEPT !.clock = c, !.resized = FALSE]
  <2>1. e \in Window
    BY ZenonT(30), <1>1, <1>2 DEF Window
  <2>2. e.clock = c /\ e.xevents = x.xevents /\ e.owed = x.owed
    BY <1>1 DEF Window
  <2>3. Noted(x, e)
    BY <1>1 DEF Window, Noted
  <2> HIDE DEF e
  <2>4. Kept(e)
    BY <1>2, <2>1, <2>2, <2>3
  <2>5. QED
    BY <2>4 DEF e
<1>5. Kept([x EXCEPT !.resized = FALSE, !.owed = x.owed + 1])
  <2> DEFINE n == x.owed + 1
             e == [x EXCEPT !.resized = FALSE, !.owed = n]
  <2>1. n \in Nat /\ n > 0
    BY <1>1
  <2> HIDE DEF n
  <2>2. e \in Window
    BY ZenonT(30), <1>1, <2>1 DEF Window
  <2>3. e.clock = x.clock /\ e.xevents = x.xevents /\ e.owed = n
    BY <1>1 DEF Window
  <2>4. Noted(x, e)
    BY <1>1 DEF Window, Noted
  <2> HIDE DEF e
  <2>5. SameClock(x.clock, e.clock)
    BY <1>1, <2>3 DEF SameClock
  <2>6. Kept(e)
    BY <2>1, <2>2, <2>3, <2>4, <2>5
  <2>7. QED
    BY <2>6 DEF e, n
<1>6. Kept(y)
  <2>1. CASE Q
    <3> DEFINE k == SelectInSeq(x.xevents, IsConfigure)
               q == RemoveAt(x.xevents, k)
               n == x.owed + 1
               e == [x EXCEPT !.clock = c, !.resized = FALSE, !.xevents = q, !.owed = n]
    <3>1. y = e
      BY <1>1, <2>1 DEF NoteWindowResized, Window, c
    <3>2. Kept(e)
      BY ZenonT(30), <1>3, <2>1
    <3> HIDE DEF e
    <3>3. QED
      BY <3>1, <3>2
  <2>2. CASE ~Q /\ ch.answer
    BY <1>1, <1>4, <2>2 DEF NoteWindowResized, Window, c
  <2>3. CASE ~Q /\ ~ch.answer
    BY <1>1, <1>5, <2>3 DEF NoteWindowResized, Window
  <2>4. QED
    BY <2>1, <2>2, <2>3
<1>7. QED
  BY <1>6, NotedSound, NotedAck

LEMMA NoteBoundsSound ==
  ASSUME NEW x, FramesSound(x), NEW ch \in StepChoices, NEW y, y = NoteBounds(x, ch)
  PROVE  /\ FramesSound(y)
         /\ Noted(x, y) /\ SameClock(x.clock, y.clock)
         /\ AckSound(x) => AckSound(y)
PROOF
<1>1. CASE x.wait_commit \/ x.temporary_bounds \/ ~x.resized
  <2>1. y = x
    BY <1>1 DEF NoteBounds
  <2>2. Noted(x, x)
    BY DEF Noted
  <2>3. SameClock(x.clock, x.clock)
    BY DEF SameClock, FramesSound
  <2>4. QED
    BY <2>1, <2>2, <2>3
<1>2. CASE ~(x.wait_commit \/ x.temporary_bounds \/ ~x.resized)
  <2>1. y = NoteWindowResized(x, ch)
    BY <1>2 DEF NoteBounds
  <2>2. QED
    BY <2>1, NoteWindowResizedSound
<1>3. QED
  BY <1>1, <1>2

-----------------------------------------------------------------------------
(* Updates. *)

\* What an update of the subcompositor leaves of its toplevel and its role.
Updated(x, y) ==
  /\ AckSound(x) => AckSound(y)
  /\ x.wait_commit => y.wait_commit
  /\ x.wait_ack => y.wait_ack
  /\ y.mapped <=> x.mapped
  /\ y.buffer <=> x.buffer
  /\ y.wait_initial <=> x.wait_initial
  /\ y.conf_reply <=> x.conf_reply
  /\ y.config_timer <=> x.config_timer
  /\ y.async <=> x.async

LEMMA UpdatedAgain ==
  ASSUME NEW x, NEW y, NEW z, Updated(x, y), Updated(y, z)
  PROVE  Updated(x, z)
BY DEF Updated

LEMMA DrewUpdated ==
  ASSUME NEW x, FramesSound(x), NEW y, Drew(x, y)
  PROVE  Updated(x, y)
PROOF
<1>1. AckSound(x) => AckSound(y)
  BY DrewSound
<1>2. QED
  BY <1>1 DEF Drew, Updated

\* An update that no frame prevents leaves a frame whose notification has
\* been asked for, or none; drawn with the clock, and outside of a wait for a
\* commit, it leaves the clock waiting only if that froze it.
LEMMA SubcompositorUpdateSound ==
  ASSUME NEW x, FramesSound(x), x.started \/ CanStartFrame(x.clock),
         NEW ch \in StepChoices, NEW y, y = SubcompositorUpdate(x, ch)
  PROVE  /\ Steady(y)
         /\ y.started => y.key
         /\ Updated(x, y)
         /\ x.used = "clock" /\ ~x.async
              => /\ y.used = "clock"
                 /\ ~x.wait_commit => (y.clock.need_configure => y.wait_commit)
PROOF
<1> DEFINE n == NoteBounds(x, ch)
           b == BeginFrame(n, ch)
           c == Composite(b)
<1>1. /\ FramesSound(n)
      /\ Noted(x, n) /\ SameClock(x.clock, n.clock)
      /\ AckSound(x) => AckSound(n)
  BY NoteBoundsSound
<1>2. y = EndSubcompositorFrame(c)
  BY DEF SubcompositorUpdate
<1> HIDE DEF n
<1>3. n.started \/ CanStartFrame(n.clock)
  BY <1>1 DEF Noted, SameClock, CanStartFrame
<1>4. /\ FramesSound(b)
      /\ Drew(n, b)
      /\ b.started /\ b.displaying
      /\ b.wait_commit <=> n.wait_commit
      /\ b.used = "clock" => ~b.clock.need_configure
      /\ n.used = "clock" /\ ~n.async => b.used = "clock"
  BY <1>1, <1>3, BeginFrameSound
<1> HIDE DEF b
<1>5. FramesSound(c) /\ SameFrame(b, c) /\ Drew(b, c)
  BY <1>4, CompositeSound
<1> HIDE DEF c
<1>6. c.started /\ c.displaying
  BY <1>4, <1>5 DEF SameFrame
<1>7. /\ FramesSound(y)
      /\ Drew(c, y)
      /\ y.started <=> y.displaying
      /\ y.started => y.key
      /\ y.used = c.used
      /\ c.used = "clock" /\ ~c.wait_commit /\ ~c.clock.need_configure
           => (y.clock.need_configure => y.wait_commit)
  BY <1>2, <1>5, <1>6, EndSubcompositorFrameSound
<1>8. Updated(x, n)
  BY <1>1 DEF Noted, Updated
<1>9. Updated(n, y)
  <2>1. Drew(n, y)
    BY <1>4, <1>5, <1>7, DrewAgain
  <2>2. QED
    BY <1>1, <2>1, DrewUpdated
<1>10. Updated(x, y)
  BY <1>8, <1>9, UpdatedAgain
<1>11. x.used = "clock" /\ ~x.async
         => /\ y.used = "clock"
            /\ ~x.wait_commit => (y.clock.need_configure => y.wait_commit)
  BY <1>1, <1>4, <1>5, <1>7 DEF Noted, SameFrame
<1>12. QED
  BY <1>7, <1>10, <1>11 DEF Steady

\* A step from a steady window x to y: no frame starts while a commit is
\* awaited, and what was sound stays so.
SoundStep(x, y) ==
  /\ Steady(y)
  /\ ~x.started /\ y.started => ~x.wait_commit
  /\ (x.started => x.key) => (y.started => y.key)
  /\ (x.mapped => x.buffer) => (y.mapped => y.buffer)
  /\ AckSound(x) => AckSound(y)
  /\ x.used = "clock" /\ ~x.async => y.used = "clock" /\ ~y.async

\* Changing neither frame nor toplevel.
LEMMA SameSound ==
  ASSUME NEW x, Steady(x), NEW y \in Window, SameFrame(x, y), Drew(x, y), y.key <=> x.key
  PROVE  SoundStep(x, y)
PROOF
<1>1. FramesSound(y)
  BY SameFrameSound DEF Steady
<1>2. AckSound(x) => AckSound(y)
  BY DrewSound
<1>3. QED
  BY <1>1, <1>2 DEF SoundStep, Steady, SameFrame, Drew

\* Two steps, the first of which starts no frame and ends no wait.
LEMMA SoundAgain ==
  ASSUME NEW x, NEW y, NEW z, SoundStep(x, y), SoundStep(y, z),
         y.started => x.started, x.wait_commit => y.wait_commit
  PROVE  SoundStep(x, z)
BY DEF SoundStep

\* The notification of a frame ends it and starts no other: a frame that is
\* scheduled waits for the compositing manager.
LEMMA NoteFramePresentedSound ==
  ASSUME NEW x, Steady(x), NEW ch \in StepChoices, NEW y, y = NoteFramePresented(x, ch)
  PROVE  SoundStep(x, y) /\ ~y.started
PROOF
<1>1. FramesSound(x) /\ x \in Window
  BY DEF Steady, FramesSound
<1>2. CASE ~x.displaying
  <2>1. y = x
    BY <1>2 DEF NoteFramePresented
  <2>2. ~x.started
    BY <1>2 DEF Steady
  <2>3. SoundStep(x, x)
    BY <2>2 DEF SoundStep
  <2>4. QED
    BY <2>1, <2>2, <2>3
<1>3. CASE x.displaying
  <2> DEFINE d == FrameDone(x)
             r == IF d.synchronized THEN d ELSE RunCallbacks(d)
             e == [r EXCEPT !.displaying = FALSE]
  <2>1. FramesSound(d) /\ Drew(x, d) /\ ~d.started /\ d.used = x.used
    BY <1>1, FrameDoneSound
  <2>2. y = e
    <3> HIDE DEF d
    <3>1. ~d.synchronized => ~d.pending
      BY <2>1 DEF FramesSound
    <3>2. QED
      BY <1>3, <3>1 DEF NoteFramePresented, FrameCompleted, d
  <2> HIDE DEF d
  <2>3. d \in Window
    BY <2>1 DEF FramesSound
  <2>4. r \in Window /\ SameFrame(d, r) /\ Drew(d, r)
    <3>1. CASE d.synchronized
      <4>1. r = d
        BY <3>1
      <4>2. SameFrame(d, d) /\ Drew(d, d)
        BY DEF SameFrame, Drew
      <4>3. QED
        BY <2>3, <4>1, <4>2
    <3>2. CASE ~d.synchronized
      BY <2>3, <3>2, RunCallbacksSame
    <3>3. QED
      BY <3>1, <3>2
  <2> HIDE DEF r
  <2>5. FramesSound(r)
    BY <2>1, <2>4, SameFrameSound
  <2>6. e \in Window
    BY ZenonT(30), <2>4 DEF Window
  <2>7. /\ e.clock = r.clock /\ e.xevents = r.xevents /\ e.used = r.used
        /\ e.started <=> r.started
        /\ ~e.displaying
        /\ e.aborted <=> r.aborted
        /\ e.synchronized <=> r.synchronized
        /\ e.pending <=> r.pending
        /\ e.wait_commit <=> r.wait_commit
        /\ e.wait_ack <=> r.wait_ack
    BY <2>4 DEF Window
  <2>8. Drew(r, e)
    BY <2>4 DEF Window, Drew
  <2> HIDE DEF e
  <2>9. FramesSound(e)
    BY <2>5, <2>6, <2>7 DEF FramesSound, Drawing
  <2>10. ~e.started /\ e.used = x.used
    BY <2>1, <2>4, <2>7 DEF SameFrame
  <2>11. Drew(x, e)
    BY <2>1, <2>4, <2>8, DrewAgain
  <2>12. AckSound(x) => AckSound(e)
    BY <2>11, DrewSound
  <2>13. SoundStep(x, e)
    BY <2>7, <2>9, <2>10, <2>11, <2>12 DEF SoundStep, Steady, Drew
  <2>14. QED
    BY <2>2, <2>10, <2>13
<1>4. QED
  BY <1>2, <1>3

\* The compositing manager has drawn the frame: a scheduled update runs, and
\* nobody waits for a commit then.
LEMMA AfterFrameSound ==
  ASSUME NEW x, Steady(x), ~x.clock.in_frame,
         NEW ch \in StepChoices, NEW y, y = AfterFrame(x, ch)
  PROVE  SoundStep(x, y)
PROOF
<1> DEFINE s == [x EXCEPT !.synchronized = FALSE]
           e == [s EXCEPT !.pending = FALSE]
<1>1. FramesSound(x) /\ x \in Window
  BY DEF Steady, FramesSound
<1>2. CASE x.pending
  <2>1. y = SubcompositorUpdate(e, ch)
    BY <1>1, <1>2 DEF AfterFrame, FrameCompleted, Window
  <2>2. e \in Window
    BY ZenonT(30), <1>1 DEF Window
  <2>3. /\ e.clock = x.clock /\ e.xevents = x.xevents /\ e.used = x.used
        /\ e.started <=> x.started
        /\ e.displaying <=> x.displaying
        /\ e.aborted <=> x.aborted
        /\ ~e.synchronized /\ ~e.pending
        /\ e.wait_commit <=> x.wait_commit
        /\ e.wait_ack <=> x.wait_ack
    BY <1>1 DEF Window
  <2>4. Drew(x, e)
    BY <1>1 DEF Window, Drew
  <2> HIDE DEF e
  <2>5. FramesSound(e)
    BY <1>1, <2>2, <2>3 DEF FramesSound, Drawing
  <2>6. CanStartFrame(e.clock)
    BY <2>3 DEF CanStartFrame
  <2>7. /\ Steady(y)
        /\ y.started => y.key
        /\ Updated(e, y)
        /\ e.used = "clock" /\ ~e.async => y.used = "clock"
    BY <2>1, <2>5, <2>6, SubcompositorUpdateSound
  <2>8. Updated(x, e)
    BY <1>1, <2>4, DrewUpdated
  <2>9. Updated(x, y)
    BY <2>7, <2>8, UpdatedAgain
  <2>10. ~x.wait_commit
    BY <1>1, <1>2 DEF FramesSound
  <2>11. x.used = "clock" /\ ~x.async => y.used = "clock" /\ ~y.async
    BY <2>3, <2>7, <2>8, <2>9 DEF Updated
  <2>12. QED
    BY <2>7, <2>9, <2>10, <2>11 DEF SoundStep, Updated
<1>3. CASE ~x.pending
  <2>1. y = RunCallbacks(s)
    BY <1>1, <1>3 DEF AfterFrame, FrameCompleted, Window
  <2>2. s \in Window
    BY ZenonT(30), <1>1 DEF Window
  <2>3. /\ s.clock = x.clock /\ s.xevents = x.xevents /\ s.used = x.used
        /\ s.started <=> x.started
        /\ s.displaying <=> x.displaying
        /\ s.aborted <=> x.aborted
        /\ s.key <=> x.key
        /\ ~s.synchronized /\ ~s.pending
        /\ s.wait_commit <=> x.wait_commit
        /\ s.wait_ack <=> x.wait_ack
    BY <1>1, <1>3 DEF Window
  <2>4. Drew(x, s)
    BY <1>1 DEF Window, Drew
  <2> HIDE DEF s
  <2>5. FramesSound(s)
    BY <1>1, <2>2, <2>3 DEF FramesSound, Drawing
  <2>6. AckSound(x) => AckSound(s)
    BY <2>4, DrewSound
  <2>7. Steady(s)
    BY <2>3, <2>5 DEF Steady
  <2>8. SoundStep(x, s)
    BY <2>3, <2>4, <2>6, <2>7 DEF SoundStep, Drew
  <2>9. SoundStep(s, y)
    <3>1. y \in Window /\ SameFrame(s, y) /\ Drew(s, y) /\ Resized(s, y, FALSE)
      BY <2>1, <2>2, RunCallbacksSame
    <3>2. y.key <=> s.key
      BY <3>1 DEF Resized
    <3>3. QED
      BY <2>7, <3>1, <3>2, SameSound
  <2>10. QED
    BY <2>3, <2>8, <2>9, SoundAgain
<1>4. QED
  BY <1>2, <1>3

\* An update while the compositing manager reads the frame is scheduled, and
\* else nothing prevents it.
LEMMA SyncHelperUpdateSound ==
  ASSUME NEW x, Steady(x), ~x.wait_commit,
         NEW ch \in StepChoices, NEW y, y = SyncHelperUpdate(x, ch)
  PROVE  /\ SoundStep(x, y)
         /\ Updated(x, y)
         /\ x.used = "clock" /\ ~x.async => (y.clock.need_configure => y.wait_commit)
PROOF
<1>1. FramesSound(x) /\ x \in Window
  BY DEF Steady, FramesSound
<1>2. CASE CheckFrame(x)
  <2>1. y = SubcompositorUpdate(x, ch)
    BY <1>2 DEF SyncHelperUpdate
  <2>2. x.started \/ CanStartFrame(x.clock)
    BY <1>1, <1>2 DEF CheckFrame, CanStartFrame, FramesSound, Drawing
  <2>3. /\ Steady(y)
        /\ y.started => y.key
        /\ Updated(x, y)
        /\ x.used = "clock" /\ ~x.async
              => /\ y.used = "clock"
                 /\ ~x.wait_commit => (y.clock.need_configure => y.wait_commit)
    BY <1>1, <2>1, <2>2, SubcompositorUpdateSound
  <2>4. QED
    BY <2>3 DEF SoundStep, Updated
<1>3. CASE ~CheckFrame(x)
  <2> DEFINE e == [x EXCEPT !.pending = TRUE]
  <2>1. y = e
    BY <1>3 DEF SyncHelperUpdate
  <2>2. x.used = "clock" /\ x.clock.in_frame
    BY <1>3 DEF CheckFrame
  <2>3. e \in Window
    BY ZenonT(30), <1>1 DEF Window
  <2>4. /\ e.clock = x.clock /\ e.xevents = x.xevents /\ e.used = x.used
        /\ e.started <=> x.started
        /\ e.displaying <=> x.displaying
        /\ e.aborted <=> x.aborted
        /\ e.key <=> x.key
        /\ e.synchronized <=> x.synchronized
        /\ e.wait_commit <=> x.wait_commit
        /\ e.wait_ack <=> x.wait_ack
    BY <1>1 DEF Window
  <2>5. Drew(x, e)
    BY <1>1 DEF Window, Drew
  <2> HIDE DEF e
  <2>6. FramesSound(e)
    BY <1>1, <2>2, <2>3, <2>4 DEF FramesSound, Drawing
  <2>7. Steady(e)
    BY <2>4, <2>6 DEF Steady
  <2>8. Updated(x, e)
    BY <1>1, <2>5, DrewUpdated
  <2>9. SoundStep(x, e)
    BY <2>4, <2>7, <2>8 DEF SoundStep, Updated
  <2>10. ~e.clock.need_configure
    BY <1>1, <2>2, <2>4 DEF FramesSound, Consistent
  <2>11. QED
    BY <2>1, <2>8, <2>9, <2>10
<1>4. QED
  BY <1>2, <1>3

-----------------------------------------------------------------------------
(* Configure events. *)

\* A configure event was sent: y waits for its acknowledgement.
Sent(x, y) ==
  /\ y.clock = x.clock
  /\ y.xevents = x.xevents
  /\ y.owed = x.owed
  /\ y.used = x.used
  /\ y.started <=> x.started
  /\ y.displaying <=> x.displaying
  /\ y.synchronized <=> x.synchronized
  /\ y.aborted <=> x.aborted
  /\ y.key <=> x.key
  /\ y.mapped <=> x.mapped
  /\ y.buffer <=> x.buffer
  /\ y.wait_initial <=> x.wait_initial
  /\ y.async <=> x.async
  /\ y.wait_ack /\ y.wait_commit /\ y.conf_reply
  /\ ~y.pending /\ ~y.maybe_configure

LEMMA SentSound ==
  ASSUME NEW x, Steady(x), NEW y \in Window, Sent(x, y)
  PROVE  SoundStep(x, y) /\ (AckTold(x) => AckSound(y))
PROOF
<1>1. FramesSound(y)
  BY DEF Steady, FramesSound, Sent, Drawing
<1>2. AckTold(x) => AckSound(y)
  <2>1. Queued(x) <=> Queued(y)
    BY DEF Queued, Sent
  <2>2. QED
    BY <2>1 DEF AckSound, AckTold, Sent
<1>3. QED
  BY <1>1, <1>2 DEF SoundStep, Steady, Sent, AckSound

LEMMA SendConfigureSound ==
  ASSUME NEW x \in Window, NEW y, y = SendConfigure(x)
  PROVE  y \in Window /\ Sent(x, y) /\ (y.config_timer <=> x.config_timer)
PROOF
<1> DEFINE e == [x EXCEPT !.wait_ack = TRUE, !.wait_commit = TRUE, !.conf_reply = TRUE,
                          !.pending = FALSE, !.temporary_bounds = FALSE,
                          !.maybe_configure = FALSE]
<1>1. y = e
  BY DEF SendConfigure
<1>2. e \in Window
  BY ZenonT(30) DEF Window
<1>3. Sent(x, e) /\ (e.config_timer <=> x.config_timer)
  BY DEF Window, Sent
<1> HIDE DEF e
<1>4. QED
  BY <1>1, <1>2, <1>3

\* The timer's event, which also forgets the timer.
LEMMA TimerConfigureSound ==
  ASSUME NEW x \in Window, NEW y, y = [SendConfigure(x) EXCEPT !.config_timer = FALSE]
  PROVE  y \in Window /\ Sent(x, y)
PROOF
<1> DEFINE s == SendConfigure(x)
           e == [s EXCEPT !.config_timer = FALSE]
<1>1. s \in Window /\ Sent(x, s)
  BY SendConfigureSound
<1> HIDE DEF s
<1>2. e \in Window
  BY ZenonT(30), <1>1 DEF Window
<1>3. Sent(s, e)
  BY <1>1 DEF Window, Sent
<1> HIDE DEF e
<1>4. Sent(x, e)
  BY <1>1, <1>3 DEF Sent
<1>5. QED
  BY <1>2, <1>4 DEF e, s

\* Delayed or sent, a configure event will reach the client.
LEMMA PostConfigureSound ==
  ASSUME NEW x, Steady(x), NEW delay \in BOOLEAN, NEW y, y = PostConfigure(x, delay)
  PROVE  SoundStep(x, y) /\ (AckTold(x) => AckSound(y))
PROOF
<1>1. FramesSound(x) /\ x \in Window
  BY DEF Steady, FramesSound
<1>2. CASE y = [x EXCEPT !.config_timer = TRUE]
  <2> DEFINE e == [x EXCEPT !.config_timer = TRUE]
  <2>1. e \in Window
    BY <1>1 DEF Window
  <2>2. SameFrame(x, e) /\ (e.key <=> x.key)
    BY <1>1 DEF Window, SameFrame
  <2>3. /\ e.owed = x.owed /\ e.config_timer
        /\ e.mapped <=> x.mapped
        /\ e.buffer <=> x.buffer
        /\ e.wait_initial <=> x.wait_initial
        /\ e.conf_reply <=> x.conf_reply
        /\ e.maybe_configure <=> x.maybe_configure
        /\ e.async <=> x.async
    BY <1>1 DEF Window
  <2> HIDE DEF e
  <2>4. FramesSound(e)
    BY <1>1, <2>1, <2>2, SameFrameSound
  <2>5. AckTold(x) => AckSound(e)
    <3>1. Queued(x) <=> Queued(e)
      BY <2>2, <2>3 DEF Queued, SameFrame
    <3>2. QED
      BY <2>2, <2>3, <3>1 DEF AckSound, AckTold, SameFrame
  <2>6. SoundStep(x, e)
    BY <2>2, <2>3, <2>4, <2>5 DEF SoundStep, Steady, SameFrame, AckSound
  <2>7. QED
    BY <1>2, <2>5, <2>6 DEF e
<1>3. CASE y = SendConfigure(x)
  BY <1>1, <1>3, SendConfigureSound, SentSound
<1>4. QED
  BY <1>2, <1>3 DEF PostConfigure

\* The next step of an interactive resize is sent, or waits.
LEMMA PostResizeSound ==
  ASSUME NEW x, Steady(x), NEW y, y = PostResize(x)
  PROVE  SoundStep(x, y) /\ y.clock = x.clock /\ (x.wait_commit => y.wait_commit)
PROOF
<1>1. FramesSound(x) /\ x \in Window
  BY DEF Steady, FramesSound
<1>2. CASE x.ack_movement
  <2> DEFINE e == [x EXCEPT !.pending_resize = TRUE]
  <2>1. y = e
    BY <1>2 DEF PostResize
  <2>2. e \in Window
    BY ZenonT(30), <1>1 DEF Window
  <2>3. SameFrame(x, e) /\ Drew(x, e) /\ (e.key <=> x.key)
    BY <1>1 DEF Window, SameFrame, Drew
  <2> HIDE DEF e
  <2>4. SoundStep(x, e)
    BY <2>2, <2>3, SameSound
  <2>5. QED
    BY <2>1, <2>3, <2>4 DEF SameFrame
<1>3. CASE ~x.ack_movement
  <2> DEFINE s == SendConfigure(x)
             e == [s EXCEPT !.config_timer = FALSE, !.ack_movement = TRUE,
                            !.pending_resize = FALSE]
  <2>1. y = e
    BY <1>3 DEF PostResize
  <2>2. s \in Window /\ Sent(x, s)
    BY <1>1, SendConfigureSound
  <2> HIDE DEF s
  <2>3. e \in Window
    BY ZenonT(30), <2>2 DEF Window
  <2>4. Sent(s, e)
    BY <2>2 DEF Window, Sent
  <2> HIDE DEF e
  <2>5. Sent(x, e)
    BY <2>2, <2>4 DEF Sent
  <2>6. SoundStep(x, e)
    BY <2>3, <2>5, SentSound
  <2>7. QED
    BY <2>1, <2>5, <2>6 DEF Sent
<1>4. QED
  BY <1>2, <1>3

-----------------------------------------------------------------------------
(* Reading an X event. *)

LEMMA TailEvents ==
  ASSUME NEW s \in Seq(Event), s # <<>>
  PROVE  /\ Tail(s) \in Seq(Event)
         /\ 1 \in DOMAIN s /\ Head(s) = s[1] /\ Head(s) \in Event
         /\ \A j \in DOMAIN Tail(s) : j + 1 \in DOMAIN s /\ Tail(s)[j] = s[j + 1]
         /\ \A i \in DOMAIN s : i = 1 \/ (i - 1 \in DOMAIN Tail(s) /\ s[i] = Tail(s)[i - 1])
OBVIOUS

\* An event that was read had nothing behind it that it brought along: what
\* the others promise still holds, and a ConfigureNotify is still queued if
\* the event was none.
LEMMA PoppedSound ==
  ASSUME NEW x, Steady(x), x.xevents # <<>>, NEW y \in Window, Noted(x, y),
         SameClock(x.clock, y.clock), y.xevents = Tail(x.xevents), y.owed = x.owed
  PROVE  /\ Steady(y)
         /\ AckSound(x) /\ y.clock.configured => AckTold(y)
         /\ ~IsConfigure(Head(x.xevents)) => (AckSound(x) => AckSound(y))
PROOF
<1> DEFINE s == x.xevents
           t == y.xevents
           Behind(q, i) == \E j \in DOMAIN q : j > i /\ IsConfigure(q[j])
<1>1. s \in Seq(Event) /\ s # <<>> /\ t = Tail(s) /\ FramesSound(x)
  BY DEF Steady, FramesSound, Window
<1> HIDE DEF s, t
<1>2. /\ 1 \in DOMAIN s /\ Head(s) = s[1]
      /\ \A j \in DOMAIN t : j + 1 \in DOMAIN s /\ t[j] = s[j + 1]
      /\ \A i \in DOMAIN s : i = 1 \/ (i - 1 \in DOMAIN t /\ s[i] = t[i - 1])
      /\ DOMAIN s \subseteq Nat /\ DOMAIN t \subseteq Nat
  BY <1>1, TailEvents
<1>3. FramesSound(y)
  BY <1>1, <1>2, NotedSound DEF s, t
<1>4. Steady(y)
  BY <1>3 DEF Steady, Noted
<1>5. ASSUME NEW i \in DOMAIN t, Behind(s, i + 1)
      PROVE  Behind(t, i)
  <2>1. PICK j \in DOMAIN s : j > i + 1 /\ IsConfigure(s[j])
    BY <1>5
  <2>2. j - 1 \in DOMAIN t /\ s[j] = t[j - 1] /\ j - 1 > i
    BY <1>2, <2>1
  <2>3. QED
    BY <2>1, <2>2
<1>6. AckSound(x) => \A i \in DOMAIN t : t[i].type = "sync" => y.owed > 0 \/ Behind(t, i)
  BY <1>2, <1>5 DEF AckSound, AckTold, s
<1>7. AckSound(x) /\ ~y.mapped => \A i \in DOMAIN t : t[i].type # "sync"
  BY <1>2 DEF AckSound, AckTold, Noted, s
<1>8. ~IsConfigure(Head(s)) /\ Queued(x) => Queued(y)
  BY <1>2 DEF Queued, s, t
<1>9. AckSound(x) /\ y.clock.configured => AckTold(y)
  BY <1>6, <1>7 DEF AckSound, AckTold, Noted, SameClock, t
<1>10. ~IsConfigure(Head(s)) /\ AckSound(x) => AckSound(y)
  BY <1>6, <1>7, <1>8 DEF AckSound, AckTold, Noted, SameClock, t
<1>11. QED
  BY <1>4, <1>9, <1>10 DEF s

\* A notified freeze whose size turns out to be the toplevel's is lifted.
LEMMA NoteRejectedSound ==
  ASSUME NEW x, Steady(x), NEW y, y = NoteRejectedConfigure(x)
  PROVE  SoundStep(x, y) /\ (AckTold(x) => AckSound(y))
PROOF
<1>1. FramesSound(x) /\ x \in Window
  BY DEF Steady, FramesSound
<1>2. CASE x.maybe_configure
  <2> DEFINE e == [x EXCEPT !.wait_ack = FALSE, !.wait_commit = FALSE,
                            !.maybe_configure = FALSE]
  <2>1. y = e
    BY <1>2 DEF NoteRejectedConfigure
  <2>2. e \in Window
    BY ZenonT(30), <1>1 DEF Window
  <2>3. /\ e.clock = x.clock /\ e.xevents = x.xevents /\ e.owed = x.owed
        /\ e.used = x.used
        /\ e.started <=> x.started
        /\ e.displaying <=> x.displaying
        /\ e.aborted <=> x.aborted
        /\ e.key <=> x.key
        /\ e.synchronized <=> x.synchronized
        /\ e.pending <=> x.pending
        /\ ~e.wait_commit /\ ~e.wait_ack /\ ~e.maybe_configure
    BY <1>1 DEF Window
  <2>4. /\ e.mapped <=> x.mapped
        /\ e.buffer <=> x.buffer
        /\ e.wait_initial <=> x.wait_initial
        /\ e.async <=> x.async
    BY <1>1 DEF Window
  <2> HIDE DEF e
  <2>5. FramesSound(e)
    BY <1>1, <2>2, <2>3 DEF FramesSound, Drawing
  <2>6. AckTold(x) => AckSound(e)
    <3>1. Queued(x) <=> Queued(e)
      BY <2>3 DEF Queued
    <3>2. QED
      BY <2>3, <2>4, <3>1 DEF AckSound, AckTold
  <2>7. SoundStep(x, e)
    BY <2>3, <2>4, <2>5, <2>6 DEF SoundStep, Steady, AckSound
  <2>8. QED
    BY <2>1, <2>6, <2>7
<1>3. CASE ~x.maybe_configure
  <2>1. y = x
    BY <1>3 DEF NoteRejectedConfigure
  <2>2. SoundStep(x, x)
    BY DEF SoundStep
  <2>3. AckTold(x) => AckSound(x)
    BY <1>3 DEF AckSound, AckTold
  <2>4. QED
    BY <2>1, <2>2, <2>3
<1>4. QED
  BY <1>2, <1>3

\* Whatever a ConfigureNotify says, a window that was frozen for it is either
\* told so or thawed.
LEMMA HandleConfigureEventSound ==
  ASSUME NEW x, Steady(x), x.xevents # <<>>, NEW same \in BOOLEAN, NEW delay \in BOOLEAN,
         NEW p, p = [x EXCEPT !.xevents = Tail(x.xevents)],
         NEW y, y = HandleConfigureEvent(p, same, delay)
  PROVE  SoundStep(x, y)
PROOF
<1> DEFINE c == NoteConfigure(x.clock)
           t == Tail(x.xevents)
           n == [x EXCEPT !.xevents = t, !.clock = c]
           q == [x EXCEPT !.xevents = t, !.clock = c,
                          !.temporary_bounds = TRUE, !.resized = TRUE]
<1>1. FramesSound(x) /\ x \in Window /\ Consistent(x.clock)
  BY DEF Steady, FramesSound
<1>2. t \in Seq(Event)
  BY <1>1, TailEvents DEF Window
<1>3. c \in ClockType /\ SameClock(x.clock, c) /\ c.configured
  BY <1>1, NoteConfigureConsistent DEF SameClock, Consistent
<1>4. SameClock(x.clock, x.clock)
  BY <1>1 DEF SameClock
<1> HIDE DEF c, t
<1>5. /\ p \in Window /\ Noted(x, p)
      /\ p.xevents = t /\ p.owed = x.owed /\ p.clock = x.clock
  <2> DEFINE e == [x EXCEPT !.xevents = t]
  <2>1. e \in Window
    BY <1>1, <1>2 DEF Window
  <2>2. Noted(x, e)
    BY <1>1 DEF Window, Noted
  <2>3. e.xevents = t /\ e.owed = x.owed /\ e.clock = x.clock
    BY <1>1 DEF Window
  <2>4. p = e
    BY DEF t
  <2> HIDE DEF e
  <2>5. QED
    BY <2>1, <2>2, <2>3, <2>4
<1>6. n \in Window /\ Noted(x, n) /\ n.xevents = t /\ n.owed = x.owed /\ n.clock = c
  <2>1. n \in Window
    BY ZenonT(30), <1>1, <1>2, <1>3 DEF Window
  <2>2. Noted(x, n)
    BY <1>1 DEF Window, Noted
  <2>3. n.xevents = t /\ n.owed = x.owed /\ n.clock = c
    BY <1>1 DEF Window
  <2>4. QED
    BY <2>1, <2>2, <2>3
<1>7. q \in Window /\ Noted(x, q) /\ q.xevents = t /\ q.owed = x.owed /\ q.clock = c
  <2>1. q \in Window
    BY ZenonT(30), <1>1, <1>2, <1>3 DEF Window
  <2>2. Noted(x, q)
    BY <1>1 DEF Window, Noted
  <2>3. q.xevents = t /\ q.owed = x.owed /\ q.clock = c
    BY <1>1 DEF Window
  <2>4. QED
    BY <2>1, <2>2, <2>3
<1>8. \/ ~x.mapped /\ y = p
      \/ y = PostConfigure(q, delay)
      \/ y = n /\ x.config_timer
      \/ y = NoteRejectedConfigure(n)
  BY <1>1 DEF HandleConfigureEvent, Window, c, t
<1> HIDE DEF n, q
<1>9. Steady(n) /\ (AckSound(x) => AckTold(n))
  BY <1>3, <1>6, PoppedSound DEF t
<1>10. Steady(q) /\ (AckSound(x) => AckTold(q))
  BY <1>3, <1>7, PoppedSound DEF t
<1>11. CASE ~x.mapped /\ y = p
  <2>1. Steady(p) /\ (AckSound(x) /\ p.clock.configured => AckTold(p))
    BY <1>4, <1>5, PoppedSound DEF t
  <2>2. AckSound(x) => AckSound(p)
    BY <1>5, <1>11, <2>1 DEF AckSound, AckTold, Noted
  <2>3. QED
    BY <1>5, <1>11, <2>1, <2>2 DEF SoundStep, Noted
<1>12. CASE y = PostConfigure(q, delay)
  <2>1. SoundStep(q, y) /\ (AckTold(q) => AckSound(y))
    BY <1>10, <1>12, PostConfigureSound
  <2>2. QED
    BY <1>7, <1>10, <2>1 DEF SoundStep, Noted
<1>13. CASE y = n /\ x.config_timer
  <2>1. AckTold(n) => AckSound(n)
    BY <1>6, <1>13 DEF AckSound, Noted
  <2>2. QED
    BY <1>6, <1>9, <1>13, <2>1 DEF SoundStep, Noted
<1>14. CASE y = NoteRejectedConfigure(n)
  <2>1. SoundStep(n, y) /\ (AckTold(n) => AckSound(y))
    BY <1>9, <1>14, NoteRejectedSound
  <2>2. QED
    BY <1>6, <1>9, <2>1 DEF SoundStep, Noted
<1>15. QED
  BY <1>8, <1>11, <1>12, <1>13, <1>14

-----------------------------------------------------------------------------
(* Commits. *)

\* What a commit leaves alone until it updates the sync helper.
Held(x, y) ==
  /\ y.started <=> x.started
  /\ y.key <=> x.key
  /\ y.used = x.used
  /\ y.wait_commit <=> x.wait_commit
  /\ y.wait_ack <=> x.wait_ack

LEMMA ApplySound ==
  ASSUME NEW x, Steady(x), NEW kind, NEW async \in BOOLEAN, NEW busy \in BOOLEAN,
         NEW y, y = Apply(x, kind, async, busy)
  PROVE  /\ Steady(y) /\ Held(x, y)
         /\ y.async <=> async
         /\ AckSound(x) /\ (x.mapped => kind # "null") => AckSound(y)
PROOF
<1> DEFINE b == IF kind = "callback" THEN x.buffer ELSE kind # "null"
           d == x.damage \/ kind # "callback"
           r == CASE kind = "larger" -> TRUE [] kind = "fitting" -> FALSE [] OTHER -> x.resized
           p == x.pending_release \/ (busy /\ x.buffer /\ kind # "callback")
           e == [x EXCEPT !.callbacks = TRUE, !.async = async, !.buffer = b, !.damage = d,
                          !.resized = r, !.pending_release = p]
<1>1. FramesSound(x) /\ x \in Window
  BY DEF Steady, FramesSound
<1>2. y = e
  BY <1>1 DEF Apply, Window
<1>3. b \in BOOLEAN /\ d \in BOOLEAN /\ r \in BOOLEAN /\ p \in BOOLEAN
  BY <1>1 DEF Window
<1>4. x.buffer /\ kind # "null" => b
  OBVIOUS
<1> HIDE DEF b, d, r, p
<1>5. e \in Window
  BY ZenonT(30), <1>1, <1>3 DEF Window
<1>6. SameFrame(x, e) /\ (e.key <=> x.key) /\ (e.async <=> async)
  BY <1>1, <1>3 DEF Window, SameFrame
<1>7. /\ e.owed = x.owed
      /\ e.buffer <=> b
      /\ e.mapped <=> x.mapped
      /\ e.wait_initial <=> x.wait_initial
      /\ e.conf_reply <=> x.conf_reply
      /\ e.config_timer <=> x.config_timer
      /\ e.maybe_configure <=> x.maybe_configure
  BY <1>1, <1>3 DEF Window
<1> HIDE DEF e
<1>8. FramesSound(e)
  BY <1>1, <1>5, <1>6, SameFrameSound
<1>9. Steady(e) /\ Held(x, e)
  BY <1>6, <1>8 DEF Steady, SameFrame, Held
<1>10. AckSound(x) /\ (x.mapped => kind # "null") => AckSound(e)
  <2>1. Queued(x) <=> Queued(e)
    BY <1>6, <1>7 DEF Queued, SameFrame
  <2>2. QED
    BY <1>4, <1>6, <1>7, <2>1 DEF AckSound, AckTold, SameFrame
<1>11. QED
  BY <1>2, <1>6, <1>9, <1>10

LEMMA MapSound ==
  ASSUME NEW x, Steady(x), x.buffer, NEW ch \in StepChoices, NEW y, y = Map(x, ch)
  PROVE  /\ Steady(y) /\ Held(x, y)
         /\ y.async <=> x.async
         /\ y.buffer
         /\ AckSound(x) => AckSound(y)
PROOF
<1> DEFINE m == [x EXCEPT !.mapped = TRUE, !.wait_initial = FALSE, !.damage = TRUE,
                          !.temporary_bounds = FALSE]
           n == NoteBounds(m, ch)
<1>1. FramesSound(x) /\ x \in Window
  BY DEF Steady, FramesSound
<1>2. m \in Window
  BY ZenonT(30), <1>1 DEF Window
<1>3. SameFrame(x, m) /\ (m.key <=> x.key) /\ (m.async <=> x.async)
  BY <1>1 DEF Window, SameFrame
<1>4. /\ m.owed = x.owed
      /\ m.buffer /\ m.mapped /\ ~m.wait_initial
      /\ m.conf_reply <=> x.conf_reply
      /\ m.config_timer <=> x.config_timer
      /\ m.maybe_configure <=> x.maybe_configure
  BY <1>1 DEF Window
<1>5. y = NoteWindowResized(n, ch)
  BY DEF Map
<1> HIDE DEF m
<1>6. FramesSound(m)
  BY <1>1, <1>2, <1>3, SameFrameSound
<1>7. AckSound(x) => AckSound(m)
  <2>1. Queued(x) <=> Queued(m)
    BY <1>3, <1>4 DEF Queued, SameFrame
  <2>2. QED
    BY <1>3, <1>4, <2>1 DEF AckSound, AckTold, SameFrame
<1>8. FramesSound(n) /\ Noted(m, n) /\ (AckSound(m) => AckSound(n))
  BY <1>6, NoteBoundsSound
<1> HIDE DEF n
<1>9. FramesSound(y) /\ Noted(n, y) /\ (AckSound(n) => AckSound(y))
  BY <1>5, <1>8, NoteWindowResizedSound
<1>10. Noted(m, y)
  BY <1>8, <1>9 DEF Noted
<1>11. Held(x, y) /\ (y.async <=> x.async) /\ y.buffer
  BY <1>3, <1>4, <1>10 DEF Noted, SameFrame, Held
<1>12. Steady(y)
  BY <1>3, <1>9, <1>10 DEF Steady, Noted, SameFrame
<1>13. QED
  BY <1>7, <1>8, <1>9, <1>11, <1>12

\* The toplevel's part of a commit: an unmapped toplevel is configured anew, a
\* configured one with contents is mapped.
LEMMA ToplevelCommitSound ==
  ASSUME NEW x, Steady(x), NEW ch \in StepChoices, NEW y, y = ToplevelCommit(x, ch)
  PROVE  /\ Steady(y)
         /\ y.started <=> x.started
         /\ y.key <=> x.key
         /\ y.used = x.used
         /\ y.async <=> x.async
         /\ x.wait_ack => y.wait_ack
         /\ y.mapped => y.buffer
         /\ AckSound(x) => AckSound(y)
PROOF
<1>1. FramesSound(x) /\ x \in Window
  BY DEF Steady, FramesSound
<1>2. CASE ~x.buffer \/ x.wait_initial
  <2> DEFINE i == [x EXCEPT !.wait_initial = FALSE, !.config_timer = FALSE]
             u == [x EXCEPT !.mapped = FALSE, !.wait_initial = TRUE, !.conf_reply = FALSE,
                            !.config_timer = FALSE, !.ack_movement = FALSE,
                            !.pending_resize = FALSE]
             v == IF x.mapped THEN u ELSE i
  <2>1. y = SendConfigure(v)
    BY <1>1, <1>2 DEF ToplevelCommit, Unmap, Window
  <2>2. /\ v \in Window /\ SameFrame(x, v) /\ ~v.mapped
        /\ v.key <=> x.key
        /\ v.async <=> x.async
        /\ v.owed = x.owed
        /\ v.maybe_configure <=> x.maybe_configure
    <3>1. CASE x.mapped
      <4>1. u \in Window
        BY ZenonT(30), <1>1 DEF Window
      <4>2. /\ SameFrame(x, u) /\ ~u.mapped
            /\ u.key <=> x.key
            /\ u.async <=> x.async
            /\ u.owed = x.owed
            /\ u.maybe_configure <=> x.maybe_configure
        BY <1>1 DEF Window, SameFrame
      <4> HIDE DEF u
      <4>3. QED
        BY <3>1, <4>1, <4>2
    <3>2. CASE ~x.mapped
      <4>1. i \in Window
        BY ZenonT(30), <1>1 DEF Window
      <4>2. /\ SameFrame(x, i) /\ ~i.mapped
            /\ i.key <=> x.key
            /\ i.async <=> x.async
            /\ i.owed = x.owed
            /\ i.maybe_configure <=> x.maybe_configure
        BY <1>1, <3>2 DEF Window, SameFrame
      <4> HIDE DEF i
      <4>3. QED
        BY <3>2, <4>1, <4>2
    <3>3. QED
      BY <3>1, <3>2
  <2> HIDE DEF v
  <2>3. FramesSound(v)
    BY <1>1, <2>2, SameFrameSound
  <2>4. Steady(v)
    BY <2>2, <2>3 DEF Steady, SameFrame
  <2>5. y \in Window /\ Sent(v, y)
    BY <2>1, <2>2, SendConfigureSound
  <2>6. Steady(y)
    BY <2>4, <2>5, SentSound DEF SoundStep
  <2>7. AckSound(x) => AckSound(y)
    <3>1. Queued(x) <=> Queued(y)
      BY <2>2, <2>5 DEF Queued, SameFrame, Sent
    <3>2. AckSound(x) => ~x.mapped
      BY <1>2 DEF AckSound, AckTold
    <3>3. QED
      BY <2>2, <2>5, <3>1, <3>2 DEF AckSound, AckTold, SameFrame, Sent
  <2>8. QED
    BY <2>2, <2>5, <2>6, <2>7 DEF SameFrame, Sent
<1>3. CASE x.buffer /\ ~x.wait_initial /\ (x.conf_reply \/ x.mapped)
  <2>1. y = x
    BY <1>3 DEF ToplevelCommit
  <2>2. QED
    BY <1>3, <2>1
<1>4. CASE x.buffer /\ ~x.wait_initial /\ ~(x.conf_reply \/ x.mapped)
  <2>1. y = Map(x, ch)
    BY <1>4 DEF ToplevelCommit
  <2>2. /\ Steady(y) /\ Held(x, y)
        /\ y.async <=> x.async
        /\ y.buffer
        /\ AckSound(x) => AckSound(y)
    BY <1>4, <2>1, MapSound
  <2>3. QED
    BY <2>2 DEF Held
<1>5. QED
  BY <1>2, <1>3, <1>4

\* The toplevel's part that follows the update: the size that the user has
\* since dragged the window to.
LEMMA AfterCommitSound ==
  ASSUME NEW x, Steady(x), NEW y, y = AfterCommit(x)
  PROVE  SoundStep(x, y) /\ y.clock = x.clock /\ (x.wait_commit => y.wait_commit)
PROOF
<1> DEFINE m == [x EXCEPT !.ack_movement = FALSE]
<1>1. FramesSound(x) /\ x \in Window
  BY DEF Steady, FramesSound
<1>2. SoundStep(x, m) /\ Steady(m) /\ SameFrame(x, m)
  <2>1. m \in Window
    BY ZenonT(30), <1>1 DEF Window
  <2>2. SameFrame(x, m) /\ Drew(x, m) /\ (m.key <=> x.key)
    BY <1>1 DEF Window, SameFrame, Drew
  <2> HIDE DEF m
  <2>3. SoundStep(x, m)
    BY <2>1, <2>2, SameSound
  <2>4. QED
    BY <2>2, <2>3 DEF SoundStep
<1>3. \/ y = x
      \/ y = m
      \/ y = PostResize(m)
  BY DEF AfterCommit
<1> HIDE DEF m
<1>4. CASE y = x
  BY <1>4 DEF SoundStep
<1>5. CASE y = m
  BY <1>2, <1>5 DEF SameFrame
<1>6. CASE y = PostResize(m)
  <2>1. SoundStep(m, y) /\ y.clock = m.clock /\ (m.wait_commit => y.wait_commit)
    BY <1>2, <1>6, PostResizeSound
  <2>2. SoundStep(x, y)
    BY <1>2, <2>1, SoundAgain DEF SameFrame
  <2>3. QED
    BY <1>2, <2>1, <2>2 DEF SameFrame
<1>7. QED
  BY <1>3, <1>4, <1>5, <1>6

\* A commit starts a frame only if no acknowledgement is awaited; when it
\* ends a wait without tearing, the clock waits for nothing any more.
LEMMA RoleCommitSound ==
  ASSUME NEW x, Steady(x), NEW ch \in StepChoices, NEW y, y = RoleCommit(x, ch)
  PROVE  /\ Steady(y)
         /\ ~x.started /\ y.started => ~x.wait_ack
         /\ (x.started => x.key) => (y.started => y.key)
         /\ y.mapped => y.buffer
         /\ AckSound(x) => AckSound(y)
         /\ x.used = "clock" /\ ~x.async
              => /\ y.used = "clock" /\ ~y.async
                 /\ ~y.wait_commit => ~y.clock.need_configure
PROOF
<1> DEFINE t == ToplevelCommit(x, ch)
           c == IF t.wait_ack THEN t ELSE [t EXCEPT !.wait_commit = FALSE]
           z == SyncHelperUpdate(c, ch)
<1>1. /\ Steady(t)
      /\ t.started <=> x.started
      /\ t.key <=> x.key
      /\ t.used = x.used
      /\ t.async <=> x.async
      /\ x.wait_ack => t.wait_ack
      /\ t.mapped => t.buffer
      /\ AckSound(x) => AckSound(t)
  BY ToplevelCommitSound
<1>2. y = IF c.wait_commit THEN RunCallbacks(c) ELSE AfterCommit(z)
  BY DEF RoleCommit
<1> HIDE DEF t
<1>3. FramesSound(t) /\ t \in Window
  BY <1>1 DEF Steady, FramesSound
<1>4. /\ Steady(c)
      /\ c.started <=> t.started
      /\ c.key <=> t.key
      /\ c.used = t.used
      /\ c.async <=> t.async
      /\ c.wait_commit <=> t.wait_ack
      /\ c.mapped <=> t.mapped
      /\ c.buffer <=> t.buffer
      /\ AckSound(t) => AckSound(c)
  <2>1. CASE t.wait_ack
    <3>1. c = t /\ t.wait_commit
      BY <1>3, <2>1 DEF FramesSound
    <3>2. QED
      BY <1>1, <2>1, <3>1
  <2>2. CASE ~t.wait_ack
    <3> DEFINE e == [t EXCEPT !.wait_commit = FALSE]
    <3>1. c = e
      BY <2>2
    <3>2. e \in Window
      BY ZenonT(30), <1>3 DEF Window
    <3>3. /\ e.clock = t.clock /\ e.xevents = t.xevents /\ e.owed = t.owed
          /\ e.used = t.used
          /\ e.started <=> t.started
          /\ e.displaying <=> t.displaying
          /\ e.aborted <=> t.aborted
          /\ e.key <=> t.key
          /\ e.synchronized <=> t.synchronized
          /\ e.pending <=> t.pending
          /\ ~e.wait_commit
          /\ e.wait_ack <=> t.wait_ack
          /\ e.maybe_configure <=> t.maybe_configure
      BY <1>3 DEF Window
    <3>4. /\ e.mapped <=> t.mapped
          /\ e.buffer <=> t.buffer
          /\ e.wait_initial <=> t.wait_initial
          /\ e.conf_reply <=> t.conf_reply
          /\ e.config_timer <=> t.config_timer
          /\ e.async <=> t.async
      BY <1>3 DEF Window
    <3> HIDE DEF e, c
    <3>5. FramesSound(e)
      BY <1>3, <2>2, <3>2, <3>3 DEF FramesSound, Drawing
    <3>6. Steady(e)
      BY <1>1, <3>3, <3>5 DEF Steady
    <3>7. AckSound(t) => AckSound(e)
      <4>1. Queued(t) <=> Queued(e)
        BY <3>3 DEF Queued
      <4>2. QED
        BY <3>3, <3>4, <4>1 DEF AckSound, AckTold
    <3>8. QED
      BY <2>2, <3>1, <3>3, <3>4, <3>6, <3>7
  <2>3. QED
    BY <2>1, <2>2
<1> HIDE DEF c
<1>5. CASE c.wait_commit
  <2>1. y = RunCallbacks(c) /\ c \in Window
    BY <1>2, <1>4, <1>5 DEF Steady, FramesSound
  <2>2. y \in Window /\ SameFrame(c, y) /\ Drew(c, y) /\ Resized(c, y, FALSE)
    BY <2>1, RunCallbacksSame
  <2>3. y.key <=> c.key
    BY <2>2 DEF Resized
  <2>4. SoundStep(c, y)
    BY <1>4, <2>2, <2>3, SameSound
  <2>5. (y.started <=> c.started) /\ y.wait_commit
    BY <1>5, <2>2 DEF SameFrame
  <2>6. QED
    BY <1>1, <1>4, <2>4, <2>5 DEF SoundStep
<1>6. CASE ~c.wait_commit
  <2>1. /\ SoundStep(c, z)
        /\ c.used = "clock" /\ ~c.async => (z.clock.need_configure => z.wait_commit)
    BY <1>4, <1>6, SyncHelperUpdateSound
  <2>2. y = AfterCommit(z)
    BY <1>2, <1>6
  <2> HIDE DEF z
  <2>3. SoundStep(z, y) /\ y.clock = z.clock /\ (z.wait_commit => y.wait_commit)
    BY <2>1, <2>2, AfterCommitSound DEF SoundStep
  <2>4. ~x.wait_ack
    BY <1>1, <1>4, <1>6
  <2>5. QED
    BY <1>1, <1>4, <2>1, <2>3, <2>4 DEF SoundStep
<1>7. QED
  BY <1>5, <1>6

-----------------------------------------------------------------------------
(* The steps.  Every action but ClientCommit and Expose is a SoundStep. *)

LEMMA InitSound ==
  ASSUME Init
  PROVE  /\ Steady(w) /\ reported \in Nat
         /\ ~w.started /\ ~w.mapped
         /\ w.used = "clock" /\ ~w.async
         /\ AckSound(w)
PROOF
<1>1. PICK f \in FrameSync : w = InitWindow(f)
  BY DEF Init
<1>2. f \in BOOLEAN
  BY WindowAssumption
<1>3. InitClock(f) \in ClockType /\ Consistent(InitClock(f)) /\ InitClock(f).configured
      /\ ~InitClock(f).in_frame
  BY <1>2 DEF InitClock, ClockType, Consistent, FrameOpen
<1>4. w \in Window
  BY <1>1, <1>3 DEF InitWindow, Window
<1>5. /\ w.clock = InitClock(f) /\ w.xevents = <<>>
      /\ ~w.aborted /\ ~w.started /\ ~w.displaying /\ ~w.synchronized /\ ~w.pending
      /\ ~w.wait_ack /\ ~w.wait_commit /\ ~w.maybe_configure
      /\ w.used = "clock" /\ ~w.async /\ ~w.mapped
  BY <1>1 DEF InitWindow
<1>6. Steady(w)
  BY <1>3, <1>4, <1>5 DEF Steady, FramesSound, Drawing
<1>7. AckSound(w)
  BY <1>3, <1>5 DEF AckSound, AckTold
<1>8. QED
  BY <1>5, <1>6, <1>7 DEF Init

\* A commit of the client.
LEMMA ClientCommitSound ==
  ASSUME Steady(w), ClientCommit
  PROVE  /\ Steady(w')
         /\ ~w.started /\ w'.started => ~w.wait_ack
         /\ (w.started => w.key) => (w'.started => w'.key)
         /\ w'.mapped => w'.buffer
         /\ "null" \notin CommitKinds => (AckSound(w) => AckSound(w'))
         /\ TearingHints \subseteq {FALSE} /\ w.used = "clock"
              => /\ w'.used = "clock" /\ ~w'.async
                 /\ ~w'.wait_commit => ~w'.clock.need_configure
PROOF
<1>1. PICK kind \in IF w.mapped THEN CommitKinds ELSE Kinds, async \in TearingHints,
           busy \in BOOLEAN, ch \in StepChoices :
        w' = RoleCommit(Apply(w, kind, async, busy), ch)
  BY DEF ClientCommit
<1> DEFINE x == Apply(w, kind, async, busy)
<1>2. async \in BOOLEAN
  BY WindowAssumption
<1>3. /\ Steady(x) /\ Held(w, x)
      /\ x.async <=> async
      /\ AckSound(w) /\ (w.mapped => kind # "null") => AckSound(x)
  BY <1>2, ApplySound
<1>4. w' = RoleCommit(x, ch)
  BY <1>1
<1> HIDE DEF x
<1>5. /\ Steady(w')
      /\ ~x.started /\ w'.started => ~x.wait_ack
      /\ (x.started => x.key) => (w'.started => w'.key)
      /\ w'.mapped => w'.buffer
      /\ AckSound(x) => AckSound(w')
      /\ x.used = "clock" /\ ~x.async
           => /\ w'.used = "clock" /\ ~w'.async
              /\ ~w'.wait_commit => ~w'.clock.need_configure
  BY <1>3, <1>4, RoleCommitSound
<1>6. "null" \notin CommitKinds => (w.mapped => kind # "null")
  BY <1>1
<1>7. TearingHints \subseteq {FALSE} => ~async
  OBVIOUS
<1>8. QED
  BY <1>3, <1>5, <1>6, <1>7 DEF Held

LEMMA ClientAckSound ==
  ASSUME Steady(w), ClientAck
  PROVE  SoundStep(w, w')
PROOF
<1> DEFINE e == [w EXCEPT !.wait_ack = FALSE, !.conf_reply = FALSE, !.damage = TRUE]
<1>1. FramesSound(w) /\ w \in Window
  BY DEF Steady, FramesSound
<1>2. w' = e
  BY DEF ClientAck
<1>3. e \in Window
  BY ZenonT(30), <1>1 DEF Window
<1>4. /\ e.clock = w.clock /\ e.xevents = w.xevents /\ e.owed = w.owed
      /\ e.used = w.used
      /\ e.started <=> w.started
      /\ e.displaying <=> w.displaying
      /\ e.aborted <=> w.aborted
      /\ e.key <=> w.key
      /\ e.synchronized <=> w.synchronized
      /\ e.pending <=> w.pending
      /\ e.wait_commit <=> w.wait_commit
      /\ ~e.wait_ack
      /\ e.maybe_configure <=> w.maybe_configure
  BY <1>1 DEF Window
<1>5. /\ e.mapped <=> w.mapped
      /\ e.buffer <=> w.buffer
      /\ e.wait_initial <=> w.wait_initial
      /\ e.async <=> w.async
  BY <1>1 DEF Window
<1> HIDE DEF e
<1>6. FramesSound(e)
  BY <1>1, <1>3, <1>4 DEF FramesSound, Drawing
<1>7. AckSound(w) => AckSound(e)
  <2>1. Queued(w) <=> Queued(e)
    BY <1>4 DEF Queued
  <2>2. QED
    BY <1>4, <1>5, <2>1 DEF AckSound, AckTold
<1>8. SoundStep(w, e)
  BY <1>4, <1>5, <1>6, <1>7 DEF SoundStep, Steady
<1>9. QED
  BY <1>2, <1>8

\* A subsurface's update waits for the commit that its parent waits for.
LEMMA SubsurfaceUpdateSound ==
  ASSUME Steady(w), SubsurfaceUpdate
  PROVE  SoundStep(w, w')
PROOF
<1>1. PICK grows \in BOOLEAN, ch \in StepChoices :
        LET s == [w EXCEPT !.damage = TRUE, !.resized = w.resized \/ grows]
        IN  w' = IF s.wait_commit THEN RunCallbacks(s) ELSE SyncHelperUpdate(s, ch)
  BY ZenonT(30) DEF SubsurfaceUpdate
<1> DEFINE r == w.resized \/ grows
           s == [w EXCEPT !.damage = TRUE, !.resized = r]
<1>2. FramesSound(w) /\ w \in Window
  BY DEF Steady, FramesSound
<1>3. r \in BOOLEAN
  OBVIOUS
<1>4. w' = IF s.wait_commit THEN RunCallbacks(s) ELSE SyncHelperUpdate(s, ch)
  BY <1>1
<1> HIDE DEF r
<1>5. s \in Window
  BY ZenonT(30), <1>2, <1>3 DEF Window
<1>6. SameFrame(w, s) /\ Drew(w, s) /\ (s.key <=> w.key)
  BY <1>2 DEF Window, SameFrame, Drew
<1> HIDE DEF s
<1>7. SoundStep(w, s)
  BY <1>5, <1>6, SameSound
<1>8. SoundStep(s, w')
  <2>1. CASE s.wait_commit
    <3>1. w' \in Window /\ SameFrame(s, w') /\ Drew(s, w') /\ Resized(s, w', FALSE)
      BY <1>4, <1>5, <2>1, RunCallbacksSame
    <3>2. w'.key <=> s.key
      BY <3>1 DEF Resized
    <3>3. QED
      BY <1>7, <3>1, <3>2, SameSound DEF SoundStep
  <2>2. CASE ~s.wait_commit
    BY <1>4, <1>7, <2>2, SyncHelperUpdateSound DEF SoundStep
  <2>3. QED
    BY <2>1, <2>2
<1>9. QED
  BY <1>6, <1>7, <1>8, SoundAgain DEF SameFrame

LEMMA AllBuffersReleasedSound ==
  ASSUME Steady(w), AllBuffersReleased
  PROVE  SoundStep(w, w')
PROOF
<1> DEFINE b == w.callbacks /\ ~w.pending_callback
           e == [w EXCEPT !.pending_release = FALSE, !.pending_callback = FALSE,
                          !.callbacks = b]
<1>1. w \in Window
  BY DEF Steady, FramesSound
<1>2. w' = e
  BY <1>1 DEF AllBuffersReleased, Window
<1>3. b \in BOOLEAN
  OBVIOUS
<1> HIDE DEF b
<1>4. e \in Window
  BY ZenonT(30), <1>1, <1>3 DEF Window
<1>5. SameFrame(w, e) /\ Drew(w, e) /\ (e.key <=> w.key)
  BY <1>1 DEF Window, SameFrame, Drew
<1> HIDE DEF e
<1>6. QED
  BY <1>2, <1>4, <1>5, SameSound

LEMMA RenderCompletedSound ==
  ASSUME Steady(w), RenderCompleted
  PROVE  SoundStep(w, w')
PROOF
<1> DEFINE e == [w EXCEPT !.key = FALSE]
<1>1. w \in Window
  BY DEF Steady, FramesSound
<1>2. PICK ch \in StepChoices : w' = NoteFramePresented(e, ch)
  BY DEF RenderCompleted
<1>3. e \in Window
  BY ZenonT(30), <1>1 DEF Window
<1>4. SameFrame(w, e) /\ Drew(w, e)
  BY <1>1 DEF Window, SameFrame, Drew
<1> HIDE DEF e
<1>5. Steady(e)
  BY <1>3, <1>4, SameFrameSound DEF Steady, SameFrame
<1>6. SoundStep(e, w') /\ ~w'.started
  BY <1>2, <1>5, NoteFramePresentedSound
<1>7. AckSound(w) => AckSound(e)
  BY <1>4, DrewSound
<1>8. QED
  BY <1>4, <1>6, <1>7 DEF SoundStep, SameFrame, Drew

\* An Expose is a sound step but for the notification that it replaces.
LEMMA ExposeSound ==
  ASSUME Steady(w), Expose
  PROVE  /\ Steady(w')
         /\ ~(~w.started /\ w'.started)
         /\ Exposures \subseteq {"view"} /\ (w.mapped => w.buffer) => w'.key
         /\ (w.mapped => w.buffer) => (w'.mapped => w'.buffer)
         /\ AckSound(w) => AckSound(w')
         /\ w.used = "clock" /\ ~w.async => w'.used = "clock" /\ ~w'.async
PROOF
<1>1. PICK what \in Exposures : w' = [w EXCEPT !.damage = FALSE, !.key = w.buffer /\ what = "view"]
  BY ZenonT(30) DEF Expose
<1> DEFINE k == w.buffer /\ what = "view"
           e == [w EXCEPT !.damage = FALSE, !.key = k]
<1>2. w \in Window /\ w.mapped
  BY DEF Steady, FramesSound, Expose
<1>3. k \in BOOLEAN /\ w' = e
  BY <1>1, <1>2 DEF Window
<1>4. Exposures \subseteq {"view"} /\ (w.mapped => w.buffer) => k
  BY <1>2
<1> HIDE DEF k
<1>5. e \in Window
  BY ZenonT(30), <1>2, <1>3 DEF Window
<1>6. SameFrame(w, e) /\ Drew(w, e) /\ (e.key <=> k)
  BY <1>2, <1>3 DEF Window, SameFrame, Drew
<1> HIDE DEF e
<1>7. Steady(e)
  BY <1>5, <1>6, SameFrameSound DEF Steady, SameFrame
<1>8. AckSound(w) => AckSound(e)
  BY <1>6, DrewSound
<1>9. QED
  BY <1>3, <1>4, <1>6, <1>7, <1>8 DEF SameFrame, Drew

\* What keeping the outcome of a clock that stays as far in its frame does.
LEMMA ClockStepSound ==
  ASSUME NEW x, Steady(x), NEW o, Consistent(o.clock), o.freeze \in Freezes,
         o.clock.frame_sync_supported <=> x.clock.frame_sync_supported,
         o.clock.in_frame => x.clock.in_frame,
         (o.clock.in_frame /\ ~o.clock.end_frame_called)
           <=> (x.clock.in_frame /\ ~x.clock.end_frame_called),
         NEW y, y = ClockDid(x, o)
  PROVE  Steady(y) /\ y.clock = o.clock /\ Resized(x, y, o.freeze = "freeze")
PROOF
<1>1. FramesSound(x) /\ x \in Window /\ o.clock \in ClockType
  BY DEF Steady, FramesSound, Consistent
<1>2. y \in Window /\ y.clock = o.clock /\ Resized(x, y, o.freeze = "freeze")
  BY <1>1, ClockDidResized
<1>3. FramesSound(y)
  BY <1>1, <1>2 DEF FramesSound, Drawing, Resized
<1>4. QED
  BY <1>2, <1>3 DEF Steady, Resized

\* A sync request freezes a window only with its ConfigureNotify behind it.
LEMMA HandleSyncRequestSound ==
  ASSUME Steady(w), HandleSyncRequest
  PROVE  SoundStep(w, w')
PROOF
<1> DEFINE t == Tail(w.xevents)
           p == [w EXCEPT !.xevents = t]
           v == Head(w.xevents).value
           f == CheckFastForward(w)
           o == SyncRequest(w.clock, v, f)
<1>1. FramesSound(w) /\ w \in Window /\ Consistent(w.clock)
  BY DEF Steady, FramesSound
<1>2. w.xevents \in Seq(Event) /\ w.xevents # <<>> /\ Head(w.xevents).type = "sync"
  BY <1>1 DEF HandleSyncRequest, Window
<1>3. /\ t \in Seq(Event)
      /\ 1 \in DOMAIN w.xevents /\ Head(w.xevents) = w.xevents[1]
      /\ w.xevents[1] \in Event
      /\ \A i \in DOMAIN w.xevents : i = 1 \/ (i - 1 \in DOMAIN t /\ w.xevents[i] = t[i - 1])
  BY <1>2, TailEvents
<1>4. w' = ClockDid(p, o)
  BY <1>1 DEF HandleSyncRequest, Window
<1>5. w.clock.frame_sync_supported /\ v \in Nat \ {0} /\ f \in BOOLEAN
  <2>1. f \in BOOLEAN
    BY DEF CheckFastForward
  <2>2. w.clock.frame_sync_supported /\ w.xevents[1].value # 0
    BY <1>1, <1>2, <1>3 DEF FramesSound
  <2>3. w.xevents[1].value \in Nat
    BY <1>2, <1>3 DEF Event, Configure
  <2>4. QED
    BY <1>3, <2>1, <2>2, <2>3
<1>6. ~IsConfigure(Head(w.xevents))
  BY <1>2 DEF IsConfigure
<1>7. /\ p \in Window /\ Noted(w, p)
      /\ p.xevents = t /\ p.owed = w.owed /\ p.clock = w.clock
  <2>1. p \in Window
    BY <1>1, <1>3 DEF Window
  <2>2. Noted(w, p)
    BY <1>1 DEF Window, Noted
  <2>3. p.xevents = t /\ p.owed = w.owed /\ p.clock = w.clock
    BY <1>1 DEF Window
  <2>4. QED
    BY <2>1, <2>2, <2>3
<1> HIDE DEF p, f, v
<1>8. SameClock(w.clock, p.clock)
  BY <1>1, <1>7 DEF SameClock
<1>9. Steady(p) /\ (AckSound(w) => AckSound(p))
  BY <1>2, <1>6, <1>7, <1>8, PoppedSound
<1>10. /\ Consistent(o.clock)
       /\ o.clock.frame_sync_supported <=> w.clock.frame_sync_supported
  BY <1>1, <1>5, SyncRequestConsistent
<1>11. /\ o.freeze \in {"none", "freeze"}
       /\ ~o.clock.configured
       /\ w.clock.end_frame_called => o.clock.end_frame_called
       /\ o.clock.in_frame => w.clock.in_frame
       /\ w.clock.in_frame /\ ~w.clock.end_frame_called
            => o.clock.in_frame /\ ~o.clock.end_frame_called
  BY <1>1, <1>5, SyncRequestFields
<1> HIDE DEF o
<1>12. Steady(w') /\ w'.clock = o.clock /\ Resized(p, w', o.freeze = "freeze")
  BY <1>4, <1>7, <1>9, <1>10, <1>11, ClockStepSound DEF Freezes
<1>13. AckSound(w) => Queued(w') /\ w'.mapped
  <2> SUFFICES ASSUME AckSound(w)
               PROVE  Queued(w') /\ w'.mapped
    OBVIOUS
  <2>1. w.mapped
    BY <1>2, <1>3 DEF AckSound, AckTold
  <2>2. w.owed > 0 \/ \E j \in DOMAIN w.xevents : j > 1 /\ IsConfigure(w.xevents[j])
    BY <1>2, <1>3 DEF AckSound, AckTold
  <2>3. Queued(p)
    <3>1. CASE w.owed > 0
      BY <1>7, <3>1 DEF Queued
    <3>2. ASSUME NEW j \in DOMAIN w.xevents, j > 1, IsConfigure(w.xevents[j])
          PROVE  Queued(p)
      <4>1. j # 1
        BY <1>2, <3>2
      <4>2. j - 1 \in DOMAIN t /\ w.xevents[j] = t[j - 1]
        BY <1>3, <4>1
      <4> HIDE DEF t
      <4>3. QED
        BY <1>7, <3>2, <4>2 DEF Queued
    <3>3. QED
      BY <2>2, <3>1, <3>2
  <2>4. QED
    BY <1>7, <1>12, <2>1, <2>3 DEF Queued, Resized, Noted
<1>14. AckSound(w) => AckSound(w')
  BY <1>9, <1>11, <1>12, <1>13 DEF AckSound, AckTold, Resized
<1>15. QED
  BY <1>7, <1>12, <1>14 DEF SoundStep, Noted, Resized

LEMMA HandleConfigureNotifySound ==
  ASSUME Steady(w), HandleConfigureNotify
  PROVE  SoundStep(w, w')
PROOF
<1>1. PICK same \in BOOLEAN, delay \in BOOLEAN :
        w' = HandleConfigureEvent([w EXCEPT !.xevents = Tail(w.xevents)], same, delay)
  BY DEF HandleConfigureNotify
<1> DEFINE p == [w EXCEPT !.xevents = Tail(w.xevents)]
<1>2. w' = HandleConfigureEvent(p, same, delay) /\ w.xevents # <<>>
  BY <1>1 DEF HandleConfigureNotify
<1>3. p = [w EXCEPT !.xevents = Tail(w.xevents)]
  OBVIOUS
<1> HIDE DEF p
<1>4. QED
  BY <1>2, <1>3, HandleConfigureEventSound

\* The compositing manager's answer, or the timer that stands in for it.
LEMMA FrameDrawnSound ==
  ASSUME NEW x, Steady(x), IsFakeFrame(x.clock), NEW ch \in StepChoices,
         NEW y, y = AfterFrame([x EXCEPT !.clock = FrameDrawn(x.clock)], ch)
  PROVE  SoundStep(x, y)
PROOF
<1> DEFINE c == FrameDrawn(x.clock)
           e == [x EXCEPT !.clock = c]
<1>1. FramesSound(x) /\ x \in Window /\ Consistent(x.clock)
  BY DEF Steady, FramesSound
<1>2. /\ Consistent(c) /\ ~c.in_frame
      /\ x.clock.end_frame_called
      /\ c.configured <=> x.clock.configured
      /\ c.frame_sync_supported <=> x.clock.frame_sync_supported
  BY <1>1, FrameDrawnConsistent
<1>3. y = AfterFrame(e, ch)
  OBVIOUS
<1> HIDE DEF c
<1>4. e \in Window
  BY <1>1, <1>2 DEF Window, Consistent
<1>5. /\ e.clock = c /\ e.xevents = x.xevents /\ e.owed = x.owed
      /\ e.used = x.used
      /\ e.started <=> x.started
      /\ e.displaying <=> x.displaying
      /\ e.aborted <=> x.aborted
      /\ e.key <=> x.key
      /\ e.synchronized <=> x.synchronized
      /\ e.pending <=> x.pending
      /\ e.wait_commit <=> x.wait_commit
      /\ e.wait_ack <=> x.wait_ack
  BY <1>1 DEF Window
<1>6. Drew(x, e)
  BY <1>1, <1>2 DEF Window, Drew
<1> HIDE DEF e
<1>7. FramesSound(e)
  BY <1>1, <1>2, <1>4, <1>5 DEF FramesSound, Drawing
<1>8. AckSound(x) => AckSound(e)
  BY <1>6, DrewSound
<1>9. SoundStep(x, e)
  BY <1>5, <1>6, <1>7, <1>8 DEF SoundStep, Steady, Drew
<1>10. SoundStep(e, y)
  BY <1>2, <1>3, <1>5, <1>9, AfterFrameSound DEF SoundStep
<1>11. QED
  BY <1>5, <1>9, <1>10, SoundAgain

LEMMA HandleFrameDrawnSound ==
  ASSUME Steady(w), HandleFrameDrawn
  PROVE  SoundStep(w, w')
PROOF
<1> DEFINE t == Tail(w.xevents)
           p == [w EXCEPT !.xevents = t]
<1>1. FramesSound(w) /\ w \in Window /\ Consistent(w.clock)
  BY DEF Steady, FramesSound
<1>2. /\ w.xevents \in Seq(Event) /\ w.xevents # <<>> /\ ~IsConfigure(Head(w.xevents))
  BY <1>1 DEF HandleFrameDrawn, Window, IsConfigure
<1>3. t \in Seq(Event)
  BY <1>2, TailEvents
<1>4. \/ w' = p
      \/ /\ IsFakeFrame(w.clock)
         /\ \E ch \in StepChoices :
              w' = AfterFrame([p EXCEPT !.clock = FrameDrawn(p.clock)], ch)
  <2>1. CASE IsFrameDrawn(w.clock, Head(w.xevents).value)
    BY <2>1 DEF HandleFrameDrawn, IsFrameDrawn, IsFakeFrame
  <2>2. CASE ~IsFrameDrawn(w.clock, Head(w.xevents).value)
    BY <2>2 DEF HandleFrameDrawn
  <2>3. QED
    BY <2>1, <2>2
<1>5. /\ p \in Window /\ Noted(w, p)
      /\ p.xevents = t /\ p.owed = w.owed /\ p.clock = w.clock
  <2>1. p \in Window
    BY SMTT(30), <1>1, <1>3 DEF Window
  <2>2. Noted(w, p)
    BY <1>1 DEF Window, Noted
  <2>3. p.xevents = t /\ p.owed = w.owed /\ p.clock = w.clock
    BY <1>1 DEF Window
  <2>4. QED
    BY <2>1, <2>2, <2>3
<1> HIDE DEF p
<1>6. SameClock(w.clock, p.clock)
  BY <1>1, <1>5 DEF SameClock
<1>7. Steady(p) /\ (AckSound(w) => AckSound(p))
  BY <1>2, <1>5, <1>6, PoppedSound
<1>8. SoundStep(w, p)
  BY <1>5, <1>7 DEF SoundStep, Noted
<1>9. CASE w' = p
  BY <1>8, <1>9
<1>10. ASSUME IsFakeFrame(w.clock), NEW ch \in StepChoices,
              w' = AfterFrame([p EXCEPT !.clock = FrameDrawn(p.clock)], ch)
       PROVE  SoundStep(w, w')
  <2>1. SoundStep(p, w')
    BY <1>5, <1>7, <1>10, FrameDrawnSound
  <2>2. QED
    BY <1>5, <1>8, <2>1, SoundAgain DEF Noted
<1>11. QED
  BY <1>4, <1>9, <1>10

LEMMA NoteFakeFrameSound ==
  ASSUME Steady(w), NoteFakeFrame
  PROVE  SoundStep(w, w')
BY FrameDrawnSound DEF NoteFakeFrame

LEMMA HandleEndFrameSound ==
  ASSUME Steady(w), HandleEndFrame
  PROVE  SoundStep(w, w')
PROOF
<1> DEFINE f == CheckFastForward(w)
           o == StopTimer(w.clock, f)
<1>1. FramesSound(w) /\ w \in Window /\ Consistent(w.clock)
  BY DEF Steady, FramesSound
<1>2. f \in BOOLEAN
  BY DEF CheckFastForward
<1>3. w' = ClockDid(w, o)
  BY DEF HandleEndFrame
<1> HIDE DEF f
<1>4. /\ Consistent(o.clock)
      /\ o.clock.frame_sync_supported <=> w.clock.frame_sync_supported
  BY <1>1, <1>2, StopTimerConsistent
<1>5. /\ o.freeze \in Freezes
      /\ o.freeze = "freeze" => ~w.clock.configured
      /\ o.clock.configured <=> w.clock.configured
      /\ o.clock.end_frame_called <=> w.clock.end_frame_called
      /\ o.clock.in_frame => w.clock.in_frame
      /\ ~w.clock.end_frame_called => (o.clock.in_frame <=> w.clock.in_frame)
  BY <1>1, <1>2, StopTimerFields
<1> HIDE DEF o
<1>6. Steady(w') /\ w'.clock = o.clock /\ Resized(w, w', o.freeze = "freeze")
  BY <1>3, <1>4, <1>5, ClockStepSound
<1>7. Drew(w, w')
  BY <1>5, <1>6 DEF Resized, Drew
<1>8. AckSound(w) => AckSound(w')
  BY <1>7, DrewSound
<1>9. QED
  BY <1>6, <1>8 DEF SoundStep, Resized

LEMMA HandleWmStateChangeSound ==
  ASSUME Steady(w), HandleWmStateChange
  PROVE  SoundStep(w, w')
PROOF
<1>1. CASE \E delay \in BOOLEAN : w' = PostConfigure(w, delay)
  BY <1>1, PostConfigureSound
<1>2. CASE w' = SendConfigure(w)
  BY <1>2, SendConfigureSound, SentSound DEF Steady, FramesSound
<1>3. QED
  BY <1>1, <1>2 DEF HandleWmStateChange

LEMMA NoteConfigureTimeSound ==
  ASSUME Steady(w), NoteConfigureTime
  PROVE  SoundStep(w, w')
PROOF
<1>1. w \in Window /\ w' = [SendConfigure(w) EXCEPT !.config_timer = FALSE]
  BY DEF NoteConfigureTime, Steady, FramesSound
<1>2. w' \in Window /\ Sent(w, w')
  BY <1>1, TimerConfigureSound
<1>3. QED
  BY <1>2, SentSound

LEMMA InteractiveResizeMotionSound ==
  ASSUME Steady(w), InteractiveResizeMotion
  PROVE  SoundStep(w, w')
BY PostResizeSound DEF InteractiveResizeMotion

\* Events that arrive break no promise if a sync request among them has its
\* ConfigureNotify behind it, and nothing owed is forgotten.
LEMMA ArrivedSound ==
  ASSUME NEW x, Steady(x), NEW y \in Window, Noted(x, y), y.clock = x.clock,
         NEW new \in Seq(Event), y.xevents = x.xevents \o new,
         \A k \in DOMAIN new : new[k].type = "sync" =>
           /\ new[k].value # 0 /\ x.clock.frame_sync_supported /\ x.mapped
           /\ \E j \in DOMAIN new : j > k /\ IsConfigure(new[j]),
         y.owed = x.owed \/ \E j \in DOMAIN new : IsConfigure(new[j])
  PROVE  SoundStep(x, y)
PROOF
<1> DEFINE s == x.xevents
           t == y.xevents
           Behind(q, i) == \E j \in DOMAIN q : j > i /\ IsConfigure(q[j])
<1>1. FramesSound(x) /\ s \in Seq(Event) /\ t = s \o new
  BY DEF Steady, FramesSound, Window
<1> HIDE DEF s, t
<1>2. /\ Len(s) \in Nat /\ DOMAIN s = 1 .. Len(s)
      /\ \A i \in DOMAIN s : i \in DOMAIN t /\ t[i] = s[i]
      /\ \A k \in DOMAIN new : Len(s) + k \in DOMAIN t /\ t[Len(s) + k] = new[k] /\ k \in Nat
      /\ \A i \in DOMAIN t :
           \/ i \in DOMAIN s
           \/ i - Len(s) \in DOMAIN new /\ t[i] = new[i - Len(s)] /\ i \in Nat
  <2>1. /\ Len(s) \in Nat /\ DOMAIN s = 1 .. Len(s)
        /\ Len(new) \in Nat /\ DOMAIN new = 1 .. Len(new)
        /\ DOMAIN t = 1 .. Len(s) + Len(new)
    BY <1>1
  <2>2. \A i \in 1 .. Len(s) : t[i] = s[i]
    BY <1>1
  <2>3. \A i \in Len(s) + 1 .. Len(s) + Len(new) : t[i] = new[i - Len(s)]
    BY <1>1
  <2>4. ASSUME NEW k \in DOMAIN new
        PROVE  Len(s) + k \in DOMAIN t /\ t[Len(s) + k] = new[k] /\ k \in Nat
    <3>1. /\ k \in Nat /\ Len(s) + k \in Len(s) + 1 .. Len(s) + Len(new)
          /\ Len(s) + k - Len(s) = k
      BY <2>1
    <3>2. QED
      BY <2>1, <2>3, <3>1
  <2>5. ASSUME NEW i \in DOMAIN t
        PROVE  \/ i \in DOMAIN s
               \/ i - Len(s) \in DOMAIN new /\ t[i] = new[i - Len(s)] /\ i \in Nat
    <3>1. CASE i =< Len(s)
      BY <2>1, <3>1
    <3>2. CASE ~(i =< Len(s))
      <4>1. i \in Nat /\ i \in Len(s) + 1 .. Len(s) + Len(new) /\ i - Len(s) \in 1 .. Len(new)
        BY <2>1, <3>2
      <4>2. QED
        BY <2>1, <2>3, <4>1
    <3>3. QED
      BY <3>1, <3>2
  <2>6. \A i \in DOMAIN s : i \in DOMAIN t /\ t[i] = s[i]
    BY <2>1, <2>2
  <2>7. QED
    BY <2>1, <2>4, <2>5, <2>6
<1>3. ASSUME NEW i \in DOMAIN t, t[i].type = "sync", i \notin DOMAIN s
      PROVE  t[i].value # 0 /\ x.clock.frame_sync_supported /\ x.mapped /\ Behind(t, i)
  <2>1. i - Len(s) \in DOMAIN new /\ t[i] = new[i - Len(s)] /\ i \in Nat
    BY <1>2, <1>3
  <2>2. /\ t[i].value # 0 /\ x.clock.frame_sync_supported /\ x.mapped
        /\ \E j \in DOMAIN new : j > i - Len(s) /\ IsConfigure(new[j])
    BY <1>3, <2>1
  <2>3. PICK j \in DOMAIN new : j > i - Len(s) /\ IsConfigure(new[j])
    BY <2>2
  <2>4. Len(s) + j \in DOMAIN t /\ t[Len(s) + j] = new[j] /\ Len(s) + j > i
    BY <1>2, <2>1, <2>3
  <2>5. QED
    BY <2>2, <2>3, <2>4
<1>4. FramesSound(y)
  <2>1. \A i \in DOMAIN t :
          t[i].type = "sync" => t[i].value # 0 /\ y.clock.frame_sync_supported
    BY <1>1, <1>2, <1>3 DEF FramesSound, s
  <2>2. QED
    BY <1>1, <2>1 DEF FramesSound, Noted, Drawing, t
<1>5. ASSUME NEW i \in DOMAIN s, Behind(s, i)
      PROVE  Behind(t, i)
  BY <1>2, <1>5
<1>6. ASSUME NEW k \in DOMAIN new, IsConfigure(new[k])
      PROVE  Queued(y) /\ \A i \in DOMAIN s : Behind(t, i)
  <2>1. Len(s) + k \in DOMAIN t /\ IsConfigure(t[Len(s) + k])
    BY <1>2, <1>6
  <2>2. \A i \in DOMAIN s : Len(s) + k > i
    BY <1>2
  <2>3. QED
    BY <2>1, <2>2 DEF Queued, t
<1>7. Queued(x) => Queued(y)
  <2>1. CASE y.owed = x.owed
    BY <1>2, <2>1 DEF Queued, s, t
  <2>2. QED
    BY <1>6, <2>1
<1>8. AckSound(x) =>
        \A i \in DOMAIN t : t[i].type = "sync" => y.owed > 0 \/ Behind(t, i)
  <2> SUFFICES ASSUME AckSound(x), NEW i \in DOMAIN t, t[i].type = "sync"
               PROVE  y.owed > 0 \/ Behind(t, i)
    OBVIOUS
  <2>1. CASE i \notin DOMAIN s
    BY <1>3, <2>1
  <2>2. CASE i \in DOMAIN s
    <3>1. x.owed > 0 \/ Behind(s, i)
      BY <1>2, <2>2 DEF AckSound, AckTold, s
    <3>2. QED
      BY <1>5, <1>6, <2>2, <3>1
  <2>3. QED
    BY <2>1, <2>2
<1>9. AckSound(x) /\ ~x.mapped => \A i \in DOMAIN t : t[i].type # "sync"
  BY SMTT(30), <1>2, <1>3 DEF AckSound, AckTold, s
<1>10. AckSound(x) => AckSound(y)
  BY <1>7, <1>8, <1>9 DEF AckSound, AckTold, Noted, t
<1>11. QED
  BY <1>4, <1>10 DEF SoundStep, Steady, Noted

LEMMA WmResizeSound ==
  ASSUME Steady(w), WmResize
  PROVE  SoundStep(w, w')
PROOF
<1> DEFINE sync == [type |-> "sync", value |-> RequestedValue]
           new == IF w.clock.frame_sync_supported THEN << sync, Configure >> ELSE << Configure >>
<1>1. w \in Window /\ w.clock.secondary_counter \in Nat
      /\ w.xevents \in Seq(Event) /\ w.owed \in Nat /\ w.mapped
  BY DEF Steady, FramesSound, Window, ClockType, WmResize
<1>2. RequestedValue \in Nat /\ RequestedValue # 0
  BY SMTT(30), <1>1 DEF RequestedValue
<1>3. sync \in Event /\ sync.type = "sync" /\ sync.value # 0
  BY <1>2 DEF Event
<1>4. Configure \in Event /\ Configure.type # "sync" /\ IsConfigure(Configure)
  BY DEF Event, Configure, IsConfigure
<1>5. w' = [w EXCEPT !.xevents = w.xevents \o new, !.owed = w.owed]
  BY <1>1 DEF WmResize, Window
<1> HIDE DEF sync
<1>6. /\ new \in Seq(Event)
      /\ \A k \in DOMAIN new : new[k].type = "sync" =>
           /\ new[k].value # 0 /\ w.clock.frame_sync_supported /\ w.mapped
           /\ \E j \in DOMAIN new : j > k /\ IsConfigure(new[j])
  <2>1. CASE w.clock.frame_sync_supported
    <3>1. new = << sync, Configure >>
      BY <2>1
    <3>2. /\ new \in Seq(Event) /\ DOMAIN new = 1 .. 2
          /\ new[1] = sync /\ new[2] = Configure
      BY <1>3, <1>4, <3>1
    <3> HIDE DEF new
    <3>3. \A k \in DOMAIN new : new[k].type = "sync" => k = 1
      BY <1>4, <3>2
    <3>4. QED
      BY <1>1, <1>3, <1>4, <2>1, <3>2, <3>3
  <2>2. CASE ~w.clock.frame_sync_supported
    <3>1. new = << Configure >>
      BY <2>2
    <3>2. /\ new \in Seq(Event) /\ DOMAIN new = 1 .. 1
          /\ new[1] = Configure
      BY <1>4, <3>1
    <3> HIDE DEF new
    <3>3. QED
      BY <1>4, <3>2
  <2>3. QED
    BY <2>1, <2>2
<1> HIDE DEF new
<1> DEFINE q == w.xevents \o new
<1>7. q \in Seq(Event) /\ w' = [w EXCEPT !.xevents = q, !.owed = w.owed]
  BY <1>1, <1>5, <1>6
<1> DEFINE e == [w EXCEPT !.xevents = q, !.owed = w.owed]
<1> HIDE DEF q
<1>8. /\ e \in Window /\ Noted(w, e) /\ e.clock = w.clock
      /\ e.xevents = q /\ e.owed = w.owed
  <2>1. e \in Window
    BY ZenonT(30), <1>1, <1>7 DEF Window
  <2>2. Noted(w, e)
    BY <1>1 DEF Window, Noted
  <2>3. e.clock = w.clock /\ e.xevents = q /\ e.owed = w.owed
    BY <1>1 DEF Window
  <2> HIDE DEF e
  <2>4. QED
    BY <2>1, <2>2, <2>3
<1>9. w' = e
  BY <1>7
<1> HIDE DEF e
<1>10. SoundStep(w, e)
  BY <1>6, <1>8, ArrivedSound DEF q
<1>11. QED
  BY <1>9, <1>10

LEMMA WmAnswerSound ==
  ASSUME Steady(w), WmAnswer
  PROVE  SoundStep(w, w')
PROOF
<1> DEFINE new == << Configure >>
<1>1. w \in Window /\ w.xevents \in Seq(Event) /\ w.owed \in Nat /\ w.owed > 0
  BY DEF Steady, FramesSound, Window, WmAnswer
<1>2. Configure \in Event /\ Configure.type # "sync" /\ IsConfigure(Configure)
  BY DEF Event, Configure, IsConfigure
<1>3. new \in Seq(Event) /\ DOMAIN new = {1} /\ new[1] = Configure
  BY <1>2
<1>4. w.xevents \o new \in Seq(Event) /\ Append(w.xevents, Configure) = w.xevents \o new
  BY <1>1, <1>2
<1> HIDE DEF new
<1>5. w' = [w EXCEPT !.xevents = w.xevents \o new, !.owed = w.owed - 1]
  BY <1>1, <1>4 DEF WmAnswer, Window
<1> DEFINE q == w.xevents \o new
           n == w.owed - 1
<1>6. q \in Seq(Event) /\ n \in Nat /\ w' = [w EXCEPT !.xevents = q, !.owed = n]
  BY <1>1, <1>4, <1>5
<1> DEFINE e == [w EXCEPT !.xevents = q, !.owed = n]
<1> HIDE DEF q, n
<1>7. e \in Window /\ Noted(w, e) /\ e.clock = w.clock /\ e.xevents = q
  <2>1. e \in Window
    BY ZenonT(30), <1>1, <1>6 DEF Window
  <2>2. Noted(w, e)
    BY <1>1 DEF Window, Noted
  <2>3. e.clock = w.clock /\ e.xevents = q
    BY <1>1 DEF Window
  <2> HIDE DEF e
  <2>4. QED
    BY <2>1, <2>2, <2>3
<1>8. w' = e
  BY <1>6
<1> HIDE DEF e
<1>9. SoundStep(w, e)
  BY <1>2, <1>3, <1>7, ArrivedSound DEF q
<1>10. QED
  BY <1>8, <1>9

LEMMA WmFrameDrawnSound ==
  ASSUME Steady(w), WmFrameDrawn
  PROVE  SoundStep(w, w') /\ reported' \in Nat
PROOF
<1> DEFINE d == [type |-> "drawn", value |-> w.clock.secondary_counter]
           new == << d >>
<1>1. w \in Window /\ w.clock.secondary_counter \in Nat
      /\ w.xevents \in Seq(Event) /\ w.owed \in Nat
  BY DEF Steady, FramesSound, Window, ClockType
<1>2. d \in Event /\ d.type # "sync"
  BY <1>1 DEF Event
<1>3. w' = [w EXCEPT !.xevents = Append(w.xevents, d), !.owed = w.owed]
  BY <1>1 DEF WmFrameDrawn, Window
<1> HIDE DEF d
<1>4. new \in Seq(Event) /\ DOMAIN new = {1} /\ new[1] = d
  BY <1>2
<1>5. w.xevents \o new \in Seq(Event) /\ Append(w.xevents, d) = w.xevents \o new
  BY <1>1, <1>2
<1> HIDE DEF new
<1> DEFINE q == w.xevents \o new
<1>6. q \in Seq(Event) /\ w' = [w EXCEPT !.xevents = q, !.owed = w.owed]
  BY <1>3, <1>5
<1> DEFINE e == [w EXCEPT !.xevents = q, !.owed = w.owed]
<1> HIDE DEF q
<1>7. /\ e \in Window /\ Noted(w, e) /\ e.clock = w.clock
      /\ e.xevents = q /\ e.owed = w.owed
  <2>1. e \in Window
    BY <1>1, <1>6 DEF Window
  <2>2. Noted(w, e)
    BY <1>1 DEF Window, Noted
  <2>3. e.clock = w.clock /\ e.xevents = q /\ e.owed = w.owed
    BY <1>1 DEF Window
  <2> HIDE DEF e
  <2>4. QED
    BY <2>1, <2>2, <2>3
<1>8. w' = e
  BY <1>6
<1> HIDE DEF e
<1>9. SoundStep(w, e)
  BY <1>2, <1>4, <1>7, ArrivedSound DEF q
<1>10. reported' \in Nat
  BY <1>1 DEF WmFrameDrawn
<1>11. QED
  BY <1>8, <1>9, <1>10

\* Every other step.
LEMMA OtherSteps ==
  ASSUME Steady(w), Next
  PROVE  ClientCommit \/ Expose \/ SoundStep(w, w')
BY ClientAckSound, SubsurfaceUpdateSound, AllBuffersReleasedSound, RenderCompletedSound,
   HandleSyncRequestSound, HandleConfigureNotifySound, HandleFrameDrawnSound,
   NoteFakeFrameSound, HandleEndFrameSound, HandleWmStateChangeSound,
   NoteConfigureTimeSound, InteractiveResizeMotionSound, WmResizeSound, WmAnswerSound,
   WmFrameDrawnSound
   DEF Next

-----------------------------------------------------------------------------
(* The theorems. *)

LEMMA SteadyInvariant == Spec => [](Steady(w) /\ reported \in Nat)
PROOF
<1> DEFINE Inv == Steady(w) /\ reported \in Nat
<1>1. Init => Inv
  BY InitSound
<1>2. ASSUME Inv, [Next]_vars
      PROVE  Inv'
  <2>1. CASE ClientCommit
    BY <1>2, <2>1, ClientCommitSound DEF ClientCommit
  <2>2. CASE Expose
    BY ZenonT(30), <1>2, <2>2, ExposeSound DEF Expose
  <2>3. CASE WmFrameDrawn
    BY <1>2, <2>3, WmFrameDrawnSound DEF SoundStep
  <2>4. CASE SoundStep(w, w') /\ UNCHANGED reported
    BY <1>2, <2>4 DEF SoundStep
  <2>5. CASE UNCHANGED vars
    BY <1>2, <2>5 DEF vars
  <2>6. Next => \/ ClientCommit \/ Expose \/ WmFrameDrawn
                \/ SoundStep(w, w') /\ UNCHANGED reported
    <3> SUFFICES ASSUME Next, ~WmFrameDrawn
                 PROVE  UNCHANGED reported
      BY <1>2, OtherSteps
    <3>1. QED
      BY ZenonT(30) DEF Next, ClientCommit, ClientAck, SubsurfaceUpdate, AllBuffersReleased,
             RenderCompleted, Expose, HandleSyncRequest, HandleConfigureNotify,
             HandleFrameDrawn, NoteFakeFrame, HandleEndFrame, HandleWmStateChange,
             NoteConfigureTime, InteractiveResizeMotion, WmResize, WmAnswer
  <2>7. QED
    BY <1>2, <2>1, <2>2, <2>3, <2>4, <2>5, <2>6
<1> HIDE DEF Inv
<1>3. Spec => []Inv
  BY <1>1, <1>2, PTL DEF Spec
<1>4. QED
  BY <1>3 DEF Inv

\* The window of xdg_surface.c, xdg_toplevel.c, sync_source.c and
\* subcompositor.c keeps its types through every interleaving.
THEOREM TypeCorrect == Spec => []TypeOK
PROOF
<1>1. Steady(w) /\ reported \in Nat => TypeOK
  BY DEF Steady, FramesSound, TypeOK
<1>2. QED
  BY <1>1, SteadyInvariant, PTL

\* The assertion of NoteFrame never fails, and SubcompositorUpdate is never
\* reentered: no call begins a frame while the clock has one that is drawn.
THEOREM NeverAborts == Spec => []NoAbort
PROOF
<1>1. Steady(w) => NoAbort
  BY DEF Steady, FramesSound, NoAbort
<1>2. QED
  BY <1>1, SteadyInvariant, PTL

\* No frame of the counter is left open with nobody to end it.
THEOREM OpenFramesEnd == Spec => []OpenFrameWillEnd
PROOF
<1>1. Steady(w) => OpenFrameWillEnd
  BY DEF Steady, FramesSound, OpenFrameWillEnd, Drawing, Consistent, FrameOpen
<1>2. QED
  BY <1>1, SteadyInvariant, PTL

\* While only exposures of the view itself are drawn, a started frame has its
\* name and a notification to come.
THEOREM FramesNotified ==
  ASSUME Exposures \subseteq {"view"}
  PROVE  Spec => []FrameNotified
PROOF
<1> DEFINE Notified == (w.started => w.key) /\ (w.mapped => w.buffer)
<1>1. Init => Notified
  BY InitSound
<1>2. ASSUME Steady(w), Notified, [Next]_vars
      PROVE  Notified'
  <2>1. CASE ClientCommit
    BY <1>2, <2>1, ClientCommitSound
  <2>2. CASE Expose
    BY <1>2, <2>2, ExposeSound
  <2>3. CASE SoundStep(w, w')
    BY <1>2, <2>3 DEF SoundStep
  <2>4. CASE UNCHANGED vars
    BY <1>2, <2>4 DEF vars
  <2>5. QED
    BY <1>2, <2>1, <2>2, <2>3, <2>4, OtherSteps
<1>3. Steady(w) /\ Notified => FrameNotified
  BY DEF Steady, FrameNotified, StartedDisplayed, FrameHasNotification
<1> HIDE DEF Notified
<1>4. QED
  BY <1>1, <1>2, <1>3, SteadyInvariant, PTL DEF Spec

\* While no client unmaps its window, whatever the window manager and the user
\* do, who waits for an acknowledgement has sent, or will send, the configure
\* event that it acknowledges.
THEOREM Acknowledgeable ==
  ASSUME "null" \notin CommitKinds
  PROVE  Spec => []AckPossible
PROOF
<1>1. Init => AckSound(w)
  BY InitSound
<1>2. ASSUME Steady(w), AckSound(w), [Next]_vars
      PROVE  AckSound(w)'
  <2>1. CASE ClientCommit
    BY <1>2, <2>1, ClientCommitSound
  <2>2. CASE Expose
    BY <1>2, <2>2, ExposeSound
  <2>3. CASE SoundStep(w, w')
    BY <1>2, <2>3 DEF SoundStep
  <2>4. CASE UNCHANGED vars
    BY <1>2, <2>4 DEF vars
  <2>5. QED
    BY <1>2, <2>1, <2>2, <2>3, <2>4, OtherSteps
<1>3. AckSound(w) => AckPossible
  BY DEF AckSound, Queued, AckPossible, ConfigureQueued
<1>4. QED
  BY <1>1, <1>2, <1>3, SteadyInvariant, PTL DEF Spec

\* Nothing begins to be displayed while the client owes an acknowledgement.
THEOREM Unacknowledged == Spec => NoFrameWhileUnacked
PROOF
<1> DEFINE A == ~w.started /\ w'.started => ~w.wait_ack /\ (w.wait_commit => ClientCommit)
<1>1. ASSUME Steady(w), [Next]_vars
      PROVE  [A]_vars
  <2>1. CASE ClientCommit
    BY <1>1, <2>1, ClientCommitSound
  <2>2. CASE Expose
    BY <1>1, <2>2, ExposeSound
  <2>3. CASE SoundStep(w, w')
    BY <1>1, <2>3 DEF SoundStep, Steady, FramesSound
  <2>4. CASE UNCHANGED vars
    BY <2>4
  <2>5. QED
    BY <1>1, <2>1, <2>2, <2>3, <2>4, OtherSteps
<1>2. QED
  BY <1>1, SteadyInvariant, PTL DEF Spec, NoFrameWhileUnacked

\* Without asynchronous presentation, the commit that the window manager's
\* resize waits for starts a frame at the value that it asked for.
THEOREM CommitsUnfreeze ==
  ASSUME TearingHints \subseteq {FALSE}
  PROVE  Spec => CommitUnfreezes
PROOF
<1> DEFINE Tearless == w.used = "clock" /\ ~w.async
           A == ClientCommit /\ w.wait_commit /\ ~w'.wait_commit => ~w'.clock.need_configure
<1>1. Init => Tearless
  BY InitSound
<1>2. ASSUME Steady(w), Tearless, [Next]_vars
      PROVE  Tearless'
  <2>1. CASE ClientCommit
    BY <1>2, <2>1, ClientCommitSound
  <2>2. CASE Expose
    BY <1>2, <2>2, ExposeSound
  <2>3. CASE SoundStep(w, w')
    BY <1>2, <2>3 DEF SoundStep
  <2>4. CASE UNCHANGED vars
    BY <1>2, <2>4 DEF vars
  <2>5. QED
    BY <1>2, <2>1, <2>2, <2>3, <2>4, OtherSteps
<1>3. Steady(w) /\ Tearless => A
  BY ClientCommitSound
<1> HIDE DEF Tearless
<1>4. QED
  BY <1>1, <1>2, <1>3, SteadyInvariant, PTL DEF Spec, CommitUnfreezes

=============================================================================
