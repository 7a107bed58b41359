-------------------------------- MODULE Pointer --------------------------------
(***************************************************************************)
(* The pointer of a seat (seat.c): the surface it is in, the focus that a  *)
(* pressed button locks, the grab of a popup, interactive moves, gestures, *)
(* scrolling and the cursor; with what the clients are told of all that.   *)
(*                                                                         *)
(* Around the seat, the X server: the pointer, its grabs, and the events,  *)
(* which come in their order.  Every surface has a window of its own.  A   *)
(* place is a surface, or Nowhere: a window of another program.  Drags are *)
(* in Drag, constraints in PointerConstraints, positions are left out.     *)
(***************************************************************************)
EXTENDS Naturals, Sequences, FiniteSets, SequencesExt

CONSTANTS
  Surfaces,
  ClientOf(_),
  Buttons,
  Gestures,       \* subset of {"pinch", "swipe"}
  SurfacesVanish, \* a surface may be destroyed in the middle of a gesture, or
                  \* while a button event is on its way to its window
  UnmapsHeld,     \* a client may unmap a surface that a button is held in
  SlowManager,    \* the window manager may grab after the button is released
  LateRequests,   \* a client may ask for a move after the button it names is released,
                  \* or while another is pressed
  SerialsAdvance, \* the serial of each X event is larger than of the one before
  MaxInputs       \* bound: what the user does

VARIABLES
  pointer,   \* the pointer of the X server, and its grab
  xevents,   \* X events on their way
  focusSeat, \* the Seat
  windows,   \* the surfaces
  told,      \* what the clients were told
  misused,   \* what should not have been
  inputs

pointerVars == <<pointer, xevents, focusSeat, windows, told, misused, inputs>>

Nowhere == "nowhere"
Root == "root"   \* the window that raw events are sent to
Clients == {ClientOf(s) : s \in Surfaces}

NoGrab == [window |-> Nowhere, kind |-> "none"]

View == [seat |-> focusSeat, told |-> told, misused |-> misused]
Shows(x) == focusSeat' = x.seat /\ told' = x.told /\ misused' = x.misused

Misuse(x, what, when) == IF when THEN [x EXCEPT !.misused = @ \cup {what}] ELSE x

-----------------------------------------------------------------------------
(* Events to the client of a surface; it has no wl_pointer, a raw one that *)
(* was never sent an event, or one that was.                               *)

Listens(x, s) == x.told.pointers[ClientOf(s)] # "none"
Entered(x, s) == s \in x.told.entered

\* Buttons are reset on entry.
Enters(x, s) ==
  [x EXCEPT !.told.pointers[ClientOf(s)] = "used", !.told.entered = @ \cup {s},
            !.told.down[s] = {}, !.told.up[s] = {}]

\* A raw pointer is sent an enter event first.
EntersRaw(x, s) == IF x.told.pointers[ClientOf(s)] = "raw" THEN Enters(x, s) ELSE x

SendEnter(x, s) ==
  IF Listens(x, s) THEN Enters(Misuse(x, "entered twice", Entered(x, s)), s) ELSE x

\* A raw pointer is sent the leave event too.
SendLeave(x, s) ==
  LET raw == x.told.pointers[ClientOf(s)] = "raw"
      y == Misuse(Misuse(x, "left, raw", raw), "left, not entered", ~raw /\ ~Entered(x, s))
  IN IF Listens(x, s)
     THEN [y EXCEPT !.told.entered = @ \ {s}, !.told.down[s] = {}, !.told.up[s] = {}]
     ELSE x

SendMotion(x, s) ==
  IF ~Listens(x, s) THEN x
  ELSE LET y == EntersRaw(x, s) IN Misuse(y, "moved, not entered", ~Entered(y, s))

\* The serial of a press may be used until the next press.
SendButton(x, s, button, pressed) ==
  LET y == EntersRaw(x, s)
      z == Misuse(Misuse(y, "button, not entered", ~Entered(y, s)),
                  "released twice", ~pressed /\ button \in y.told.up[s])
      sent == IF pressed THEN [z EXCEPT !.told.down[s] = @ \cup {button}, !.told.up[s] = @ \ {button}]
              ELSE [z EXCEPT !.told.down[s] = @ \ {button}, !.told.up[s] = @ \cup {button}]
  IN IF Listens(x, s) THEN sent ELSE x

\* begin, update and end of gesture k.
SendGesture(x, s, k, what) ==
  LET begun == k \in x.told.gestures[s] IN
  CASE what = "begin" -> [x EXCEPT !.told.gestures[s] = @ \cup {k}]
    [] what = "update" -> Misuse(x, "update, not begun", ~begun)
    [] OTHER -> [Misuse(x, "ended, not begun", ~begun) EXCEPT !.told.gestures[s] = @ \ {k}]

-----------------------------------------------------------------------------
(* The seat. *)

\* FreeCursor needs the window that the cursor is on.
FreeCursor(x) ==
  IF x.seat.cursor = Nowhere THEN x
  ELSE [Misuse(x, "cursor on no window", x.seat.seen = Nowhere) EXCEPT !.seat.cursor = Nowhere]

EndGesture(x, k) == [SendGesture(x, x.seat.seen, k, "end") EXCEPT !.seat.gestures = @ \ {k}]

RECURSIVE EndGestures(_)
EndGestures(x) ==
  IF x.seat.gestures = {} \/ x.seat.seen = Nowhere THEN x
  ELSE EndGestures(EndGesture(x, CHOOSE k \in x.seat.gestures : TRUE))

\* Nothing while the focus is locked.
EnteredSurface(x, s) ==
  LET ended == EndGestures(x)
      left == IF x.seat.seen = Nowhere THEN ended
              ELSE [FreeCursor(SendLeave(ended, x.seat.seen)) EXCEPT !.seat.seen = Nowhere]
  IN IF x.seat.seen = s \/ x.seat.held > 0 THEN x
     ELSE IF s = Nowhere THEN left
     ELSE SendEnter([left EXCEPT !.seat.seen = s], s)

\* The surface at a place, of those in the window of surface w.
FindSurfaceUnder(w, place) == IF w = place /\ w # Nowhere /\ windows[w].mapped THEN w ELSE Nowhere

CanDeliverEvents(x, s) == x.seat.grab = Nowhere \/ ClientOf(s) = ClientOf(x.seat.grab)

\* Where an event goes that is for window w.
Dispatched(x, w, place) ==
  LET found == IF x.seat.held > 0 THEN x.seat.seen ELSE FindSurfaceUnder(w, place) IN
  IF found = Nowhere \/ ~CanDeliverEvents(x, found) THEN x.seat.grab ELSE found

WrongCancelGrab(x, its) ==
  IF x.seat.held = 0 THEN x
  ELSE IF x.seat.held > 1 THEN [x EXCEPT !.seat.held = @ - 1]
  ELSE EnteredSurface([x EXCEPT !.seat.held = 0], FindSurfaceUnder(x.seat.sub, its))

\* The end of a lock, at place its.
CancelGrab(x, its) ==
  IF x.seat.held = 0 THEN x
  ELSE IF x.seat.held > 1 THEN [x EXCEPT !.seat.held = @ - 1]
  ELSE [EnteredSurface([x EXCEPT !.seat.held = 0], FindSurfaceUnder(x.seat.sub, its)) EXCEPT !.seat.heldOn = Nowhere]

CancelGrabEarly(x) == CancelGrab([x EXCEPT !.seat.held = 1], x.seat.its)

LockSurfaceFocus(x) ==
  IF x.seat.grab # Nowhere THEN x
  ELSE [x EXCEPT !.seat.held = @ + 1, !.seat.heldOn = IF x.seat.held = 0 THEN x.seat.seen ELSE @]

SwapGrabSurface(x, s) == [x EXCEPT !.seat.grab = s]

\* Enter and leave events; a grab or its end has them too.
DispatchEntryExit(x, e) ==
  LET sub == IF e.type = "leave" THEN Nowhere ELSE e.window
      y == [x EXCEPT !.seat.sub = sub, !.seat.grab = IF e.mode = "ungrab" THEN Nowhere ELSE @]
      ignored == (e.type = "leave" /\ e.mode # "normal") \/ (e.type = "enter" /\ e.mode = "grab")
      z == [y EXCEPT !.seat.menu = FALSE, !.seat.crossed = e.serial]
      found == IF e.type = "leave" THEN Nowhere ELSE FindSurfaceUnder(e.window, e.at)
      dispatch == IF z.seat.grab # Nowhere THEN z.seat.grab ELSE found
      there == EnteredSurface(z, dispatch)
  IN IF ignored THEN y
     ELSE IF dispatch # Nowhere /\ e.mode = "ungrab" THEN SendMotion(there, dispatch) ELSE there

\* The value of the axis is out of date if the pointer entered after the last event
\* that had it.
Stale(x) == x.seat.crossed > x.seat.axisSerial

\* A value the pointer scrolled past elsewhere is not for the surface it is in.
ProcessValuator(x, e) ==
  [Misuse(x, "scrolled elsewhere", ~Stale(x) /\ e.value - x.seat.axis > e.scrolled)
     EXCEPT !.seat.axis = e.value, !.seat.axisSerial = e.serial]

SendScrollAxis(x, s) ==
  LET y == EntersRaw(x, s) IN IF Listens(x, s) THEN Misuse(y, "scrolled, not entered", ~Entered(y, s)) ELSE x

\* A value that is out of date moves the pointer and no more.
HandleValuatorMotion(x, s, e) ==
  LET read == ProcessValuator(x, e) IN IF Stale(x) THEN SendMotion(read, s) ELSE SendScrollAxis(read, s)

\* A built-in move takes all motion and buttons.
CancelResizeOperation(x, e) ==
  LET y == [x EXCEPT !.seat.resize = Nowhere]
      found == FindSurfaceUnder(e.window, e.at)
  IN IF found = Nowhere THEN y ELSE EnteredSurface(y, found)

InterceptResizeEvent(x, e) ==
  CASE e.type = "release" /\ e.button = x.seat.resizeButton -> CancelResizeOperation(x, e)
    [] e.type = "scroll" -> ProcessValuator(x, e)
    [] OTHER -> x

\* Scrolling is a motion whose axes changed.
DispatchMotion(x, e) ==
  LET y == [x EXCEPT !.seat.its = e.at]
      s == Dispatched(y, e.window, e.at)
      there == EnteredSurface(y, s)
  IN IF x.seat.resize # Nowhere THEN InterceptResizeEvent(x, e)
     ELSE IF s = Nowhere THEN there
     ELSE IF e.type = "scroll" THEN HandleValuatorMotion(there, s, e) ELSE SendMotion(there, s)

DispatchButton(x, e) ==
  LET s == Dispatched(x, e.window, e.at)
      there == EnteredSurface(x, s)
      pressed == e.type = "press"
      sent == SendButton(there, s, e.button, pressed)
      noted == [sent EXCEPT !.seat.its = e.at, !.seat.button = e.button, !.seat.pressed = s]
  IN IF x.seat.resize # Nowhere THEN InterceptResizeEvent(x, e)
     ELSE IF s = Nowhere THEN there
     ELSE IF pressed THEN LockSurfaceFocus(noted) ELSE CancelGrab(sent, e.at)

\* The same for both kinds of gesture.  Its surface may be of another client
\* than the one that has the grab.  The flag stays when a gesture ends.
DispatchGesture(x, e) ==
  LET y == [x EXCEPT !.seat.its = e.at]
      under == IF x.seat.held > 0 THEN x.seat.seen ELSE FindSurfaceUnder(e.window, e.at)
      s == IF under = Nowhere THEN x.seat.grab ELSE under
      there == EnteredSurface(y, s)
  IN IF s = Nowhere THEN there
     ELSE IF e.what = "begin"
     THEN [SendGesture(SendMotion(there, s), s, e.gesture, "begin") EXCEPT !.seat.gestures = @ \cup {e.gesture}]
     ELSE IF e.gesture \in there.seat.gestures THEN SendGesture(there, s, e.gesture, e.what) ELSE there

DispatchGesturePinch(x, e) == DispatchGesture(x, e)
DispatchGestureSwipe(x, e) == DispatchGesture(x, e)

\* While the window manager moves a window or shows its menu, releases are sent
\* from the raw events; the last ends the move.
HandleRawButton(x, e) ==
  LET sent == IF x.seat.seen = Nowhere THEN x ELSE SendButton(x, x.seat.seen, e.button, FALSE)
      ends == x.seat.moving /\ e.button = x.seat.button
  IN IF ~x.seat.moving /\ ~x.seat.menu THEN x
     ELSE [sent EXCEPT !.seat.moving = ~ends /\ @]

Handled(x, e) ==
  CASE e.type \in {"enter", "leave"} -> DispatchEntryExit(x, e)
    [] e.type \in {"motion", "scroll"} -> DispatchMotion(x, e)
    [] e.type \in {"press", "release"} -> DispatchButton(x, e)
    [] e.type = "raw" -> HandleRawButton(x, e)
    [] OTHER -> IF e.gesture = "pinch" THEN DispatchGesturePinch(x, e) ELSE DispatchGestureSwipe(x, e)

-----------------------------------------------------------------------------
(* The X server and the user. *)

Shown(s) == s # Nowhere /\ windows[s].mapped

\* The window that gets what happens at the pointer, given its grab.
Target(p) == IF p.grab.kind = "none" \/ (p.grab.kind = "owner" /\ p.at # Nowhere) THEN p.at ELSE p.grab.window

Crossing(type, w, mode, at) == [type |-> type, window |-> w, mode |-> mode, at |-> at]

\* The windows of the compositor that events may reach.
Numbered(es) ==
  [i \in DOMAIN es |-> [serial |-> IF SerialsAdvance THEN inputs * 4 + i ELSE 0] @@ es[i]]

Sends(es) == xevents' = Numbered(SelectSeq(es, LAMBDA e : e.window = Root \/ Shown(e.window)))

\* From a to b when the grab is g.
Crosses(a, b, g) ==
  IF g.kind \in {"none", "owner"} THEN <<Crossing("leave", a, "normal", b), Crossing("enter", b, "normal", b)>>
  ELSE IF g.window = a THEN <<Crossing("leave", a, "normal", b)>>
  ELSE IF g.window = b THEN <<Crossing("enter", b, "normal", b)>> ELSE << >>

\* A grab of window w ends, or begins with mode "grab" the other way round.
Moves(w, b, mode) ==
  IF w = b THEN << >> ELSE <<Crossing("leave", w, mode, b), Crossing("enter", b, mode, b)>>

UserDoes ==
  /\ xevents = << >> /\ inputs < MaxInputs /\ inputs' = inputs + 1
  /\ ~SlowManager => (~focusSeat.moving \/ pointer.grab.kind = "manager")

Moved(b) ==
  /\ UserDoes
  /\ b # pointer.at /\ (b = Nowhere \/ Shown(b))
  /\ LET p == [pointer EXCEPT !.at = b, !.scrolled = 0]
     IN /\ pointer' = p
        /\ Sends(Append(Crosses(pointer.at, b, p.grab), [type |-> "motion", window |-> Target(p), at |-> b]))
  /\ UNCHANGED <<focusSeat, windows, told, misused>>

\* scrolled: since the pointer was moved to its place.
Scrolled ==
  /\ UserDoes
  /\ LET p == [pointer EXCEPT !.value = @ + 1, !.scrolled = @ + 1] IN
     /\ pointer' = p
     /\ Sends(<<[type |-> "scroll", window |-> Target(p), at |-> p.at, value |-> p.value, scrolled |-> p.scrolled]>>)
  /\ UNCHANGED <<focusSeat, windows, told, misused>>

Pressed(b) ==
  /\ UserDoes
  /\ b \notin pointer.buttons /\ pointer.gesture = "none" /\ Target(pointer) # Nowhere /\ Shown(Target(pointer))
  /\ LET p == [pointer EXCEPT !.buttons = @ \cup {b},
                              !.grab = IF @.kind = "none" THEN [window |-> pointer.at, kind |-> "button"] ELSE @]
     IN /\ pointer' = p
        /\ Sends(<<[type |-> "press", window |-> Target(pointer), at |-> pointer.at, button |-> b]>>)
  /\ UNCHANGED <<focusSeat, windows, told, misused>>

\* The window manager ends its grab with the last button.
Released(b) ==
  /\ UserDoes
  /\ b \in pointer.buttons
  /\ LET rest == pointer.buttons \ {b}
         ends == rest = {} /\ pointer.grab.kind \in {"button", "manager"}
         w == pointer.grab.window
         raw == [type |-> "raw", window |-> Root, button |-> b]
         release == [type |-> "release", window |-> Target(pointer), at |-> pointer.at, button |-> b]
     IN /\ pointer' = [pointer EXCEPT !.buttons = rest, !.grab = IF ends THEN NoGrab ELSE @]
        /\ Sends(<<raw, release>> \o IF ends THEN Moves(w, pointer.at, "ungrab") ELSE << >>)
  /\ UNCHANGED <<focusSeat, windows, told, misused>>

\* A gesture begins where the pointer is, which then rests; it may be ended by
\* motion in between.
Gestured(k, what) ==
  /\ UserDoes
  /\ IF what = "begin" THEN pointer.gesture = "none" /\ pointer.buttons = {} ELSE pointer.gesture = k
  /\ pointer' = [pointer EXCEPT !.gesture = IF what = "end" THEN "none" ELSE k]
  /\ Sends(<<[type |-> "gesture", gesture |-> k, what |-> what, window |-> Target(pointer), at |-> pointer.at]>>)
  /\ UNCHANGED <<focusSeat, windows, told, misused>>

Dispatch ==
  /\ xevents # << >>
  /\ Shows(Handled(View, Head(xevents)))
  /\ xevents' = Tail(xevents)
  \* A built-in move releases its grab of the pointer.
  /\ IF focusSeat.resize # Nowhere /\ focusSeat'.resize = Nowhere
     THEN pointer' = [pointer EXCEPT !.grab = NoGrab] ELSE UNCHANGED pointer
  /\ UNCHANGED <<windows, inputs>>

\* After _NET_WM_MOVERESIZE; the move ended if the button was released before.
ManagerGrabs ==
  /\ focusSeat.moving /\ pointer.grab.kind # "manager"
  /\ pointer' = [pointer EXCEPT !.grab = [window |-> Nowhere, kind |-> "manager"]]
  /\ xevents' = xevents \o Numbered(SelectSeq(<<Crossing("leave", pointer.at, "grab", pointer.at)>>, LAMBDA e : Shown(e.window)))
  /\ UNCHANGED <<focusSeat, windows, told, misused, inputs>>

-----------------------------------------------------------------------------
(* Clients. *)

GetPointer(c) ==
  /\ told.pointers[c] = "none"
  /\ told' = [told EXCEPT !.pointers[c] = "raw"]
  /\ UNCHANGED <<pointer, xevents, focusSeat, windows, misused, inputs>>

SetCursor(c) ==
  /\ told.pointers[c] # "none" /\ focusSeat.seen # Nowhere /\ ClientOf(focusSeat.seen) = c
  /\ focusSeat.cursor # c
  /\ Shows([FreeCursor(View) EXCEPT !.seat.cursor = c])
  /\ UNCHANGED <<pointer, xevents, windows, inputs>>

\* XLSeatExplicitlyGrabSurface, for a popup s whose client was sent the last press.
Grab(s) ==
  /\ Shown(s) /\ focusSeat.pressed # Nowhere /\ ClientOf(s) = ClientOf(focusSeat.pressed)
  /\ pointer.grab.kind \in {"none", "button", "owner"} /\ pointer.grab # [window |-> s, kind |-> "owner"]
  /\ LET x == IF focusSeat.held > 0 THEN CancelGrabEarly(View) ELSE View
     IN Shows(SwapGrabSurface(x, s))
  /\ pointer' = [pointer EXCEPT !.grab = [window |-> s, kind |-> "owner"]]
  /\ xevents' = xevents \o Numbered(SelectSeq(Moves(pointer.at, s, "grab"), LAMBDA e : Shown(e.window)))
  /\ UNCHANGED <<windows, inputs>>

\* The window manager is asked to move s, or the seat does it: HandlePointerEdge
\* looks each time whether _NET_WM_MOVERESIZE is supported.
ManagerMove(s) ==
  /\ Shown(s) /\ focusSeat.pressed = s /\ ~focusSeat.moving /\ focusSeat.resize = Nowhere
  /\ pointer.grab.kind \in {"none", "button"}
  /\ LET x == IF focusSeat.held > 0 THEN CancelGrabEarly(View) ELSE View
     IN Shows([x EXCEPT !.seat.moving = TRUE])
  /\ pointer' = [pointer EXCEPT !.grab = NoGrab]
  /\ UNCHANGED <<xevents, windows, inputs>>

FakePointerEdge(s) ==
  /\ Shown(s) /\ focusSeat.pressed = s /\ ~focusSeat.moving /\ focusSeat.resize = Nowhere
  /\ pointer.grab.kind \in {"none", "button"}
  /\ LET x == IF focusSeat.held > 0 THEN EnteredSurface(CancelGrabEarly(View), Nowhere) ELSE View
     IN Shows([x EXCEPT !.seat.resize = s, !.seat.resizeButton = focusSeat.button])
  /\ pointer' = [pointer EXCEPT !.grab = [window |-> s, kind |-> "seat"]]
  /\ UNCHANGED <<xevents, windows, inputs>>

\* With the serial of the last press.
StartResizeTracking(s) ==
  /\ ~LateRequests => pointer.buttons = {focusSeat.button} /\ (focusSeat.held > 0 \/ focusSeat.grab # Nowhere)
  /\ ~LateRequests => \A i \in DOMAIN xevents : xevents[i].type \notin {"press", "release"}
  /\ ManagerMove(s) \/ FakePointerEdge(s)

\* What the X server does about a window that goes; the events of a destroyed one
\* are not sent any more.
WindowGoes(s, leaves) ==
  LET ends == pointer.grab.window = s
      at == IF pointer.at = s THEN Nowhere ELSE pointer.at
      crossing == Crossing("enter", at, "ungrab", at)
      pending == SelectSeq(xevents, LAMBDA e : leaves \/ e.window # s)
      news == (IF leaves /\ pointer.at = s THEN <<Crossing("leave", s, "normal", Nowhere)>> ELSE << >>)
              \o (IF ends /\ at # Nowhere THEN <<crossing>> ELSE << >>)
  IN /\ pointer' = [pointer EXCEPT !.at = at, !.grab = IF ends THEN NoGrab ELSE @]
     /\ xevents' = pending \o Numbered(news)
     /\ windows' = [windows EXCEPT ![s].mapped = FALSE, ![s].alive = leaves /\ @]

\* A commit without a buffer: the role stays.  No unmap callback is run.
Unmap(s) ==
  /\ Shown(s)
  /\ ~UnmapsHeld => focusSeat.heldOn # s /\ focusSeat.grab # s /\ focusSeat.resize # s
  /\ WindowGoes(s, TRUE)
  /\ UNCHANGED <<focusSeat, told, misused, inputs>>

\* RunUnmapCallbacks of the surface, in the order the callbacks were added last
\* first: HandleGrabUnmapped, ClearGrabSurface, HandleResizeUnmapped.
UnmapCallbacks(x, s) ==
  LET ungrabbed == IF x.seat.grab = s THEN SwapGrabSurface(x, Nowhere) ELSE x
      unlocked == IF x.seat.heldOn = s THEN CancelGrabEarly(ungrabbed) ELSE ungrabbed
  IN IF x.seat.resize = s THEN [unlocked EXCEPT !.seat.resize = Nowhere] ELSE unlocked

\* The subcompositor goes first, then the role, then the surface.
Destroy(s) ==
  /\ windows[s].alive
  /\ ~SurfacesVanish => focusSeat.seen # s \/ focusSeat.gestures = {}
  /\ ~SurfacesVanish => \A i \in DOMAIN xevents : xevents[i].type \notin {"press", "release"} \/ xevents[i].window # s
  /\ LET x == [View EXCEPT !.seat.sub = IF @ = s THEN Nowhere ELSE @]
         y == UnmapCallbacks(x, s)
         seen == y.seat.seen = s
         z == IF seen THEN [FreeCursor(y) EXCEPT !.seat.seen = Nowhere] ELSE y
     IN Shows([z EXCEPT !.seat.pressed = IF @ = s THEN Nowhere ELSE @,
                        !.told.entered = @ \ {s}, !.told.gestures[s] = {},
                        !.told.down[s] = {}, !.told.up[s] = {}])
  /\ WindowGoes(s, FALSE)
  /\ UNCHANGED inputs

-----------------------------------------------------------------------------
\* A window was mapped under the pointer.
PointerInit ==
  /\ inputs = 0
  /\ windows = [s \in Surfaces |-> [mapped |-> TRUE, alive |-> TRUE]]
  /\ \E s \in Surfaces :
       /\ pointer = [at |-> s, buttons |-> {}, grab |-> NoGrab, gesture |-> "none", value |-> 0, scrolled |-> 0]
       /\ xevents = Numbered(<<Crossing("enter", s, "normal", s)>>)
  /\ focusSeat = [seen |-> Nowhere, held |-> 0, heldOn |-> Nowhere, grab |-> Nowhere, sub |-> Nowhere,
                  its |-> Nowhere, pressed |-> Nowhere, button |-> 0, gestures |-> {}, cursor |-> Nowhere,
                  resize |-> Nowhere, resizeButton |-> 0, moving |-> FALSE, menu |-> FALSE,
                  crossed |-> 0, axis |-> 0, axisSerial |-> 0]
  /\ told = [pointers |-> [c \in Clients |-> "none"], entered |-> {}, down |-> [s \in Surfaces |-> {}],
             up |-> [s \in Surfaces |-> {}], gestures |-> [s \in Surfaces |-> {}]]
  /\ misused = {}

PointerNext ==
  \/ Scrolled \/ Dispatch \/ ManagerGrabs
  \/ \E b \in Surfaces \cup {Nowhere} : Moved(b)
  \/ \E b \in Buttons : Pressed(b) \/ Released(b)
  \/ \E k \in Gestures, what \in {"begin", "update", "end"} : Gestured(k, what)
  \/ \E c \in Clients : GetPointer(c) \/ SetCursor(c)
  \/ \E s \in Surfaces : Grab(s) \/ StartResizeTracking(s) \/ Unmap(s) \/ Destroy(s)

PointerSpec == PointerInit /\ [][PointerNext]_pointerVars

-----------------------------------------------------------------------------
(* Properties. *)

PointerTypeOK ==
  /\ focusSeat.seen \in Surfaces \cup {Nowhere} /\ focusSeat.grab \in Surfaces \cup {Nowhere}
  /\ focusSeat.held \in 0 .. Cardinality(Buttons)
  /\ told.entered \subseteq Surfaces
  /\ pointer.buttons \subseteq Buttons

\* A client is in no surface but the one the seat is in.
InOneSurface == told.entered \subseteq {focusSeat.seen}

\* The focus is locked in the surface the pointer is in, never under a grab, and
\* the callback that unlocks it is on that surface.
LockWellFounded ==
  /\ (focusSeat.held > 0) <=> (focusSeat.heldOn # Nowhere)
  /\ focusSeat.held > 0 => focusSeat.heldOn = focusSeat.seen /\ focusSeat.grab = Nowhere
                           /\ windows[focusSeat.seen].alive

\* Once all events are in, buttons that a client takes for pressed are, and the
\* focus is unlocked when none is.
ButtonsKnown ==
  xevents = << >> =>
    /\ \A s \in Surfaces : told.down[s] \subseteq pointer.buttons
    /\ pointer.buttons = {} => focusSeat.held = 0

\* The cursor is of the client whose surface the pointer is in.
CursorOnSurface ==
  focusSeat.cursor # Nowhere => focusSeat.seen # Nowhere /\ ClientOf(focusSeat.seen) = focusSeat.cursor

\* All this, and no client is sent what has no place there: an enter, leave, motion,
\* button or scroll out of order, or a gesture that did not begin.  But a gesture
\* may end twice, and a pointer may leave that never entered.
PointerSound ==
  InOneSurface /\ LockWellFounded /\ ButtonsKnown /\ CursorOnSurface
  /\ misused \subseteq {"ended, not begun", "left, raw"}

\* "And clear the flag so further updates are not sent."  A gesture that ended is
\* ended again, cancelled, when the pointer leaves.
GesturesEndOnce == "ended, not begun" \notin misused

\* A wl_pointer that was made while the pointer was in the surface is not sent an
\* enter until the next event; if that is a leave, it was never in.
LeavesAfterEnter == "left, raw" \notin misused

\* "Also cancel the grab upon the surface being unmapped."
LockedWhereMapped == focusSeat.held > 0 => windows[focusSeat.heldOn].mapped

\* "Grab the pointer, and don't let go until the button is released."  A request
\* that comes after the release begins a move that the next click ends.
MoveEndsWithButton ==
  xevents = << >> /\ focusSeat.resize # Nowhere => focusSeat.resizeButton \in pointer.buttons

=============================================================================
