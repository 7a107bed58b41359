-------------------------------- MODULE Popup --------------------------------
(***************************************************************************)
(* The xdg_popup role (xdg_popup.c): popups on popups, their configure     *)
(* events and positions, and the grab a seat passes along the chain of     *)
(* them, with the part of the seat (seat.c) that holds the grab.           *)
(*                                                                         *)
(* All popups belong to one client, which keeps to the protocol: it        *)
(* destroys only popups that may be destroyed, and no surface before what  *)
(* is made of it.  Popups stand on one toplevel, Top.  The X server grants *)
(* grabs on mapped windows, or another client has the pointer.             *)
(***************************************************************************)
EXTENDS Integers, FiniteSets

CONSTANTS
  Popups,
  Parent(_),          \* popup, or Top
  Top,
  SeatGoes,           \* the seat may go whatever it holds
  MaxPresses, MaxMoves  \* bounds on button presses and on repositions

VARIABLES
  popups,     \* the XdgPopups
  popupSeat,  \* grab_surface and serials of the Seat
  configures, \* configure events the client did not answer, with their positions
  agreed,     \* position the client agreed to last
  popupCount, \* presses and repositions so far
  popupCrash  \* a NULL seat is used

popupVars == <<popups, popupSeat, configures, agreed, popupCount, popupCrash>>

None == "none"

NoPopup ==
  [resource |-> FALSE, role |-> FALSE, born |-> FALSE, state |-> {}, waits |-> FALSE, serial |-> 0, positionSerial |-> 0,
   holder |-> FALSE, grabSerial |-> 0, pendingSeat |-> FALSE, pendingSerial |-> 0,
   at |-> 0, pendingAt |-> 0, window |-> 0, done |-> FALSE]

Has(p, flag) == flag \in popups[p].state

\* Children stand on their parents.
RECURSIVE Above(_, _)
Above(p, q) == Parent(p) = q \/ (Parent(p) # Top /\ Above(Parent(p), q))

Descendants(p) == {q \in Popups : popups[q].role /\ Above(q, p)}

-----------------------------------------------------------------------------
(* The grab.  A state g is the popups, the seat, and whether NULL is used. *)

State == [popups |-> popups, seat |-> popupSeat, crash |-> popupCrash]

WrongCheckCanGrab(g, parent, holder) == parent = Top \/ g.popups[parent].role

\* holder: whether the popup that is below or to be grabbed has the seat at all.
CheckCanGrab(g, parent, holder) ==
  \/ parent = Top
  \/ parent # Top /\ g.popups[parent].role /\ "grabbed" \in g.popups[parent].state /\ g.popups[parent].holder = holder

\* XLSeatExplicitlyGrabSurface; granted: windows the X server lets be grabbed.
\* The serial is recorded even where the X server refuses.
CanIdentify(seat, serial) == seat.live /\ serial \in {seat.lastGrab, seat.press} \ {0}

Explicit(g, p, serial, granted) ==
  [g EXCEPT !.seat.lastGrab = serial, !.seat.grab = IF p \in granted THEN p ELSE @]

RECURSIVE DoGrab(_, _, _, _, _), Dismiss(_, _, _)

DoGrab(g, p, holder, serial, granted) ==
  LET popup == g.popups[p]
      allowed == popup.resource /\ popup.role /\ CheckCanGrab(g, Parent(p), holder)
      tried == IF CanIdentify(g.seat, serial) THEN Explicit(g, p, serial, granted) ELSE g
      viewable == {q \in granted : "mapped" \in g.popups[q].state}
  IN IF allowed /\ ~holder THEN [g EXCEPT !.crash = TRUE]
     ELSE IF allowed /\ CanIdentify(g.seat, serial) /\ p \in viewable
          THEN [tried EXCEPT !.popups[p] = [@ EXCEPT !.state = @ \cup {"grabbed"}, !.holder = TRUE, !.grabSerial = serial]]
     ELSE Dismiss(IF allowed THEN [tried EXCEPT !.seat.grab = g.seat.grab] ELSE g, p, granted)

RevertGrabTo(g, p, granted) ==
  IF Parent(p) = Top \/ (Parent(p) # Top /\ ~g.popups[Parent(p)].role) THEN g
  ELSE DoGrab(g, Parent(p), g.popups[p].holder, g.popups[p].grabSerial, granted)

Dismiss(g, p, granted) ==
  LET reverted == IF "grabbed" \in g.popups[p].state THEN RevertGrabTo(g, p, granted) ELSE g
  IN [reverted EXCEPT !.popups[p].state = @ \ {"mapped", "grabbed"},
                      !.popups[p].done = @ \/ g.popups[p].resource]

Becomes(g) == popups' = g.popups /\ popupSeat' = g.seat /\ popupCrash' = g.crash

-----------------------------------------------------------------------------
(* Requests. *)

\* InternalReposition of p for the position at; every configure event has it.
SendConfigure(p, popup, at, serial) ==
  /\ popups' = [popups EXCEPT ![p] = [popup EXCEPT !.pendingAt = at, !.state = @ \cup {"ackPosition"}, !.waits = TRUE,
                                                   !.serial = serial, !.positionSerial = serial]]
  /\ configures' = [configures EXCEPT ![p] = @ \cup {[serial |-> serial, at |-> at]}]

NextSerial == popupCount.moves + 1
Counted(kind) == popupCount' = [popupCount EXCEPT ![kind] = @ + 1]

GetXdgPopup(p) ==
  /\ ~popups[p].born /\ (Parent(p) # Top => popups[Parent(p)].role)
  /\ popupCount.moves < MaxMoves /\ Counted("moves")
  /\ SendConfigure(p, [NoPopup EXCEPT !.resource = TRUE, !.role = TRUE, !.born = TRUE], NextSerial, NextSerial)
  /\ UNCHANGED <<popupSeat, agreed, popupCrash>>

\* Reposition, and HandleParentConfigure and HandleParentResize of a reactive one.
InternalReposition(p) ==
  /\ popups[p].role
  /\ popupCount.moves < MaxMoves /\ Counted("moves")
  /\ SendConfigure(p, popups[p], NextSerial, NextSerial)
  /\ UNCHANGED <<popupSeat, agreed, popupCrash>>

\* The position of the latest configure event, once that is answered.
Acked(popup, serial) ==
  IF serial = popup.positionSerial /\ "ackPosition" \in popup.state
  THEN [popup EXCEPT !.at = popup.pendingAt, !.positionSerial = 0,
                     !.state = (@ \ {"ackPosition"}) \cup {"pendingPosition"}]
  ELSE popup

\* The client answers events in their order, or the later ones alone.
AckConfigure(p) ==
  \E c \in configures[p] :
    LET popup == popups[p]
        replied == IF c.serial = popup.serial THEN [popup EXCEPT !.waits = FALSE, !.serial = 0] ELSE popup
    IN /\ popup.resource /\ popup.role
       /\ popups' = [popups EXCEPT ![p] = Acked(replied, c.serial)]
       /\ configures' = [configures EXCEPT ![p] = {d \in @ : d.serial > c.serial}]
       /\ agreed' = [agreed EXCEPT ![p] = c.at]
       /\ UNCHANGED <<popupSeat, popupCount, popupCrash>>

\* RecordGrabPending; nothing is recorded twice.
Grab(p, serial) ==
  LET popup == popups[p] IN
  /\ popup.resource /\ popup.role /\ "grabbed" \notin popup.state /\ "mapped" \notin popup.state
  /\ ~popup.holder /\ ~popup.pendingSeat
  /\ IF popupSeat.live
     THEN popups' = [q \in Popups |->
            IF q = p THEN [popup EXCEPT !.pendingSeat = TRUE, !.pendingSerial = serial,
                                        !.state = @ \cup {"topmost", "pendingGrab"}]
            ELSE IF q = Parent(p) THEN [popups[q] EXCEPT !.state = @ \ {"topmost"}] ELSE popups[q]]
     ELSE popups' = Dismiss(State, p, {}).popups
  /\ UNCHANGED <<popupSeat, configures, agreed, popupCount, popupCrash>>

\* Commit, and Map with the grab that waits for it.
CommitBuffer(p, granted) ==
  LET popup == popups[p]
      moved == IF "pendingPosition" \in popup.state \/ (~popup.waits /\ "mapped" \notin popup.state)
               THEN [popup EXCEPT !.window = popup.at, !.state = @ \ {"pendingPosition"}] ELSE popup
      mapped == [moved EXCEPT !.state = @ \cup {"mapped"}]
      g == [State EXCEPT !.popups[p] = mapped]
      grabbed == IF "pendingGrab" \notin popup.state THEN g
                 ELSE IF popup.pendingSeat THEN DoGrab(g, p, TRUE, popup.pendingSerial, granted)
                 ELSE Dismiss(g, p, granted)
  IN /\ popup.resource /\ popup.role
     /\ IF popup.waits \/ "mapped" \in popup.state THEN Becomes([State EXCEPT !.popups[p] = moved])
        ELSE Becomes([grabbed EXCEPT !.popups[p].state = @ \ {"pendingGrab"}, !.popups[p].pendingSeat = FALSE])
     /\ UNCHANGED <<configures, agreed, popupCount>>

\* Without a buffer the window is unmapped; the grab flag stays.
CommitNothing(p) ==
  LET popup == popups[p] IN
  /\ popup.resource /\ popup.role
  /\ popups' = [popups EXCEPT ![p].state = @ \ {"mapped", "pendingPosition"},
                              ![p].window = IF "pendingPosition" \in popup.state THEN popup.at ELSE @]
  /\ UNCHANGED <<popupSeat, configures, agreed, popupCount, popupCrash>>

CanDestroyPopup(p) ==
  Has(p, "topmost") \/ (~Has(p, "grabbed") /\ ~Has(p, "pendingGrab"))

\* RevertTopmostTo the parent of a popup that has a grab, or waits for one.
Restored(g, p) ==
  LET q == Parent(p) IN
  IF q # Top /\ g.popups[p].state \cap {"grabbed", "pendingGrab"} # {}
  THEN IF g.popups[q].role THEN [g EXCEPT !.popups[q].state = @ \cup {"topmost"}] ELSE g
  ELSE g

\* Destroy, Detach and HandleResourceDestroy; later the surface goes with the
\* grab on it (ClearGrabSurface).
Destroy(p, granted) ==
  LET g == Restored(State, p)
      reverted == IF Has(p, "grabbed") THEN RevertGrabTo(g, p, granted) ELSE g
  IN /\ popups[p].resource /\ popups[p].role
     /\ Descendants(p) = {}
     /\ CanDestroyPopup(p)
     /\ Becomes([reverted EXCEPT !.popups[p] = [NoPopup EXCEPT !.born = TRUE],
                                 !.seat.grab = IF @ = p THEN None ELSE @])
     /\ configures' = [configures EXCEPT ![p] = {}] /\ agreed' = [agreed EXCEPT ![p] = 0]
     /\ UNCHANGED popupCount

-----------------------------------------------------------------------------
(* The seat. *)

Press ==
  /\ popupSeat.live /\ popupCount.presses < MaxPresses /\ Counted("presses")
  /\ popupSeat' = [popupSeat EXCEPT !.press = popupCount.presses + 1]
  /\ UNCHANGED <<popups, configures, agreed, popupCrash>>

\* DispatchEntryExit for a grab that was released.
Ungrab ==
  /\ popupSeat.grab # None
  /\ popupSeat' = [popupSeat EXCEPT !.grab = None]
  /\ UNCHANGED <<popups, configures, agreed, popupCount, popupCrash>>

\* RunDestroyListeners for popups: HandleSeatDestroy and HandleGrabHolderDestroy,
\* the one that was added last first; here, the one that is above.
Held == {p \in Popups : popups[p].holder}

RECURSIVE Released(_, _)
Released(g, left) ==
  IF left = {} THEN g
  ELSE LET p == CHOOSE q \in left : \A r \in left : ~Above(r, q)
       IN Released(Dismiss([g EXCEPT !.popups[p].holder = FALSE], p, {}), left \ {p})

DestroySeat ==
  LET g == [State EXCEPT !.seat = [@ EXCEPT !.live = FALSE, !.grab = None]]
      unpended == [g EXCEPT !.popups = [p \in Popups |-> [@[p] EXCEPT !.pendingSeat = FALSE]]]
  IN /\ popupSeat.live
     /\ ~SeatGoes => \A p \in Held : ~\E q \in Held : Above(p, q)
     /\ Becomes(Released(unpended, Held))
     /\ UNCHANGED <<configures, agreed, popupCount>>

-----------------------------------------------------------------------------
PopupInit ==
  /\ popups = [p \in Popups |-> NoPopup]
  /\ popupSeat = [live |-> TRUE, grab |-> None, press |-> 0, lastGrab |-> 0]
  /\ configures = [p \in Popups |-> {}]
  /\ agreed = [p \in Popups |-> 0]
  /\ popupCount = [presses |-> 0, moves |-> 0]
  /\ popupCrash = FALSE

PopupNext ==
  \/ Press \/ Ungrab \/ DestroySeat
  \/ \E p \in Popups :
       \/ GetXdgPopup(p) \/ InternalReposition(p) \/ AckConfigure(p) \/ CommitNothing(p)
       \/ \E s \in 1 .. popupCount.presses : Grab(p, s)
       \/ \E granted \in SUBSET Popups : CommitBuffer(p, granted) \/ Destroy(p, granted)

PopupSpec == PopupInit /\ [][PopupNext]_popupVars

-----------------------------------------------------------------------------
(* Properties. *)

PopupTypeOK ==
  /\ \A p \in Popups :
       popups[p].state \subseteq {"mapped", "grabbed", "pendingGrab", "topmost", "ackPosition", "pendingPosition"}
  /\ popupSeat.grab \in Popups \cup {None}
  /\ popupSeat.press \in 0 .. MaxPresses

\* The grab is passed along a chain: what a grabbed popup stands on is grabbed.
GrabsNested ==
  \A p \in Popups : Has(p, "grabbed") /\ Parent(p) # Top => Has(Parent(p), "grabbed")

\* A popup that has a grab has it from a seat that is there, and one without
\* has none of the seat.
HolderLives ==
  \A p \in Popups : /\ popups[p].holder \/ popups[p].pendingSeat => popupSeat.live
                    /\ Has(p, "grabbed") => popups[p].holder

\* The pointer is grabbed for the popup that was granted the grab last.
GrabOnPopup == popupSeat.grab # None => Has(popupSeat.grab, "grabbed") \/ popups[popupSeat.grab].done

\* A window is where the client agreed to, or was before it agreed.
PositionsAgreed ==
  \A p \in Popups : popups[p].role /\ popups[p].positionSerial = 0 => popups[p].at = agreed[p]

PopupsSound == GrabsNested /\ HolderLives /\ GrabOnPopup /\ PositionsAgreed /\ ~popupCrash

\* "Otherwise, this popup cannot be destroyed; it is grabbed, but not the
\* topmost popup."
RefusedForOneAbove ==
  \A p \in Popups : popups[p].role /\ ~CanDestroyPopup(p) => Descendants(p) # {}

=============================================================================
