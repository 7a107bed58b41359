-------------------------------- MODULE Drag --------------------------------
(***************************************************************************)
(* Drags that a Wayland client starts: the seat (seat.c), the data source, *)
(* the data device and the offers made to other clients (data_device.c),   *)
(* and the source side of XDND for windows of other X clients (dnd.c).     *)
(* Around them the clients and the X targets, each with its messages.      *)
(*                                                                         *)
(* Abstracted: positions (a motion reaches a surface, a toplevel of        *)
(* another X client or nothing), MIME types, the icon, proxies, versions   *)
(* of wl_data_source below 3.  Every client has one data device.  There is *)
(* one seat: XDND allows only one to drag out.                             *)
(***************************************************************************)
EXTENDS Naturals, Sequences, FiniteSets

CONSTANTS
  Surfaces,      \* surfaces that a drag may enter, each of its own client
  Toplevels,     \* toplevels of other X clients
  XdndVersion,   \* the XdndAware of each of them, 0 if it has none
  SourceActions, \* actions of the data source
  Preferred,     \* what a client may prefer
  Overlap,       \* a drag may begin while the last waits for XdndFinished
  SourcesDie,    \* a source may be destroyed in the middle of its drag
  LateAnswers,   \* a target may answer a drop after the timer
  SelectionFails,\* XdndSelection cannot always be owned
  MaxDrags,      \* bound: drags, each of its own source
  MaxMoves       \* bound: motions and changes of modifiers

VARIABLES
  seat,      \* the Seat
  drag,      \* drag_state
  finish,    \* finish_source, finish_source_key, finish_timeout and the timers
  sources,   \* the data sources
  device,    \* the DataDevice of the seat
  offers,    \* the offers of each source to the client of each surface
  outgoing,  \* XDND messages to each toplevel
  incoming,  \* XDND messages of the toplevels
  peers,     \* what each X target knows
  moves,
  crashed    \* freed or missing data was used

dragVars == <<seat, drag, finish, sources, device, offers, outgoing, incoming, peers, moves, crashed>>

Nowhere == "nowhere"
NoSource == 0
Drags == 1 .. MaxDrags
NoOffer == <<NoSource, Nowhere>>

InitSeat ==
  [dragging |-> FALSE, dropped |-> FALSE, source |-> NoSource,
   over |-> Nowhere, shift |-> FALSE, inert |-> FALSE]

InitDrag ==
  [seat |-> FALSE, top |-> Nowhere, version |-> 0, action |-> "none", flags |-> {},
   selection |-> NoSource, shift |-> FALSE]

\* registered: the sources with HandleDataSourceDestroy among their callbacks.
InitFinish ==
  [source |-> NoSource, key |-> NoSource, registered |-> {}, timers |-> {},
   timeout |-> NoSource, version |-> 0, action |-> "none"]

NewSource ==
  [alive |-> TRUE, attached |-> FALSE, state |-> {}, action |-> "none",
   performed |-> 0, ended |-> <<>>]

NewOffer ==
  [held |-> TRUE, state |-> {}, action |-> "unsent", dropped |-> FALSE]

NewPeer == [state |-> "out", confused |-> FALSE, late |-> FALSE]

\* A step works on x, all of it but the messages of the targets.
Now == [s |-> seat, d |-> drag, f |-> finish, src |-> sources, dev |-> device,
        o |-> offers, out |-> outgoing, crashed |-> crashed]

Become(x) ==
  /\ seat' = x.s /\ drag' = x.d /\ finish' = x.f /\ sources' = x.src
  /\ device' = x.dev /\ offers' = x.o /\ outgoing' = x.out /\ crashed' = x.crashed

Crash(x) == [x EXCEPT !.crashed = TRUE]

-----------------------------------------------------------------------------
(* data_device.c *)

\* Events to the source.
SendCancelled(x, n) == [x EXCEPT !.src[n].ended = Append(@, "cancelled")]
SendFinished(x, n) == [x EXCEPT !.src[n].ended = Append(@, "finished")]
XLDataSourceSendDropPerformed(x, n) == [x EXCEPT !.src[n].performed = @ + 1]

XLDataDeviceSendEnter(x, s, n) ==
  [x EXCEPT !.dev = [current |-> <<n, s>>, supported |-> {}, preferred |-> "none"],
            !.src[n].state = {},
            !.o[<<n, s>>] = NewOffer]

\* n is NoSource when the drag is over.
XLDataDeviceSendLeave(x, n) ==
  IF n = NoSource THEN [x EXCEPT !.dev.current = NoOffer]
  ELSE [x EXCEPT !.dev = [current |-> NoOffer, supported |-> {}, preferred |-> "none"],
                 !.src[n].state = {}, !.src[n].action = "none"]

\* The preferred action, unless Shift is held; else move if it is held; else
\* the first that both support.
ResolveAction(x) ==
  LET both == x.dev.supported \cap SourceActions
      order == <<"copy", "move", "ask">>
  IN IF ~x.s.shift /\ x.dev.preferred \in SourceActions THEN x.dev.preferred
     ELSE IF x.s.shift /\ "move" \in both THEN "move"
     ELSE IF \E i \in 1 .. 3 : order[i] \in both
          THEN order[CHOOSE i \in 1 .. 3 : order[i] \in both /\ \A j \in 1 .. i - 1 : order[j] \notin both]
          ELSE "none"

\* Only the offer made by the last enter is up to date.
UpdateDeviceActions(x, n) ==
  LET action == ResolveAction(x)
      y == IF x.dev.current[1] = n /\ x.o[x.dev.current].held
           THEN [x EXCEPT !.o[x.dev.current].action = action,
                          !.o[x.dev.current].state = @ \cup {"IsActionSent"}]
           ELSE x
  IN [y EXCEPT !.src[n].action = action,
               !.src[n].state = (@ \ {"ActionsSent"})
                                \cup (IF action = "none" THEN {} ELSE {"ActionsSent"})]

DataOfferSetActions(x, k, supported, preferred) ==
  IF ~x.src[k[1]].attached \/ x.dev.current # k THEN x
  ELSE UpdateDeviceActions([x EXCEPT !.dev.supported = supported, !.dev.preferred = preferred], k[1])

\* Accept does not look at the age of the offer.
AcceptOffer(x, k, accepts) ==
  IF accepts
  THEN [x EXCEPT !.o[k].state = @ \cup {"IsMimeTypeAccepted"}, !.src[k[1]].state = @ \cup {"TypeAccepted"}]
  ELSE [x EXCEPT !.o[k].state = @ \ {"IsMimeTypeAccepted"}, !.src[k[1]].state = @ \ {"TypeAccepted"}]

FinishOffer(x, k) ==
  LET y == [x EXCEPT !.o[k].state = @ \cup {"IsFinished"}]
  IN IF ~{"IsMimeTypeAccepted", "IsActionSent"} \subseteq x.o[k].state \/ "IsFinished" \in x.o[k].state
     THEN x  \* an error is posted
     ELSE IF {"ActionsSent", "TypeAccepted"} \subseteq x.src[k[1]].state
          THEN SendFinished(y, k[1]) ELSE SendCancelled(y, k[1])

XLDataSourceCanDrop(x, n) == {"ActionsSent", "TypeAccepted"} \subseteq x.src[n].state

XLDataDeviceSendDrop(x) ==
  IF x.dev.current # NoOffer /\ x.o[x.dev.current].held
  THEN [x EXCEPT !.o[x.dev.current].dropped = TRUE] ELSE x

-----------------------------------------------------------------------------
(* dnd.c: the source of XDND. *)

Message(x, type) == [x EXCEPT !.out[x.d.top] = Append(@, type)]

\* Nothing is sent to a window that does not speak version 3.
Send(x, type) ==
  IF x.d.top = Nowhere \/ x.d.version < 3 THEN x ELSE Message(x, type)

SendEnter(x) == Send(x, "Enter")
SendLeave(x) == Send(x, "Leave")

\* The window or its proxy says whether it takes drops, and in what version.
ReadProtocolProperties(x, top) ==
  [x EXCEPT !.d.top = top, !.d.version = XdndVersion[top]]

ReportStateToSource(x) ==
  IF x.s.source = NoSource THEN x ELSE [x EXCEPT !.src[x.s.source].action = x.d.action]

\* inside: whether the pointer is in the rectangle of the last XdndStatus.  The
\* version outlives a drag: a position may go to no window at all.  A position
\* is called late that follows the drop or its cancellation.
SendPosition(x, inside) ==
  LET y == [x EXCEPT !.d.flags = @ \ {"PendingPosition"}]
      late == x.f.source # NoSource /\ "PendingDrop" \notin x.d.flags
      sent == IF x.d.top = Nowhere THEN y ELSE Message(y, IF late THEN "LatePosition" ELSE "Position")
  IN IF ~x.d.seat \/ x.d.version < 3 THEN x
     ELSE IF "WaitingForStatus" \in x.d.flags
          THEN IF "PendingDrop" \in x.d.flags THEN x
               ELSE [x EXCEPT !.d.flags = @ \cup {"PendingPosition"}]
     ELSE IF "NeedMouseRect" \in x.d.flags /\ inside THEN y
     ELSE IF x.d.version >= 4 /\ x.f.source = NoSource /\ x.s.source = NoSource THEN Crash(y)
     ELSE [sent EXCEPT !.d.flags = @ \cup {"WaitingForStatus"}]

PerTarget == {"WillAcceptDrop", "NeedMouseRect", "PendingPosition", "PendingDrop", "WaitingForStatus"}

LeaveTarget(x) ==
  ReportStateToSource(
    [SendLeave(x) EXCEPT !.d.top = Nowhere, !.d.version = 0, !.d.action = "none",
                             !.d.flags = @ \ PerTarget])

XLDoDragLeave(x) == IF x.d.seat /\ x.d.top # Nowhere THEN LeaveTarget(x) ELSE x

\* top: the toplevel under the pointer; owns: OwnSelection succeeds.
XLDoDragMotion(x, top, owns, inside) ==
  LET y == IF x.d.seat THEN x ELSE [x EXCEPT !.d.seat = TRUE, !.d.shift = x.s.shift]
      tried == {"SelectionSet", "SelectionFailed"} \cap y.d.flags # {}
      z == IF tried THEN y
           ELSE [y EXCEPT !.d.flags = @ \cup {IF owns THEN "SelectionSet" ELSE "SelectionFailed"},
                          !.d.selection = IF owns THEN y.s.source ELSE @]
      left == LeaveTarget(z)
      entered == SendEnter(ReadProtocolProperties(left, top))
  IN CASE x.f.source # NoSource \/ "PendingDrop" \in x.d.flags -> x
       [] OTHER ->
            IF "SelectionFailed" \in z.d.flags THEN z
            ELSE SendPosition(IF top = z.d.top THEN z ELSE IF top = Nowhere THEN left ELSE entered, inside)

\* The version and the action stay.
FinishDrag(x) ==
  [SendLeave(x) EXCEPT !.d.seat = FALSE, !.d.top = Nowhere, !.d.flags = {}, !.d.selection = NoSource]

XLDoDragFinish(x) == IF x.d.seat /\ x.f.source = NoSource THEN FinishDrag(x) ELSE x

RemoveTimer(x, t) ==
  IF t \in x.f.timers THEN [x EXCEPT !.f.timers = @ \ {t}] ELSE Crash(x)

CancelDestroyCallback(x, key) ==
  IF key \in x.f.registered THEN [x EXCEPT !.f.registered = @ \ {key}] ELSE Crash(x)

StartFinishTimeout(x) ==
  LET n == x.s.source IN
  [x EXCEPT !.f = [source |-> n, key |-> n, registered |-> @.registered \cup {n},
                   timers |-> @.timers \cup {n}, timeout |-> n,
                   version |-> x.d.version, action |-> x.d.action]]

SendDrop(x) ==
  IF x.d.top = Nowhere \/ x.d.version < 3 THEN x
  ELSE XLDataSourceSendDropPerformed(Message(x, "Drop"), x.f.source)

\* Whether a drop is for a window of another X client.
CanDropOutside(x) ==
  /\ x.d.seat /\ x.d.version >= 3
  /\ "WaitingForStatus" \notin x.d.flags => "WillAcceptDrop" \in x.d.flags /\ x.d.action # "none"

XLDoDragDrop(x) ==
  IF "WaitingForStatus" \in x.d.flags
  THEN StartFinishTimeout([x EXCEPT !.d.flags = @ \cup {"PendingDrop"}])
  ELSE SendDrop(StartFinishTimeout(x))

HandleXdndStatus(x, m, inside) ==
  LET y == [x EXCEPT !.d.flags = (@ \ {"WaitingForStatus", "WillAcceptDrop", "NeedMouseRect"})
                                 \cup (IF m.accepts THEN {"WillAcceptDrop"} ELSE {})
                                 \cup (IF m.rect THEN {"NeedMouseRect"} ELSE {}),
                     !.d.action = m.action]
      z == ReportStateToSource(y)
      w == IF "PendingPosition" \in z.d.flags THEN SendPosition(z, inside) ELSE z
      v == [w EXCEPT !.d.flags = @ \ {"PendingDrop"}]
  IN CASE m.top # x.d.top -> x
       [] m.top = x.d.top /\ ("WaitingForStatus" \in w.d.flags \/ "PendingDrop" \notin w.d.flags) -> w
       [] OTHER -> IF m.accepts /\ m.action # "none" THEN SendDrop(v)
                   ELSE SendCancelled(SendLeave(v), v.f.source)

\* The answer is taken from the first word of the message, which is the XID of
\* the target: m.odd.
HandleXdndFinished(x, m) ==
  LET n == x.f.source
      told == IF x.f.version < 5 \/ m.odd THEN SendFinished(x, n) ELSE SendCancelled(x, n)
      y == CancelDestroyCallback([told EXCEPT !.f.source = NoSource], x.f.key)
  IN IF n = NoSource THEN x
     ELSE FinishDrag([RemoveTimer(y, x.f.timeout) EXCEPT !.f.timeout = NoSource])

\* finish_timeout keeps the address of the timer that was freed.
DndSourceDestroyed(x) == FinishDrag(RemoveTimer([x EXCEPT !.f.source = NoSource], x.f.timeout))

WrongHandleTimerExpired(x, t) ==
  LET y == RemoveTimer(x, t) IN
  IF x.f.source = NoSource THEN y
  ELSE CancelDestroyCallback([SendCancelled(y, x.f.source) EXCEPT !.f.source = NoSource], x.f.key)

HandleTimerExpired(x, t) ==
  LET y == RemoveTimer(x, t) IN
  IF x.f.source = NoSource THEN y
  ELSE FinishDrag(CancelDestroyCallback([SendCancelled(y, x.f.source) EXCEPT !.f.source = NoSource],
                                        x.f.key))

-----------------------------------------------------------------------------
(* seat.c *)

DragLeave(x) ==
  [XLDataDeviceSendLeave(x, IF x.s.dragging THEN x.s.source ELSE NoSource) EXCEPT !.s.over = Nowhere]

EnteredSurface(x, s) ==
  LET left == IF x.s.over = Nowhere THEN x ELSE DragLeave(x)
  IN CASE x.s.over = s -> x
       [] x.s.over # s /\ s = Nowhere -> left
       [] x.s.over # s /\ s # Nowhere ->
            XLDataDeviceSendEnter([left EXCEPT !.s.over = s], s, x.s.source)

\* The source is forgotten before the test that would tell it of the end.
CancelDrag(x) ==
  LET n == x.s.source
      y == IF n = NoSource THEN x ELSE XLDoDragFinish(x)
      z == [y EXCEPT !.s.dragging = FALSE]
      w == IF z.s.over = Nowhere THEN z ELSE DragLeave(z)
  IN IF ~x.s.dragging THEN x
     ELSE IF n = NoSource THEN w
     ELSE [w EXCEPT !.src[n].attached = FALSE, !.s.source = NoSource]

\* The release of the last button.
DragButton(x) ==
  LET n == x.s.source
      y == IF CanDropOutside(x) THEN XLDataSourceSendDropPerformed(XLDoDragDrop(x), n)
           ELSE IF x.s.over # Nowhere /\ XLDataSourceCanDrop(x, n)
                THEN XLDataSourceSendDropPerformed(XLDataDeviceSendDrop(x), n)
                ELSE SendCancelled(x, n)
  IN CancelDrag([y EXCEPT !.s.dropped = TRUE])

XLSeatBeginDrag(x, n) ==
  [x EXCEPT !.s.dragging = TRUE, !.s.dropped = FALSE, !.s.source = n, !.src[n].attached = TRUE]

\* SendUpdatedModifiers and HandleModifiersChanged.
SendUpdatedModifiers(x, inside) ==
  LET y == IF x.d.seat THEN SendPosition([x EXCEPT !.d.shift = x.s.shift], inside) ELSE x
  IN IF y.s.dragging /\ y.s.source # NoSource /\ y.s.over # Nowhere
     THEN UpdateDeviceActions(y, y.s.source) ELSE y

HandleSourceResourceDestroy(x, n) ==
  LET y == [x EXCEPT !.src[n].alive = FALSE,
                     !.d.selection = IF @ = n THEN NoSource ELSE @,
                     !.o = [k \in DOMAIN @ |-> IF k[1] = n THEN [@[k] EXCEPT !.held = FALSE] ELSE @[k]]]
      z == IF n \in y.f.registered
           THEN DndSourceDestroyed([y EXCEPT !.f.registered = @ \ {n}]) ELSE y
  IN IF z.s.source = n THEN CancelDrag([z EXCEPT !.s.source = NoSource]) ELSE z

-----------------------------------------------------------------------------
(* Steps of the user. *)

Moving == seat.dragging /\ ~seat.inert /\ seat.source # NoSource /\ moves < MaxMoves

StartDrag(n) ==
  /\ ~seat.dragging /\ ~seat.inert
  /\ sources[n].alive /\ sources[n].performed = 0 /\ sources[n].ended = <<>>
  /\ \A m \in 1 .. n - 1 : sources[m].performed > 0 \/ sources[m].ended # <<>> \/ ~sources[m].alive
  /\ ~Overlap => finish.source = NoSource
  /\ Become(XLSeatBeginDrag(Now, n))
  /\ UNCHANGED <<incoming, peers, moves>>

\* DispatchMotion over a surface ends the drag outside.
MoveInside(s) ==
  /\ Moving /\ moves' = moves + 1
  /\ Become(EnteredSurface(XLDoDragLeave(Now), s))
  /\ UNCHANGED <<incoming, peers>>

\* The rest of DispatchMotion, and HandleDragMotionEvent.  A motion of less than
\* a pixel is ignored.
MoveOutside(top) ==
  /\ Moving /\ moves' = moves + 1
  /\ \/ \E owns \in {TRUE} \cup {~SelectionFails}, inside \in BOOLEAN :
          Become(XLDoDragMotion(EnteredSurface(Now, Nowhere), top, owns, inside))
     \/ drag.seat /\ Become(EnteredSurface(Now, Nowhere))
  /\ UNCHANGED <<incoming, peers>>

Release ==
  /\ seat.dragging /\ ~seat.inert /\ seat.source # NoSource
  /\ Become(DragButton(Now))
  /\ UNCHANGED <<incoming, peers, moves>>

\* Another client ended the grab, or the surface of the drag was unmapped.
GrabBroken ==
  /\ seat.dragging /\ ~seat.inert
  /\ Become(CancelDrag(Now))
  /\ UNCHANGED <<incoming, peers, moves>>

ChangeModifiers ==
  /\ ~seat.inert /\ moves < MaxMoves /\ moves' = moves + 1
  /\ \E inside \in BOOLEAN :
       Become(SendUpdatedModifiers([Now EXCEPT !.s.shift = ~@], inside))
  /\ UNCHANGED <<incoming, peers>>

\* The surface under the pointer is destroyed: HandleDragLastSurfaceDestroy.
SurfaceDestroyed ==
  /\ seat.over # Nowhere
  /\ seat' = [seat EXCEPT !.over = Nowhere]
  /\ UNCHANGED <<drag, finish, sources, device, offers, outgoing, incoming, peers, moves, crashed>>

\* The devices of the seat are removed: HandleDragSeatDestroy.
SeatDestroyed ==
  /\ ~seat.inert
  /\ Become(LET x == [Now EXCEPT !.s.inert = TRUE] IN
            IF drag.seat THEN FinishDrag([x EXCEPT !.d.seat = FALSE]) ELSE x)
  /\ UNCHANGED <<incoming, peers, moves>>

\* Five seconds are enough for the messages to arrive; a target that has not
\* answered until then does so later or never.
FinishTimeout(t) ==
  /\ t \in finish.timers
  /\ ~LateAnswers => incoming = <<>> /\ \A p \in Toplevels : outgoing[p] = <<>>
  /\ Become(HandleTimerExpired(Now, t))
  /\ peers' = IF LateAnswers THEN peers
              ELSE [p \in Toplevels |-> IF peers[p].state = "dropped" THEN [peers[p] EXCEPT !.state = "out"]
                                        ELSE peers[p]]
  /\ UNCHANGED <<incoming, moves>>

-----------------------------------------------------------------------------
(* Steps of the clients. *)

\* A client answers an enter once or twice; it learns later that it was left.
Accept(k) ==
  /\ offers[k].held /\ sources[k[1]].alive /\ "IsFinished" \notin offers[k].state
  /\ \E accepts \in BOOLEAN :
       /\ accepts # ("IsMimeTypeAccepted" \in offers[k].state)
       /\ Become(AcceptOffer(Now, k, accepts))
  /\ UNCHANGED <<incoming, peers, moves>>

SetActions(k) ==
  /\ offers[k].held /\ sources[k[1]].alive /\ ~offers[k].dropped
  /\ \E p \in Preferred : Become(DataOfferSetActions(Now, k, IF p = "none" THEN {} ELSE {p}, p))
  /\ UNCHANGED <<incoming, peers, moves>>

Finish(k) ==
  /\ offers[k].held /\ offers[k].dropped /\ sources[k[1]].alive
  /\ Become(FinishOffer(Now, k))
  /\ UNCHANGED <<incoming, peers, moves>>

\* The client of a source destroys it once it is told of the end; or at any time.
DestroySource(n) ==
  /\ sources[n].alive
  /\ ~SourcesDie => sources[n].ended # <<>>
  /\ Become(HandleSourceResourceDestroy(Now, n))
  /\ UNCHANGED <<incoming, peers, moves>>

-----------------------------------------------------------------------------
(* The X targets, and what the translator reads of them. *)

\* A target answers a position at once, and a drop now or later.
ReadMessage(t) ==
  LET type == Head(outgoing[t]) IN
  /\ outgoing[t] # <<>>
  /\ outgoing' = [outgoing EXCEPT ![t] = Tail(@)]
  /\ peers' = [peers EXCEPT ![t] =
       [state |-> CASE type = "Enter" -> "in"
                    [] type = "Leave" -> IF @.state = "dropped" THEN @.state ELSE "out"
                    [] type = "Drop" -> "dropped"
                    [] type \in {"Position", "LatePosition"} -> @.state,
        confused |-> @.confused \/ (type \in {"Position", "Drop"} /\ @.state = "out"),
        late |-> @.late \/ (type = "LatePosition" /\ @.state = "dropped")]]
  /\ IF type \in {"Position", "LatePosition"}
     THEN \E accepts \in BOOLEAN, rect \in BOOLEAN :
            incoming' = Append(incoming, [type |-> "Status", top |-> t, accepts |-> accepts,
                                          rect |-> rect, action |-> IF accepts THEN "copy" ELSE "none"])
     ELSE incoming' = incoming
  /\ UNCHANGED <<seat, drag, finish, sources, device, offers, moves, crashed>>

AnswerDrop(t) ==
  /\ peers[t].state = "dropped"
  /\ peers' = [peers EXCEPT ![t].state = "out"]
  /\ \E odd \in BOOLEAN :
       incoming' = Append(incoming, [type |-> "Finished", top |-> t, odd |-> odd])
  /\ UNCHANGED <<seat, drag, finish, sources, device, offers, outgoing, moves, crashed>>

\* XLHandleOneXEventForDnd
ProcessClientMessage ==
  LET m == Head(incoming) IN
  /\ incoming # <<>> /\ incoming' = Tail(incoming)
  /\ \E inside \in BOOLEAN :
       Become(CASE ~drag.seat -> Now
                [] drag.seat /\ m.type = "Status" -> HandleXdndStatus(Now, m, inside)
                [] drag.seat /\ m.type = "Finished" -> HandleXdndFinished(Now, m))
  /\ UNCHANGED <<peers, moves>>

DragInit ==
  /\ seat = InitSeat /\ drag = InitDrag /\ finish = InitFinish
  /\ sources = [n \in Drags |-> NewSource]
  /\ device = [current |-> NoOffer, supported |-> {}, preferred |-> "none"]
  /\ offers = [k \in Drags \X Surfaces |-> [NewOffer EXCEPT !.held = FALSE]]
  /\ outgoing = [t \in Toplevels |-> <<>>] /\ incoming = <<>>
  /\ peers = [t \in Toplevels |-> NewPeer]
  /\ moves = 0 /\ crashed = FALSE

DragNext ==
  \/ \E n \in Drags : StartDrag(n) \/ DestroySource(n) \/ FinishTimeout(n)
  \/ \E s \in Surfaces : MoveInside(s)
  \/ \E t \in Toplevels \cup {Nowhere} : MoveOutside(t)
  \/ Release \/ GrabBroken \/ ChangeModifiers \/ SurfaceDestroyed \/ SeatDestroyed
  \/ \E k \in Drags \X Surfaces : Accept(k) \/ SetActions(k) \/ Finish(k)
  \/ \E t \in Toplevels : ReadMessage(t) \/ AnswerDrop(t)
  \/ ProcessClientMessage

DragSpec == DragInit /\ [][DragNext]_dragVars

-----------------------------------------------------------------------------
(* Properties. *)

DragTypeOK ==
  /\ seat.source \in Drags \cup {NoSource} /\ seat.over \in Surfaces \cup {Nowhere}
  /\ drag.top \in Toplevels \cup {Nowhere}
  /\ drag.flags \subseteq PerTarget \cup {"SelectionSet", "SelectionFailed"}
  /\ finish.registered \subseteq Drags /\ finish.timers \subseteq Drags
  /\ device.current \in (Drags \X Surfaces) \cup {NoOffer}

\* Whoever drops on a window of another X client waits for its answer with a
\* timer and a callback of its own: no source waits for ever, no timer and no
\* callback is left behind for data that is gone.
FinishWatched ==
  IF finish.source = NoSource THEN finish.timers = {} /\ finish.registered = {}
  ELSE /\ finish.timers = {finish.source} /\ finish.registered = {finish.source}
       /\ finish.timeout = finish.source /\ finish.key = finish.source
       /\ sources[finish.source].alive

\* A drag that is over leaves no target entered and no selection owned, and the
\* next one owns the selection for its own source.
NothingLeftBehind ==
  /\ ~seat.dragging /\ finish.source = NoSource => ~drag.seat /\ drag.top = Nowhere
  /\ seat.dragging /\ drag.top # Nowhere => drag.selection = seat.source

\* What the offer under the pointer and the source were told of the action agrees.
ActionAgreed ==
  LET k == device.current IN
  seat.dragging /\ k # NoOffer /\ offers[k].action # "unsent" /\ seat.over # Nowhere =>
    /\ offers[k].action = sources[k[1]].action
    /\ ("ActionsSent" \in sources[k[1]].state) = (offers[k].action # "none")

\* No source is told of both success and failure.
OneOutcome ==
  \A n \in Drags : \A i, j \in DOMAIN sources[n].ended :
    sources[n].ended[i] = sources[n].ended[j]

\* A target is told of positions and of the drop only between enter and leave,
\* but for late positions.
TargetInformed == \A t \in Toplevels : ~peers[t].confused

DragSound ==
  FinishWatched /\ NothingLeftBehind /\ ActionAgreed /\ OneOutcome /\ TargetInformed /\ ~crashed

\* "If the drop already happened, don't bother sending another position event."
NoPositionAfterDrop == \A t \in Toplevels : ~peers[t].late

=============================================================================
