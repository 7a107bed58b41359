----------------------------- MODULE DndTarget ------------------------------
(***************************************************************************)
(* Drops from X clients: dnd.c as the target of XDND, with what it calls   *)
(* of data_device.c.  Around it the X client that drags, one drag after    *)
(* the other, with its messages, and the Wayland clients of the surfaces   *)
(* in the toplevel it drags over.                                          *)
(*                                                                         *)
(* Abstracted: the types offered, coordinates (a position names the        *)
(* surface under it), the data itself (Receive changes nothing here), and  *)
(* versions of XDND below 5.  A client whose request is an error does not  *)
(* make it.                                                                *)
(***************************************************************************)
EXTENDS Naturals, Sequences, FiniteSets

CONSTANTS
  Children,      \* surfaces in the toplevel
  OfferVersion,  \* the version of wl_data_device of the client of each
  Actions,       \* actions that the X client proposes
  StaleDestroys, \* clients destroy the offers of a surface that was left at once
  MaxSessions,   \* bound: drags
  MaxPositions,  \* bound: positions
  MaxReplies     \* bound: messages to the X client that it has not read, before a client acts

VARIABLES
  dnd,       \* dnd_state
  dropOffers,\* the resources of wl_data_offer, in the order of their creation
  requests,  \* XDND messages to the toplevel
  replies,   \* XDND messages to the X client
  source,    \* the X client
  crash      \* a function was called without a seat

targetVars == <<dnd, dropOffers, requests, replies, source, crash>>

None == "none"
Sessions == 1 .. MaxSessions
NoSession == 0

InitDnd ==
  [session |-> NoSession,      \* source_window
   seat |-> FALSE, surface |-> FALSE, child |-> None, serial |-> 0, respond |-> FALSE,
   resources |-> {}, sourceActions |-> {}, supported |-> {}, preferred |-> None, used |-> None,
   accepted |-> FALSE, finished |-> FALSE, dropped |-> FALSE, version |-> 0]

InitSource ==
  [session |-> 0, state |-> "idle", waiting |-> FALSE, positions |-> 0, live |-> TRUE,
   \* whether the drag began without traces of the last one, and was not disturbed
   clean |-> TRUE, undisturbed |-> TRUE]

\* A step works on x: the state, the resources and the messages.
TargetState == [d |-> dnd, o |-> dropOffers, r |-> replies, c |-> crash]

Set(x) == dnd' = x.d /\ dropOffers' = x.o /\ replies' = x.r /\ crash' = x.c

-----------------------------------------------------------------------------

Reply(x, m) == [x EXCEPT !.r = Append(@, m)]

SendStatus(x) ==
  IF x.d.dropped THEN x
  ELSE Reply(x, [type |-> "Status", session |-> x.d.session,
                 accepts |-> x.d.respond /\ x.d.used # None /\ x.d.accepted])

\* The preferred action if the source supports it, else the first of both.
ChooseAction(d) ==
  LET both == d.supported \cap d.sourceActions
  IN IF d.preferred \in d.sourceActions THEN d.preferred
     ELSE IF "copy" \in both THEN "copy"
     ELSE IF "move" \in both THEN "move"
     ELSE IF "ask" \in both THEN "ask" ELSE None

UpdateUsedAction(x) == SendStatus([x EXCEPT !.d.used = ChooseAction(x.d)])

\* serial, the seat's being and dropped of the last drop outlive this.
FinishDndEntry(x) == [x EXCEPT !.d = [InitDnd EXCEPT !.serial = x.d.serial, !.respond = x.d.respond]]

RespondToDndDrop(x) ==
  FinishDndEntry(
    Reply(x, [type |-> "Finished", session |-> x.d.session,
              accepts |-> x.d.used # None /\ x.d.accepted /\ x.d.seat /\ x.d.respond,
              asked |-> x.d.finished \/ x.d.version <= 2]))

Current(x, i) == x.o[i].serial >= x.d.serial /\ x.d.session # NoSession

\* The state that is told is that before the change.
AcceptDropOffer(x, i, type) ==
  IF ~Current(x, i) \/ x.o[i].version <= 2 THEN x
  ELSE [(IF x.d.accepted # type THEN SendStatus(x) ELSE x) EXCEPT !.d.accepted = type]

MayFinish(x, i) ==
  x.o[i].serial >= x.d.serial /\ x.d.used # None /\ x.d.accepted /\ ~x.d.finished

FinishDropOffer(x, i) ==
  LET y == [x EXCEPT !.d.finished = TRUE] IN IF x.d.dropped THEN RespondToDndDrop(y) ELSE y

SetDropOfferActions(x, i, action) ==
  IF ~Current(x, i) THEN x
  ELSE UpdateUsedAction([x EXCEPT !.d.supported = {action} \ {None}, !.d.preferred = action])

\* The serial is that of the drag, not that of the entry: an offer of a surface
\* that was left counts as well.
HandleResourceDestroy(x, i) ==
  LET gone == [x EXCEPT !.o[i].held = FALSE]
      y == IF x.o[i].version >= 3 THEN [gone EXCEPT !.d.accepted = FALSE] ELSE gone
      z == IF y.d.dropped THEN RespondToDndDrop(y) ELSE y
      w == [z EXCEPT !.d.resources = @ \ {i}]
  IN IF ~Current(x, i) THEN gone
     ELSE IF w.d.resources = {} THEN FinishDndEntry(w) ELSE w

\* A new offer; below version 3 everything is accepted.
CreateOffer(x, s) ==
  LET i == Len(x.o) + 1
      v == OfferVersion[s]
  IN [x EXCEPT !.o = Append(@, [serial |-> x.d.serial, child |-> s, version |-> v, held |-> TRUE]),
               !.d.resources = @ \cup {i},
               !.d.accepted = @ \/ v <= 2,
               !.d.version = IF @ = 0 \/ @ > v THEN v ELSE @]

LeaveChild(x) ==
  [x EXCEPT !.d.child = None, !.d.resources = {}, !.d.used = None, !.d.preferred = None,
            !.d.supported = {}, !.d.accepted = x.d.version <= 2]

HandleChildUnmap(x) == [x EXCEPT !.d.child = None, !.d.resources = {}]

HandleMotion(x, child) ==
  LET left == IF x.d.child = None THEN x ELSE LeaveChild(x)
      made == CreateOffer([left EXCEPT !.d.child = child], child)
  IN IF child = None THEN left
     ELSE IF ~x.d.seat THEN [left EXCEPT !.c = TRUE]
     ELSE [made EXCEPT !.d.respond = made.d.resources # {}]

\* A source that asks has a list of its actions, Actions, that is read once.  The
\* action is chosen before the actions of the source are recorded.
HandleXdndPositionEvent(x, m) ==
  LET entered == m.child # x.d.child
      y == IF entered THEN HandleMotion(x, m.child) ELSE x
      sent == entered /\ m.child # None
      actions == IF "ask" \notin m.actions THEN m.actions
                 ELSE m.actions \cup IF "ask" \in x.d.sourceActions THEN x.d.sourceActions ELSE Actions
      z == IF y.d.resources # {} /\ ~sent /\ actions # y.d.sourceActions
           THEN UpdateUsedAction(y) ELSE y
  IN IF m.session # x.d.session \/ ~x.d.surface THEN x
     ELSE SendStatus([z EXCEPT !.d.sourceActions = actions])

\* seat: whether there is one.
HandleDndEntry(x, session, seat) ==
  LET y == IF x.d.session # NoSession THEN FinishDndEntry(x) ELSE x
  IN [y EXCEPT !.d.session = session, !.d.surface = TRUE, !.d.seat = seat,
               !.d.respond = FALSE, !.d.serial = @ + 1]

HandleXdndLeaveEvent(x, m) ==
  IF m.session # x.d.session \/ ~x.d.surface THEN x ELSE FinishDndEntry(x)

WrongHandleXdndDropEvent(x, m) ==
  IF m.session # x.d.session \/ ~x.d.surface THEN x
  ELSE [x EXCEPT !.d.dropped = TRUE]

\* The mark that the drop happened is set even if it was answered at once.
HandleXdndDropEvent(x, m) ==
  LET answered == x.d.finished \/ ~x.d.respond \/ ~x.d.seat \/ x.d.version <= 2
      y == IF answered THEN RespondToDndDrop(x) ELSE x
  IN IF m.session # x.d.session \/ ~x.d.surface THEN x
     ELSE IF ~x.d.seat THEN [x EXCEPT !.c = TRUE]
     ELSE [y EXCEPT !.d.dropped = TRUE]

-----------------------------------------------------------------------------
(* Steps of the translator. *)

ReadEnter ==
  /\ requests # <<>> /\ Head(requests).type = "Enter"
  /\ Set(HandleDndEntry(TargetState, Head(requests).session, source.live))
  /\ source' = [source EXCEPT !.clean = ~HandleDndEntry(TargetState, Head(requests).session, TRUE).d.dropped]
  /\ requests' = Tail(requests)

ReadRequest ==
  LET m == Head(requests) IN
  /\ requests # <<>> /\ m.type # "Enter"
  /\ Set(CASE m.type = "Position" -> HandleXdndPositionEvent(TargetState, m)
           [] m.type = "Leave" -> HandleXdndLeaveEvent(TargetState, m)
           [] m.type = "Drop" -> HandleXdndDropEvent(TargetState, m))
  /\ requests' = Tail(requests) /\ UNCHANGED source

HandleSeatDestroy ==
  /\ dnd.seat
  /\ Set(FinishDndEntry(TargetState))
  /\ source' = [source EXCEPT !.undisturbed = FALSE, !.live = FALSE]
  /\ UNCHANGED requests

\* The toplevel goes, and the X client drags on.
HandleSurfaceDestroy ==
  /\ dnd.surface
  /\ dnd' = [dnd EXCEPT !.surface = FALSE]
  /\ source' = [source EXCEPT !.undisturbed = FALSE]
  /\ UNCHANGED <<dropOffers, requests, replies, crash>>

UnmapChild ==
  /\ dnd.child # None
  /\ Set(HandleChildUnmap(TargetState))
  /\ UNCHANGED <<requests, source>>

-----------------------------------------------------------------------------
(* Steps of the Wayland clients. *)

ClientAccepts(i) ==
  /\ dropOffers[i].held /\ Len(replies) < MaxReplies
  /\ \E type \in BOOLEAN : type # dnd.accepted /\ Set(AcceptDropOffer(TargetState, i, type))
  /\ UNCHANGED <<requests, source>>

ClientSetsActions(i) ==
  /\ dropOffers[i].held /\ dropOffers[i].version >= 3 /\ Len(replies) < MaxReplies
  /\ \E action \in Actions \cup {None} : action # dnd.preferred /\ Set(SetDropOfferActions(TargetState, i, action))
  /\ UNCHANGED <<requests, source>>

ClientFinishes(i) ==
  /\ dropOffers[i].held /\ MayFinish(TargetState, i) /\ source.state = "dropped"
  /\ Set(FinishDropOffer(TargetState, i))
  /\ UNCHANGED <<requests, source>>

\* A client is done with an offer once its drag is over, or dropped, and with
\* that of a surface that was left.
ClientDestroys(i) ==
  /\ dropOffers[i].held
  /\ (StaleDestroys => i \in dnd.resources) /\ Current(TargetState, i) => dnd.dropped
  /\ Set(HandleResourceDestroy(TargetState, i))
  /\ UNCHANGED <<requests, source>>

-----------------------------------------------------------------------------
(* Steps of the X client. *)

Request(m) == requests' = Append(requests, m)

\* The next drag starts when this one is over; or the client gave up.
SourceEnters ==
  /\ source.session < MaxSessions /\ source.state \in {"idle", "dropped"} /\ ~source.waiting
  /\ source' = [source EXCEPT !.session = @ + 1, !.state = "entered", !.undisturbed = source.live]
  /\ Request([type |-> "Enter", session |-> source.session + 1])
  /\ UNCHANGED <<dnd, dropOffers, replies, crash>>

SourceMoves ==
  /\ source.state = "entered" /\ ~source.waiting /\ source.positions < MaxPositions
  /\ source' = [source EXCEPT !.waiting = TRUE, !.positions = @ + 1]
  /\ \E child \in Children \cup {None}, action \in Actions :
       Request([type |-> "Position", session |-> source.session, child |-> child, actions |-> {action}])
  /\ UNCHANGED <<dnd, dropOffers, replies, crash>>

SourceLeaves ==
  /\ source.state = "entered"
  /\ source' = [source EXCEPT !.state = "idle", !.waiting = FALSE]
  /\ Request([type |-> "Leave", session |-> source.session])
  /\ UNCHANGED <<dnd, dropOffers, replies, crash>>

SourceDrops ==
  /\ source.state = "entered" /\ ~source.waiting
  /\ source' = [source EXCEPT !.state = "dropped"]
  /\ Request([type |-> "Drop", session |-> source.session])
  /\ UNCHANGED <<dnd, dropOffers, replies, crash>>

ReadReply ==
  LET m == Head(replies) IN
  /\ replies # <<>> /\ replies' = Tail(replies)
  /\ source' = IF m.session # source.session THEN source
               ELSE IF m.type = "Status" THEN [source EXCEPT !.waiting = FALSE]
               ELSE [source EXCEPT !.state = IF @ = "dropped" THEN "idle" ELSE @]
  /\ UNCHANGED <<dnd, dropOffers, requests, crash>>

TargetInit ==
  /\ dnd = InitDnd /\ dropOffers = <<>> /\ requests = <<>> /\ replies = <<>>
  /\ source = InitSource /\ crash = FALSE

TargetNext ==
  \/ ReadEnter \/ ReadRequest \/ HandleSeatDestroy \/ HandleSurfaceDestroy \/ UnmapChild
  \/ \E i \in DOMAIN dropOffers :
       ClientAccepts(i) \/ ClientSetsActions(i) \/ ClientFinishes(i) \/ ClientDestroys(i)
  \/ SourceEnters \/ SourceMoves \/ SourceLeaves \/ SourceDrops \/ ReadReply

TargetSpec == TargetInit /\ [][TargetNext]_targetVars

-----------------------------------------------------------------------------
(* Properties. *)

TargetTypeOK ==
  /\ dnd.session \in Sessions \cup {NoSession} /\ dnd.child \in Children \cup {None}
  /\ dnd.resources \subseteq DOMAIN dropOffers
  /\ dnd.used \in Actions \cup {None}
  /\ source.session \in 0 .. MaxSessions

InFlight(queue, type, session) ==
  \E i \in DOMAIN queue : queue[i].type = type /\ queue[i].session = session

\* The X client waits for the answer to a position only while the position or
\* its answer is on the way.
PositionAnswered ==
  source.waiting /\ source.undisturbed =>
    \/ InFlight(requests, "Position", source.session)
    \/ InFlight(replies, "Status", source.session)

\* It waits for the answer to a drop only while that is on the way, or a
\* Wayland client has an offer of this drag to finish or to destroy.
DropAnswered ==
  source.state = "dropped" /\ source.undisturbed =>
    \/ InFlight(requests, "Drop", source.session)
    \/ InFlight(replies, "Finished", source.session)
    \/ /\ dnd.session = source.session /\ dnd.dropped
       /\ \E i \in DOMAIN dropOffers : dropOffers[i].held /\ dropOffers[i].serial = dnd.serial

\* A drop is reported as done only if a client that can say so did.
OnlyFinishedAccepted ==
  \A i \in DOMAIN replies :
    replies[i].type = "Finished" /\ replies[i].accepts => replies[i].asked

\* Offers of drags that are over are none of the current one.
OffersCurrent ==
  \A i \in dnd.resources : dropOffers[i].serial = dnd.serial /\ dropOffers[i].child = dnd.child

TargetAnswers ==
  /\ source.clean => PositionAnswered
  /\ source.clean => DropAnswered
  /\ OnlyFinishedAccepted /\ OffersCurrent /\ (source.live => ~crash)

=============================================================================
