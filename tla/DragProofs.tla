----------------------------- MODULE DragProofs -----------------------------
(***************************************************************************)
(* Proofs about Drag: what every handler does to the drag, to the outcome  *)
(* its source is told of and to the queues of the X targets, and that a    *)
(* drag leaves nothing behind.                                             *)
(***************************************************************************)
EXTENDS Drag, TLAPS

Flags == PerTarget \cup {"SelectionSet", "SelectionFailed"}
Actions == SourceActions \cup Preferred \cup {"none", "copy", "move", "ask", "unsent"}
Messages == {"Enter", "Leave", "Position", "LatePosition", "Drop"}
Offers == Drags \X Surfaces

Seat ==
  [dragging : BOOLEAN, dropped : BOOLEAN, source : Drags \cup {NoSource},
   over : Surfaces \cup {Nowhere}, shift : BOOLEAN, inert : BOOLEAN]

DragState ==
  [seat : BOOLEAN, top : Toplevels \cup {Nowhere}, version : Nat, action : Actions,
   flags : SUBSET Flags, selection : Drags \cup {NoSource}, shift : BOOLEAN]

FinishState ==
  [source : Drags \cup {NoSource}, key : Drags \cup {NoSource}, registered : SUBSET Drags,
   timers : SUBSET Drags, timeout : Drags \cup {NoSource}, version : Nat, action : Actions]

Source ==
  [alive : BOOLEAN, attached : BOOLEAN, state : SUBSET {"ActionsSent", "TypeAccepted"},
   action : Actions, performed : Nat, ended : Seq({"cancelled", "finished"})]

Offer ==
  [held : BOOLEAN, state : SUBSET {"IsMimeTypeAccepted", "IsActionSent", "IsFinished"},
   action : Actions, dropped : BOOLEAN]

Device ==
  [current : Offers \cup {NoOffer}, supported : SUBSET Actions, preferred : Actions]

Peer == [state : {"out", "in", "dropped"}, confused : BOOLEAN, late : BOOLEAN]

Working ==
  [s : Seat, d : DragState, f : FinishState, src : [Drags -> Source], dev : Device,
   o : [Offers -> Offer], out : [Toplevels -> Seq(Messages)], crashed : BOOLEAN]

\* What the proofs need to know of the parameters.
Parameters ==
  /\ Nowhere \notin Surfaces \cup Toplevels
  /\ XdndVersion \in [Toplevels -> Nat]
  /\ MaxDrags \in Nat

-----------------------------------------------------------------------------
(* The invariant. *)

\* The drag of the seat, that of dnd.c, and the data device agree.
Begun(x) ==
  /\ x.s.dragging => /\ x.s.source # NoSource /\ x.f.source = NoSource
                     /\ x.src[x.s.source].alive /\ x.src[x.s.source].ended = <<>>
                     /\ x.src[x.s.source].performed = 0
  /\ ~x.s.dragging => x.s.source = NoSource /\ x.s.over = Nowhere
  /\ x.d.seat => x.s.dragging \/ x.f.source # NoSource
  /\ ~x.d.seat => x.d.top = Nowhere /\ x.d.flags = {}
  /\ "PendingDrop" \in x.d.flags => x.f.source # NoSource

Selected(x) ==
  /\ x.d.top # Nowhere /\ x.s.dragging => "SelectionSet" \in x.d.flags
  /\ "SelectionSet" \in x.d.flags /\ x.s.dragging => x.d.selection = x.s.source

Over(x) ==
  x.s.over # Nowhere /\ x.s.dragging =>
    x.d.top = Nowhere /\ x.dev.current = <<x.s.source, x.s.over>> /\ x.o[x.dev.current].held

\* FinishWatched and ActionAgreed, of any state.
Watched(x) ==
  IF x.f.source = NoSource THEN x.f.timers = {} /\ x.f.registered = {}
  ELSE /\ x.f.timers = {x.f.source} /\ x.f.registered = {x.f.source}
       /\ x.f.timeout = x.f.source /\ x.f.key = x.f.source
       /\ x.src[x.f.source].alive

Agreed(x) ==
  LET k == x.dev.current IN
  x.s.dragging /\ k # NoOffer /\ x.o[k].action # "unsent" /\ x.s.over # Nowhere =>
    /\ x.o[k].action = x.src[k[1]].action
    /\ ("ActionsSent" \in x.src[k[1]].state) = (x.o[k].action # "none")

Steady(x) == Begun(x) /\ Selected(x) /\ Over(x) /\ Watched(x) /\ Agreed(x) /\ ~x.crashed

\* What message i of a queue will find: a target that was entered, and neither
\* left nor dropped on since.  inside: what the target knows before the first.
Closes(m) == m \in {"Leave", "Drop"}

Entered(q, inside, i) ==
  \/ inside /\ \A j \in 1 .. i - 1 : ~Closes(q[j])
  \/ \E j \in 1 .. i - 1 : q[j] = "Enter" /\ \A k \in j + 1 .. i - 1 : ~Closes(q[k])

Informs(q, inside) ==
  \A i \in 1 .. Len(q) : q[i] \in {"Position", "Drop"} => Entered(q, inside, i)

\* in: of every target, whether it knows of the drag.
AllInform(x, in) == \A t \in Toplevels : Informs(x.out[t], in[t])

Ready(x, in, t) == Entered(x.out[t], in[t], Len(x.out[t]) + 1)

\* The target of a drag that is not dropped on it is ready for more.
Targeted(x, in) ==
  /\ AllInform(x, in)
  /\ x.d.top # Nowhere /\ x.d.version >= 3 /\ (x.f.source = NoSource \/ "PendingDrop" \in x.d.flags)
     => Ready(x, in, x.d.top)

\* The drops that are on their way.
DropAt(x, t, i) == i \in DOMAIN x.out[t] /\ x.out[t][i] = "Drop"

SameDrops(x, y) == \A t \in Toplevels, i \in Nat : DropAt(y, t, i) <=> DropAt(x, t, i)

-----------------------------------------------------------------------------
(* Queues. *)

Longer(q, r, m, inside) ==
  /\ Len(r) = Len(q) + 1 /\ Len(q) \in Nat
  /\ r[Len(r)] = m /\ \A i \in 1 .. Len(q) : r[i] = q[i]
  /\ \A i \in 1 .. Len(r) : Entered(r, inside, i) <=> Entered(q, inside, i)
  /\ m = "Enter" => Entered(r, inside, Len(r) + 1)
  /\ ~Closes(m) /\ Entered(q, inside, Len(q) + 1) => Entered(r, inside, Len(r) + 1)

LEMMA EnteredLater ==
  ASSUME NEW q \in Seq(Messages), NEW m \in Messages, NEW inside \in BOOLEAN,
         NEW r, r = Append(q, m)
  PROVE  r \in Seq(Messages) /\ Longer(q, r, m, inside)
<1>1. /\ r \in Seq(Messages) /\ Len(r) = Len(q) + 1 /\ Len(q) \in Nat
      /\ r[Len(r)] = m /\ \A i \in 1 .. Len(q) : r[i] = q[i]
  OBVIOUS
<1>2. ASSUME NEW i \in 1 .. Len(r)
      PROVE  Entered(r, inside, i) <=> Entered(q, inside, i)
  BY <1>1 DEF Entered
<1>3. m = "Enter" => Entered(r, inside, Len(r) + 1)
  BY <1>1 DEF Entered
<1>4. ASSUME ~Closes(m), Entered(q, inside, Len(q) + 1)
      PROVE  Entered(r, inside, Len(r) + 1)
  <2>1. CASE inside /\ \A j \in 1 .. Len(q) : ~Closes(q[j])
    BY <1>1, <1>4, <2>1 DEF Entered
  <2>2. CASE \E j \in 1 .. Len(q) : q[j] = "Enter" /\ \A k \in j + 1 .. Len(q) : ~Closes(q[k])
    <3>1. PICK j \in 1 .. Len(q) : q[j] = "Enter" /\ \A k \in j + 1 .. Len(q) : ~Closes(q[k])
      BY <2>2
    <3>2. j \in 1 .. Len(r) /\ r[j] = "Enter"
      BY <1>1, <3>1
    <3>3. \A k \in j + 1 .. Len(r) : ~Closes(r[k])
      BY <1>1, <1>4, <3>1
    <3> QED
      BY SMTT(30), <1>1, <3>2, <3>3 DEF Entered
  <2> QED
    BY SMTT(30), <1>1, <1>4, <2>1, <2>2 DEF Entered
<1> QED
  BY <1>1, <1>2, <1>3, <1>4 DEF Longer

LEMMA AppendInforms ==
  ASSUME NEW q \in Seq(Messages), NEW m \in Messages, NEW inside \in BOOLEAN,
         NEW r, r = Append(q, m),
         Informs(q, inside), m \in {"Position", "Drop"} => Entered(q, inside, Len(q) + 1)
  PROVE  Informs(r, inside)
<1>0. Longer(q, r, m, inside)
  BY EnteredLater
<1>1. /\ Len(r) = Len(q) + 1 /\ Len(q) \in Nat
      /\ r[Len(r)] = m /\ \A i \in 1 .. Len(q) : r[i] = q[i]
      /\ \A i \in 1 .. Len(r) : Entered(r, inside, i) <=> Entered(q, inside, i)
  BY <1>0 DEF Longer
<1>2. ASSUME NEW i \in 1 .. Len(r), r[i] \in {"Position", "Drop"}
      PROVE  Entered(q, inside, i)
  <2>1. CASE i = Len(q) + 1
    BY <1>1, <1>2, <2>1
  <2>2. CASE i \in 1 .. Len(q)
    BY <1>1, <1>2, <2>2 DEF Informs
  <2> QED
    BY <1>1, <2>1, <2>2
<1> QED
  BY <1>1, <1>2 DEF Informs

\* r: what is left of q.
Shifted(q, r, inside, now) ==
  /\ r \in Seq(Messages) /\ Len(q) = Len(r) + 1
  /\ \A i \in 1 .. Len(r) + 1 : Entered(q, inside, i + 1) => Entered(r, now, i)
  /\ Informs(q, inside) => Informs(r, now)

\* The target has read the first message, and knows what it says.
LEMMA TailInforms ==
  ASSUME NEW q \in Seq(Messages), q # <<>>, NEW inside \in BOOLEAN, NEW now \in BOOLEAN,
         NEW r, r = Tail(q),
         now = (IF Head(q) = "Enter" THEN TRUE ELSE IF Closes(Head(q)) THEN FALSE ELSE inside)
  PROVE  Shifted(q, r, inside, now)
<1>1. /\ r \in Seq(Messages) /\ Len(r) \in Nat /\ Len(q) = Len(r) + 1 /\ Head(q) = q[1]
      /\ \A i \in 1 .. Len(r) : r[i] = q[i + 1]
  OBVIOUS
<1>2. ASSUME NEW i \in 1 .. Len(r) + 1, Entered(q, inside, i + 1)
      PROVE  Entered(r, now, i)
  <2>1. CASE inside /\ \A j \in 1 .. i : ~Closes(q[j])
    <3>1. now
      BY <1>1, <2>1
    <3>2. \A j \in 1 .. i - 1 : ~Closes(r[j])
      BY <1>1, <2>1
    <3> QED
      BY <3>1, <3>2 DEF Entered
  <2>2. CASE \E j \in 1 .. i : q[j] = "Enter" /\ \A k \in j + 1 .. i : ~Closes(q[k])
    <3>1. PICK j \in 1 .. i : q[j] = "Enter" /\ \A k \in j + 1 .. i : ~Closes(q[k])
      BY <2>2
    <3>2. CASE j = 1
      <4>1. \A k \in 1 .. i - 1 : ~Closes(r[k])
        BY <1>1, <3>1, <3>2
      <4> QED
        BY <1>1, <3>1, <3>2, <4>1 DEF Entered
    <3>3. CASE j # 1
      <4>1. j - 1 \in 1 .. i - 1 /\ r[j - 1] = "Enter"
        BY <1>1, <3>1, <3>3
      <4>2. \A k \in (j - 1) + 1 .. i - 1 : ~Closes(r[k])
        BY <1>1, <3>1, <3>3
      <4> QED
        BY <4>1, <4>2 DEF Entered
    <3> QED
      BY <3>2, <3>3
  <2> QED
    BY SMTT(30), <1>2, <2>1, <2>2 DEF Entered
<1>3. Informs(q, inside) => Informs(r, now)
  <2> SUFFICES ASSUME Informs(q, inside), NEW i \in 1 .. Len(r), r[i] \in {"Position", "Drop"}
               PROVE  Entered(r, now, i)
    BY DEF Informs
  <2>1. i + 1 \in 1 .. Len(q) /\ q[i + 1] = r[i]
    BY <1>1
  <2>2. Entered(q, inside, i + 1)
    BY <2>1 DEF Informs
  <2>3. i \in 1 .. Len(r) + 1
    BY <1>1
  <2> QED
    BY <1>2, <2>2, <2>3
<1> QED
  BY <1>1, <1>2, <1>3 DEF Shifted

-----------------------------------------------------------------------------
(* The source of XDND: what each operator does to the parts of a state.    *)

\* Only the action differs.
SameSources(x, y) ==
  \A n \in Drags :
    /\ y.src[n].alive = x.src[n].alive /\ y.src[n].attached = x.src[n].attached
    /\ y.src[n].state = x.src[n].state /\ y.src[n].performed = x.src[n].performed
    /\ y.src[n].ended = x.src[n].ended

\* What dnd.c does not see.
SameSeat(x, y) == y.s = x.s /\ y.f = x.f /\ y.dev = x.dev /\ y.o = x.o /\ y.crashed = x.crashed

\* The message went to the target, if there is one.
Sent(x, y, m) ==
  y.out = IF x.d.top = Nowhere \/ x.d.version < 3 THEN x.out
          ELSE [x.out EXCEPT ![x.d.top] = Append(@, m)]

LEMMA MessageIs ==
  ASSUME NEW x \in Working, NEW m \in Messages, x.d.top # Nowhere, NEW y, y = Message(x, m)
  PROVE  /\ y \in Working /\ SameSeat(x, y) /\ y.d = x.d /\ y.src = x.src
         /\ y.out = [x.out EXCEPT ![x.d.top] = Append(@, m)]
<1>1. x.d.top \in Toplevels
  BY DEF Working, DragState
<1>2. [x.out EXCEPT ![x.d.top] = Append(@, m)] \in [Toplevels -> Seq(Messages)]
  BY <1>1 DEF Working
<1> QED
  BY <1>1, <1>2 DEF Working, Message, SameSeat

LEMMA SendIs ==
  ASSUME NEW x \in Working, NEW m \in Messages, NEW y, y = Send(x, m)
  PROVE  /\ y \in Working /\ SameSeat(x, y) /\ y.d = x.d /\ y.src = x.src /\ Sent(x, y, m)
BY MessageIs DEF Send, Sent, SameSeat

LEMMA ReportIs ==
  ASSUME NEW x \in Working, NEW y, y = ReportStateToSource(x)
  PROVE  /\ y \in Working /\ SameSeat(x, y) /\ y.d = x.d /\ y.out = x.out /\ SameSources(x, y)
<1>1. CASE x.s.source = NoSource
  BY <1>1 DEF ReportStateToSource, SameSeat, SameSources
<1>2. CASE x.s.source # NoSource
  <2>1. x.s.source \in Drags /\ x.d.action \in Actions
    BY <1>2 DEF Working, Seat, DragState
  <2> DEFINE q == [x.src[x.s.source] EXCEPT !.action = x.d.action]
  <2>2. q \in Source
    <3>1. x.src[x.s.source] \in Source
      BY <2>1 DEF Working
    <3> QED
      BY <2>1, <3>1 DEF Source
  <2>3. y = [x EXCEPT !.src = [@ EXCEPT ![x.s.source] = q]]
    BY <1>2 DEF ReportStateToSource
  <2>4. q.alive = x.src[x.s.source].alive /\ q.attached = x.src[x.s.source].attached
        /\ q.state = x.src[x.s.source].state /\ q.performed = x.src[x.s.source].performed
        /\ q.ended = x.src[x.s.source].ended
    BY <2>1 DEF Working, Source
  <2> HIDE DEF q
  <2> QED
    BY ZenonT(30), <2>1, <2>2, <2>3, <2>4 DEF Working, SameSeat, SameSources
<1> QED
  BY <1>1, <1>2

\* A position: late ones may come after the target was left.
Positioned(x, y) ==
  \/ y.out = x.out
  \/ /\ x.d.seat /\ x.d.top # Nowhere /\ x.d.version >= 3
     /\ \E m \in {"Position", "LatePosition"} :
          /\ y.out = [x.out EXCEPT ![x.d.top] = Append(@, m)]
          /\ m = "Position" => x.f.source = NoSource \/ "PendingDrop" \in x.d.flags

\* Only what was not answered changes.
SameDrag(x, y) ==
  /\ y.d.seat = x.d.seat /\ y.d.top = x.d.top /\ y.d.version = x.d.version
  /\ y.d.selection = x.d.selection
  /\ \A a \in Flags : a \notin {"PendingPosition", "WaitingForStatus"} => (a \in y.d.flags <=> a \in x.d.flags)
  /\ ~x.d.seat => y.d.flags = x.d.flags

LEMMA SendPositionIs ==
  ASSUME NEW x \in Working, NEW inside \in BOOLEAN, NEW y, y = SendPosition(x, inside),
         x.d.seat => x.s.source # NoSource \/ x.f.source # NoSource
  PROVE  y \in Working /\ SameSeat(x, y) /\ y.src = x.src /\ SameDrag(x, y) /\ Positioned(x, y)
<1> DEFINE flags(F) == [x EXCEPT !.d = [@ EXCEPT !.flags = F]]
<1>1. ASSUME NEW F \in SUBSET Flags, NEW z, z = flags(F),
             \A a \in Flags : a \notin {"PendingPosition", "WaitingForStatus"} => (a \in F <=> a \in x.d.flags),
             x.d.seat
      PROVE  z \in Working /\ SameSeat(x, z) /\ z.src = x.src /\ SameDrag(x, z) /\ z.out = x.out
             /\ z.d.top = x.d.top
  <2>1. x.d \in DragState
    BY DEF Working
  <2>2. [x.d EXCEPT !.flags = F] \in DragState
    BY <2>1 DEF DragState
  <2> QED
    BY <1>1, <2>1, <2>2 DEF Working, SameSeat, SameDrag, DragState
<1> DEFINE y0 == [x EXCEPT !.d.flags = @ \ {"PendingPosition"}]
           late == x.f.source # NoSource /\ "PendingDrop" \notin x.d.flags
           m == IF late THEN "LatePosition" ELSE "Position"
           sent == IF x.d.top = Nowhere THEN y0 ELSE Message(y0, m)
           w == [sent EXCEPT !.d.flags = @ \cup {"WaitingForStatus"}]
<1>2. x.d \in DragState /\ x.d.flags \subseteq Flags
  BY DEF Working, DragState
<1>3. y0 = flags(x.d.flags \ {"PendingPosition"})
  BY SMTT(30) DEF Working
<1>4. CASE ~x.d.seat \/ x.d.version < 3
  BY ZenonT(30), <1>4 DEF SendPosition, SameSeat, SameDrag, Positioned
<1>5. CASE x.d.seat /\ ~(x.d.version < 3) /\ "WaitingForStatus" \in x.d.flags
  <2>1. CASE "PendingDrop" \in x.d.flags
    BY <1>5, <2>1 DEF SendPosition, SameSeat, SameDrag, Positioned
  <2>2. CASE "PendingDrop" \notin x.d.flags
    <3> DEFINE F == x.d.flags \cup {"PendingPosition"}
    <3>1. F \subseteq Flags /\ \A a \in Flags : a \notin {"PendingPosition", "WaitingForStatus"} => (a \in F <=> a \in x.d.flags)
      BY <1>2 DEF Flags, PerTarget
    <3>2. y = flags(F)
      BY <1>5, <2>2 DEF SendPosition, Working
    <3> HIDE DEF F, flags
    <3> QED
      BY <1>1, <1>5, <3>1, <3>2 DEF Positioned
  <2> QED
    BY <2>1, <2>2
<1>6. CASE x.d.seat /\ ~(x.d.version < 3) /\ "WaitingForStatus" \notin x.d.flags
  <2>1. y0 \in Working /\ SameSeat(x, y0) /\ y0.src = x.src /\ SameDrag(x, y0) /\ y0.out = x.out /\ y0.d.top = x.d.top
    <3> DEFINE F == x.d.flags \ {"PendingPosition"}
    <3>1. F \subseteq Flags /\ \A a \in Flags : a \notin {"PendingPosition", "WaitingForStatus"} => (a \in F <=> a \in x.d.flags)
      BY SMTT(30), <1>2
    <3> HIDE DEF F, flags, y0
    <3> QED
      BY <1>1, <1>3, <1>6, <3>1 DEF F
  <2>2. y = y0 \/ y = w
    BY <1>6 DEF SendPosition, NoSource
  <2>3. ASSUME y = y0
        PROVE  y \in Working /\ SameSeat(x, y) /\ y.src = x.src /\ SameDrag(x, y) /\ Positioned(x, y)
    BY <2>1, <2>3 DEF Positioned
  <2>4. ASSUME y = w
        PROVE  y \in Working /\ SameSeat(x, y) /\ y.src = x.src /\ SameDrag(x, y) /\ Positioned(x, y)
    <3>1. sent \in Working /\ SameSeat(x, sent) /\ sent.src = x.src /\ sent.d = y0.d
          /\ sent.out = IF x.d.top = Nowhere THEN x.out ELSE [x.out EXCEPT ![x.d.top] = Append(@, m)]
      <4> HIDE DEF y0
      <4>1. CASE x.d.top = Nowhere
        BY <2>1, <4>1
      <4>2. CASE x.d.top # Nowhere
        <5>1. m \in Messages
          BY DEF Messages
        <5> HIDE DEF m
        <5>0. PICK z : z = y0
          OBVIOUS
        <5>1a. PICK M : M = Message(z, m)
          OBVIOUS
        <5>1b. z \in Working /\ z.d.top # Nowhere
          BY <2>1, <4>2, <5>0
        <5>2. M \in Working /\ SameSeat(z, M) /\ M.d = z.d /\ M.src = z.src
              /\ M.out = [z.out EXCEPT ![z.d.top] = Append(@, m)]
          BY <5>1, <5>1a, <5>1b, MessageIs
        <5>3. M \in Working /\ SameSeat(x, M) /\ M.src = x.src /\ M.d = y0.d
              /\ M.out = [x.out EXCEPT ![x.d.top] = Append(@, m)]
          BY <2>1, <5>0, <5>2 DEF SameSeat
        <5>4. sent = M
          BY <4>2, <5>0, <5>1a
        <5> QED
          BY <4>2, <5>3, <5>4
      <4> QED
        BY <4>1, <4>2
    <3> HIDE DEF sent
    <3>2. sent.d \in DragState
      BY <3>1 DEF Working
    <3>3. [sent.d EXCEPT !.flags = @ \cup {"WaitingForStatus"}] \in DragState
      BY <3>2 DEF DragState, Flags, PerTarget
    <3>4. y \in Working /\ SameSeat(sent, y) /\ y.src = sent.src /\ y.out = sent.out
          /\ y.d = [sent.d EXCEPT !.flags = @ \cup {"WaitingForStatus"}]
      BY <2>4, <3>1, <3>3 DEF Working, SameSeat
    <3>5. SameDrag(x, y)
      <4> HIDE DEF y0
      <4>1. /\ y.d.flags = y0.d.flags \cup {"WaitingForStatus"}
            /\ y.d.seat = y0.d.seat /\ y.d.top = y0.d.top /\ y.d.version = y0.d.version
            /\ y.d.selection = y0.d.selection
        BY <3>1, <3>2, <3>4 DEF DragState
      <4>2. \A a \in Flags : a \notin {"PendingPosition", "WaitingForStatus"} =>
                              (a \in y.d.flags <=> a \in x.d.flags)
        BY <2>1, <4>1 DEF SameDrag
      <4> QED
        BY <1>6, <2>1, <4>1, <4>2 DEF SameDrag
    <3>6. Positioned(x, y)
      <4>1. CASE x.d.top = Nowhere
        BY <3>1, <3>4, <4>1 DEF Positioned
      <4>2. CASE x.d.top # Nowhere
        <5>1. m \in {"Position", "LatePosition"} /\ (m = "Position" => x.f.source = NoSource \/ "PendingDrop" \in x.d.flags)
          OBVIOUS
        <5>2. y.out = [x.out EXCEPT ![x.d.top] = Append(@, m)]
          BY <3>1, <3>4, <4>2
        <5>3. x.d.version >= 3
          BY <1>2, <1>6 DEF DragState
        <5> HIDE DEF m
        <5> QED
          BY <1>6, <4>2, <5>1, <5>2, <5>3 DEF Positioned
      <4> QED
        BY <4>1, <4>2
    <3> QED
      BY <3>1, <3>4, <3>5, <3>6 DEF SameSeat
  <2> HIDE DEF y0, w
  <2> QED
    BY <2>2, <2>3, <2>4
<1> QED
  BY <1>4, <1>5, <1>6

Left(x, y) ==
  /\ SameSeat(x, y) /\ SameSources(x, y) /\ Sent(x, y, "Leave")
  /\ y.d = [x.d EXCEPT !.top = Nowhere, !.version = 0, !.action = "none", !.flags = @ \ PerTarget]

LEMMA LeaveTargetIs ==
  ASSUME NEW x \in Working, NEW y, y = LeaveTarget(x)
  PROVE  y \in Working /\ Left(x, y)
<1>1. PICK z : z = SendLeave(x)
  OBVIOUS
<1>2. z \in Working /\ SameSeat(x, z) /\ z.d = x.d /\ z.src = x.src /\ Sent(x, z, "Leave")
  BY <1>1, SendIs DEF SendLeave, Messages
<1>3. PICK d : d = [x.d EXCEPT !.top = Nowhere, !.version = 0, !.action = "none", !.flags = @ \ PerTarget]
  OBVIOUS
<1>4. d \in DragState
  <2>1. x.d \in DragState
    BY DEF Working
  <2> QED
    BY <1>3, <2>1 DEF DragState, Actions
<1>5. PICK w : w = [z EXCEPT !.d = d]
  OBVIOUS
<1>6. w \in Working /\ SameSeat(x, w) /\ w.d = d /\ w.src = x.src /\ w.out = z.out
  BY <1>2, <1>4, <1>5 DEF Working, SameSeat
<1>7. w = [SendLeave(x) EXCEPT !.d.top = Nowhere, !.d.version = 0, !.d.action = "none",
                             !.d.flags = @ \ PerTarget]
  BY <1>1, <1>2, <1>3, <1>5 DEF Working, DragState
<1>8. y = ReportStateToSource(w)
  BY <1>7 DEF LeaveTarget
<1>9. y \in Working /\ SameSeat(w, y) /\ y.d = w.d /\ y.out = w.out /\ SameSources(w, y)
  BY <1>6, <1>8, ReportIs
<1> QED
  BY <1>2, <1>3, <1>6, <1>9 DEF Left, SameSeat, SameSources, Sent

Finished(x, y) ==
  /\ SameSeat(x, y) /\ y.src = x.src /\ Sent(x, y, "Leave")
  /\ y.d = [x.d EXCEPT !.seat = FALSE, !.top = Nowhere, !.flags = {}, !.selection = NoSource]

LEMMA FinishDragIs ==
  ASSUME NEW x \in Working, NEW y, y = FinishDrag(x)
  PROVE  y \in Working /\ Finished(x, y)
<1>1. PICK z : z = SendLeave(x)
  OBVIOUS
<1>2. z \in Working /\ SameSeat(x, z) /\ z.d = x.d /\ z.src = x.src /\ Sent(x, z, "Leave")
  BY <1>1, SendIs DEF SendLeave, Messages
<1>3. PICK d : d = [x.d EXCEPT !.seat = FALSE, !.top = Nowhere, !.flags = {}, !.selection = NoSource]
  OBVIOUS
<1>4. d \in DragState
  <2>1. x.d \in DragState
    BY DEF Working
  <2> QED
    BY <1>3, <2>1 DEF DragState
<1>5. y = [z EXCEPT !.d = d]
  BY <1>1, <1>2, <1>3 DEF FinishDrag, Working, DragState
<1> QED
  BY <1>2, <1>3, <1>4, <1>5 DEF Working, SameSeat, Finished, Sent

\* A drop is being waited for.
Waited(x, y) ==
  /\ y.s = x.s /\ y.d = x.d /\ y.src = x.src /\ y.dev = x.dev /\ y.o = x.o /\ y.out = x.out
  /\ y.crashed = x.crashed
  /\ y.f.source = x.s.source /\ y.f.key = x.s.source /\ y.f.timeout = x.s.source
  /\ y.f.registered = x.f.registered \cup {x.s.source} /\ y.f.timers = x.f.timers \cup {x.s.source}

LEMMA StartFinishTimeoutIs ==
  ASSUME NEW x \in Working, x.s.source # NoSource, NEW y, y = StartFinishTimeout(x)
  PROVE  y \in Working /\ Waited(x, y)
<1>1. x.s.source \in Drags /\ x.f \in FinishState /\ x.d.version \in Nat /\ x.d.action \in Actions
  BY DEF Working, Seat, DragState
<1>2. PICK f : f = [source |-> x.s.source, key |-> x.s.source, registered |-> x.f.registered \cup {x.s.source},
                    timers |-> x.f.timers \cup {x.s.source}, timeout |-> x.s.source,
                    version |-> x.d.version, action |-> x.d.action]
  OBVIOUS
<1>3. f \in FinishState
  BY <1>1, <1>2 DEF FinishState
<1>4. y = [x EXCEPT !.f = f]
  BY <1>2 DEF StartFinishTimeout, Working
<1>5. /\ f.source = x.s.source /\ f.key = x.s.source /\ f.timeout = x.s.source
      /\ f.registered = x.f.registered \cup {x.s.source} /\ f.timers = x.f.timers \cup {x.s.source}
  BY <1>2
<1>6. y \in Working /\ y.f = f /\ y.s = x.s /\ y.d = x.d /\ y.src = x.src /\ y.dev = x.dev
      /\ y.o = x.o /\ y.out = x.out /\ y.crashed = x.crashed
  BY <1>3, <1>4 DEF Working
<1> QED
  BY <1>5, <1>6 DEF Waited

\* Source n was told of a drop, or of none.
Performed(x, y, n) ==
  /\ \A m \in Drags : /\ y.src[m].alive = x.src[m].alive /\ y.src[m].attached = x.src[m].attached
                      /\ y.src[m].state = x.src[m].state /\ y.src[m].action = x.src[m].action
                      /\ y.src[m].ended = x.src[m].ended
                      /\ m # n => y.src[m].performed = x.src[m].performed
  /\ x.src[n].performed > 0 => y.src[n].performed > 0

LEMMA PerformedIs ==
  ASSUME NEW x \in Working, NEW n \in Drags, NEW y, y = XLDataSourceSendDropPerformed(x, n)
  PROVE  /\ y \in Working /\ SameSeat(x, y) /\ y.d = x.d /\ y.out = x.out
         /\ Performed(x, y, n) /\ y.src[n].performed > 0
<1>1. x.src \in [Drags -> Source] /\ x.src[n] \in Source
  BY DEF Working
<1>2. PICK q : q = [x.src[n] EXCEPT !.performed = @ + 1]
  OBVIOUS
<1>3. /\ q \in Source /\ q.performed > 0 /\ q.alive = x.src[n].alive /\ q.attached = x.src[n].attached
      /\ q.state = x.src[n].state /\ q.action = x.src[n].action /\ q.ended = x.src[n].ended
  <2>1. PICK r : r = x.src[n]
    OBVIOUS
  <2>2. r \in Source /\ q = [r EXCEPT !.performed = @ + 1]
    BY <1>1, <1>2, <2>1
  <2>3. q \in Source
    BY <2>2 DEF Source
  <2>4. /\ q.performed = r.performed + 1 /\ r.performed \in Nat /\ q.alive = r.alive
        /\ q.attached = r.attached /\ q.state = r.state /\ q.action = r.action /\ q.ended = r.ended
    BY <2>2 DEF Source
  <2> QED
    BY <2>1, <2>3, <2>4
<1>4. y = [x EXCEPT !.src = [x.src EXCEPT ![n] = q]]
  BY <1>2 DEF XLDataSourceSendDropPerformed
<1>5. y.src = [x.src EXCEPT ![n] = q] /\ y.src \in [Drags -> Source]
  BY <1>1, <1>3, <1>4 DEF Working
<1>6. y \in Working /\ SameSeat(x, y) /\ y.d = x.d /\ y.out = x.out
  BY <1>4, <1>5 DEF Working, SameSeat
<1>7. Performed(x, y, n) /\ y.src[n].performed > 0
  BY <1>1, <1>3, <1>5 DEF Performed
<1> QED
  BY <1>6, <1>7

\* The drop went to the target, if there is one that speaks the protocol.
Dropped(x, y) == SameSeat(x, y) /\ y.d = x.d /\ Sent(x, y, "Drop") /\ Performed(x, y, x.f.source)

LEMMA SendDropIs ==
  ASSUME NEW x \in Working, x.f.source # NoSource, NEW y, y = SendDrop(x)
  PROVE  y \in Working /\ Dropped(x, y)
<1>1. CASE x.d.top = Nowhere \/ x.d.version < 3
  BY <1>1 DEF SendDrop, Dropped, SameSeat, Sent, Performed
<1>2. CASE ~(x.d.top = Nowhere \/ x.d.version < 3)
  <2>1. PICK z : z = Message(x, "Drop")
    OBVIOUS
  <2>2. z \in Working /\ SameSeat(x, z) /\ z.d = x.d /\ z.src = x.src
        /\ z.out = [x.out EXCEPT ![x.d.top] = Append(@, "Drop")]
    BY <1>2, <2>1, MessageIs DEF Messages
  <2>3. y = XLDataSourceSendDropPerformed(z, x.f.source)
    BY <1>2, <2>1 DEF SendDrop
  <2>4. x.f.source \in Drags
    BY DEF Working, FinishState
  <2>5. /\ y \in Working /\ SameSeat(z, y) /\ y.d = z.d /\ y.out = z.out
        /\ Performed(z, y, x.f.source)
    BY <2>2, <2>3, <2>4, PerformedIs
  <2> QED
    BY <1>2, <2>2, <2>5 DEF Dropped, SameSeat, Sent, Performed
<1> QED
  BY <1>1, <1>2

-----------------------------------------------------------------------------
(* What the messages are to the targets. *)

Queued(x, y, in, t, m) ==
  /\ AllInform(y, in)
  /\ m = "Enter" => Ready(y, in, t)
  /\ ~Closes(m) /\ Ready(x, in, t) => Ready(y, in, t)

LEMMA PutInforms ==
  ASSUME NEW in \in [Toplevels -> BOOLEAN], NEW x \in Working, NEW y \in Working,
         NEW t \in Toplevels, NEW m \in Messages,
         y.out = [x.out EXCEPT ![t] = Append(@, m)],
         AllInform(x, in), m \in {"Position", "Drop"} => Ready(x, in, t)
  PROVE  Queued(x, y, in, t, m)
<1>1. x.out \in [Toplevels -> Seq(Messages)] /\ x.out[t] \in Seq(Messages) /\ in[t] \in BOOLEAN
  BY DEF Working
<1>2. y.out[t] = Append(x.out[t], m) /\ \A u \in Toplevels : u # t => y.out[u] = x.out[u]
  BY <1>1
<1>3. Longer(x.out[t], y.out[t], m, in[t])
  BY ZenonT(30), <1>1, <1>2, EnteredLater
<1>4. Informs(y.out[t], in[t])
  <2>1. Informs(x.out[t], in[t]) /\ (m \in {"Position", "Drop"} => Entered(x.out[t], in[t], Len(x.out[t]) + 1))
    BY DEF AllInform, Ready
  <2>2. PICK q \in Seq(Messages) : q = x.out[t]
    BY <1>1
  <2>3. PICK b \in BOOLEAN : b = in[t]
    BY <1>1
  <2>4. PICK r : r = Append(q, m)
    OBVIOUS
  <2>5. Informs(q, b) /\ (m \in {"Position", "Drop"} => Entered(q, b, Len(q) + 1))
    BY <2>1, <2>2, <2>3
  <2>6. Informs(r, b)
    BY <2>4, <2>5, AppendInforms
  <2> QED
    BY <1>2, <2>2, <2>3, <2>4, <2>6
<1>5. AllInform(y, in)
  BY <1>2, <1>4 DEF AllInform
<1> QED
  BY <1>3, <1>5 DEF Queued, Ready, Longer

LEMMA PutDrops ==
  ASSUME NEW x \in Working, NEW y \in Working,
         NEW t \in Toplevels, NEW m \in Messages,
         y.out = [x.out EXCEPT ![t] = Append(@, m)]
  PROVE  /\ m # "Drop" => SameDrops(x, y)
         /\ m = "Drop" => \A u \in Toplevels, i \in Nat :
                            DropAt(y, u, i) <=> DropAt(x, u, i) \/ (u = t /\ i = Len(x.out[t]) + 1)
<1>1. x.out \in [Toplevels -> Seq(Messages)] /\ x.out[t] \in Seq(Messages)
  BY DEF Working
<1>2. y.out[t] = Append(x.out[t], m) /\ \A u \in Toplevels : u # t => y.out[u] = x.out[u]
  BY <1>1
<1>3. /\ DOMAIN x.out[t] = 1 .. Len(x.out[t]) /\ DOMAIN y.out[t] = 1 .. Len(x.out[t]) + 1
      /\ Len(x.out[t]) \in Nat
      /\ y.out[t][Len(x.out[t]) + 1] = m
      /\ \A i \in 1 .. Len(x.out[t]) : y.out[t][i] = x.out[t][i]
  BY <1>1, <1>2
<1>4. ASSUME NEW i \in Nat
      PROVE  DropAt(y, t, i) <=> DropAt(x, t, i) \/ (m = "Drop" /\ i = Len(x.out[t]) + 1)
  BY <1>3 DEF DropAt
<1>5. ASSUME NEW i \in Nat, NEW u \in Toplevels, u # t
      PROVE  DropAt(y, u, i) <=> DropAt(x, u, i)
  BY <1>2, <1>5 DEF DropAt
<1> QED
  BY <1>4, <1>5 DEF SameDrops

\* A message to leave is no drop and asks nothing of the target.
LEMMA LeaveInforms ==
  ASSUME NEW in \in [Toplevels -> BOOLEAN], NEW x \in Working, NEW y \in Working,
         Sent(x, y, "Leave")
  PROVE  SameDrops(x, y) /\ (AllInform(x, in) => AllInform(y, in))
<1>1. CASE x.d.top = Nowhere \/ x.d.version < 3
  BY <1>1 DEF Sent, SameDrops, DropAt, AllInform
<1>2. CASE ~(x.d.top = Nowhere \/ x.d.version < 3)
  <2>1. x.d.top \in Toplevels /\ "Leave" \in Messages
    BY <1>2 DEF Working, DragState, Messages
  <2>2. y.out = [x.out EXCEPT ![x.d.top] = Append(@, "Leave")]
    BY <1>2 DEF Sent
  <2>3. SameDrops(x, y)
    BY <2>1, <2>2, PutDrops
  <2>4. AllInform(x, in) => Queued(x, y, in, x.d.top, "Leave")
    BY <2>1, <2>2, PutInforms
  <2> QED
    BY <2>3, <2>4 DEF Queued
<1> QED
  BY <1>1, <1>2

LEMMA PositionInforms ==
  ASSUME NEW in \in [Toplevels -> BOOLEAN], NEW x \in Working, NEW y \in Working,
         SameSeat(x, y), SameDrag(x, y), Positioned(x, y)
  PROVE  SameDrops(x, y) /\ (Targeted(x, in) => Targeted(y, in))
<1>1. CASE y.out = x.out
  BY <1>1 DEF SameDrops, DropAt, AllInform, Targeted, Ready, SameSeat, SameDrag, Flags, PerTarget
<1>2. CASE /\ x.d.seat /\ x.d.top # Nowhere /\ x.d.version >= 3
           /\ \E m \in {"Position", "LatePosition"} :
                /\ y.out = [x.out EXCEPT ![x.d.top] = Append(@, m)]
                /\ m = "Position" => x.f.source = NoSource \/ "PendingDrop" \in x.d.flags
  <2>1. PICK m \in {"Position", "LatePosition"} :
          /\ y.out = [x.out EXCEPT ![x.d.top] = Append(@, m)]
          /\ m = "Position" => x.f.source = NoSource \/ "PendingDrop" \in x.d.flags
    BY <1>2
  <2>2. x.d.top \in Toplevels /\ m \in Messages /\ m # "Drop" /\ ~Closes(m)
    BY <1>2, <2>1 DEF Working, DragState, Messages, Closes
  <2>3. SameDrops(x, y)
    BY <2>1, <2>2, PutDrops
  <2>4. ASSUME Targeted(x, in)
        PROVE  Targeted(y, in)
    <3>1. Queued(x, y, in, x.d.top, m)
      BY <1>2, <2>1, <2>2, <2>4, PutInforms DEF Targeted
    <3>2. /\ y.d.top = x.d.top /\ y.d.version = x.d.version /\ y.f = x.f
          /\ "PendingDrop" \in y.d.flags <=> "PendingDrop" \in x.d.flags
      BY DEF SameSeat, SameDrag, Flags, PerTarget
    <3> QED
      BY <2>2, <2>4, <3>1, <3>2 DEF Targeted, Queued
  <2> QED
    BY <2>3, <2>4
<1> QED
  BY <1>1, <1>2 DEF Positioned

-----------------------------------------------------------------------------
(* Steps of the drag itself. *)

OnlyDrag(x, y) ==
  /\ SameSeat(x, y) /\ SameSources(x, y) /\ SameDrops(x, y)
  /\ "PendingDrop" \in y.d.flags => "PendingDrop" \in x.d.flags

LEMMA OnlyDragTwice ==
  ASSUME NEW x, NEW y, NEW z, OnlyDrag(x, y), OnlyDrag(y, z)
  PROVE  OnlyDrag(x, z)
BY DEF OnlyDrag, SameSeat, SameSources, SameDrops

LEMMA SteadyDrag ==
  ASSUME NEW x \in Working, NEW y \in Working, Steady(x), OnlyDrag(x, y),
         y.d.seat => x.s.dragging \/ x.f.source # NoSource,
         ~y.d.seat => y.d.top = Nowhere /\ y.d.flags = {},
         Selected(y),
         x.s.dragging => x.s.over = Nowhere \/ (y.d.top = Nowhere /\ y.src = x.src)
  PROVE  Steady(y)
<1>1. Begun(y)
  <2>1. y.s.source # NoSource => y.s.source \in Drags
    BY DEF Working, Seat
  <2> QED
    BY <2>1 DEF Steady, Begun, OnlyDrag, SameSeat, SameSources
<1>2. Over(y) /\ Agreed(y)
  BY DEF Steady, Over, Agreed, OnlyDrag, SameSeat
<1>3. Watched(y)
  <2>1. y.f.source # NoSource => y.f.source \in Drags
    BY DEF Working, FinishState
  <2> QED
    BY <2>1 DEF Steady, Watched, OnlyDrag, SameSeat, SameSources
<1> QED
  BY <1>1, <1>2, <1>3 DEF Steady, OnlyDrag, SameSeat

LEMMA LeftSound ==
  ASSUME NEW in \in [Toplevels -> BOOLEAN], NEW x \in Working, NEW y \in Working,
         AllInform(x, in), x.d.seat, Left(x, y)
  PROVE  /\ OnlyDrag(x, y) /\ Targeted(y, in) /\ y.d.top = Nowhere /\ y.d.seat
         /\ "PendingDrop" \notin y.d.flags /\ y.d.selection = x.d.selection
         /\ "SelectionSet" \in y.d.flags <=> "SelectionSet" \in x.d.flags
<1>1. x.d \in DragState
  BY DEF Working
<1>2. /\ y.d.top = Nowhere /\ y.d.seat /\ y.d.flags = x.d.flags \ PerTarget /\ y.d.selection = x.d.selection
  BY <1>1 DEF Left, DragState
<1>3. "PendingDrop" \in PerTarget /\ "SelectionSet" \notin PerTarget
  BY DEF PerTarget
<1>4. SameDrops(x, y) /\ AllInform(y, in)
  BY LeaveInforms DEF Left
<1> QED
  BY <1>2, <1>3, <1>4 DEF Left, OnlyDrag, Targeted

LEMMA DragLeaveSound ==
  ASSUME NEW in \in [Toplevels -> BOOLEAN], NEW x \in Working, Steady(x), Targeted(x, in), x.s.dragging,
         NEW y, y = XLDoDragLeave(x)
  PROVE  y \in Working /\ Steady(y) /\ Targeted(y, in) /\ OnlyDrag(x, y) /\ y.d.top = Nowhere
<1>1. CASE x.d.seat /\ x.d.top # Nowhere
  <2>1. y \in Working /\ Left(x, y)
    BY <1>1, LeaveTargetIs DEF XLDoDragLeave
  <2>2. /\ OnlyDrag(x, y) /\ Targeted(y, in) /\ y.d.top = Nowhere /\ y.d.seat
        /\ y.d.selection = x.d.selection
        /\ "SelectionSet" \in y.d.flags <=> "SelectionSet" \in x.d.flags
    BY <1>1, <2>1, LeftSound DEF Targeted
  <2>3. Selected(y)
    BY <2>2 DEF Selected, Steady, OnlyDrag, SameSeat
  <2>4. x.s.over = Nowhere
    BY <1>1 DEF Steady, Over
  <2> QED
    BY <2>1, <2>2, <2>3, <2>4, SteadyDrag
<1>2. CASE ~(x.d.seat /\ x.d.top # Nowhere)
  <2>1. y = x /\ y.d.top = Nowhere
    BY <1>2 DEF XLDoDragLeave, Steady, Begun
  <2> QED
    BY <2>1 DEF OnlyDrag, SameSeat, SameSources, SameDrops
<1> QED
  BY <1>1, <1>2

LEMMA EnterIs ==
  ASSUME Parameters, NEW in \in [Toplevels -> BOOLEAN], NEW x \in Working, AllInform(x, in), x.d.seat,
         NEW top \in Toplevels,
         NEW y, y = SendEnter(ReadProtocolProperties(x, top))
  PROVE  /\ y \in Working /\ OnlyDrag(x, y) /\ Targeted(y, in) /\ y.d.seat
         /\ y.d.flags = x.d.flags /\ y.d.selection = x.d.selection
<1>1. PICK d : d = [x.d EXCEPT !.top = top, !.version = XdndVersion[top]]
  OBVIOUS
<1>2. /\ d \in DragState /\ d.top = top /\ d.seat = x.d.seat /\ d.flags = x.d.flags
      /\ d.selection = x.d.selection
  <2>1. x.d \in DragState /\ XdndVersion[top] \in Nat
    BY DEF Working, Parameters
  <2> QED
    BY <1>1, <2>1 DEF DragState
<1>3. PICK z : z = [x EXCEPT !.d = d]
  OBVIOUS
<1>4. z \in Working /\ SameSeat(x, z) /\ z.src = x.src /\ z.d = d /\ z.out = x.out
  BY <1>2, <1>3 DEF Working, SameSeat
<1>5. z = ReadProtocolProperties(x, top)
  BY <1>1, <1>3 DEF ReadProtocolProperties, Working
<1>6. y \in Working /\ SameSeat(z, y) /\ y.d = z.d /\ y.src = z.src /\ Sent(z, y, "Enter")
  BY <1>4, <1>5, SendIs DEF SendEnter, Messages
<1>7. top # Nowhere
  BY DEF Parameters
<1>8. SameDrops(x, y) /\ Targeted(y, in)
  <2>1. CASE d.version < 3
    <3>1. y.out = x.out
      BY <1>4, <1>6, <2>1 DEF Sent
    <3>2. ~(y.d.version >= 3)
      BY <1>2, <1>4, <1>6, <2>1 DEF DragState
    <3> QED
      BY <3>1, <3>2 DEF SameDrops, DropAt, AllInform, Targeted
  <2>2. CASE ~(d.version < 3)
    <3>1. y.out = [x.out EXCEPT ![top] = Append(@, "Enter")]
      BY <1>2, <1>4, <1>6, <1>7, <2>2 DEF Sent
    <3>2. "Enter" \in Messages
      BY DEF Messages
    <3>3. SameDrops(x, y)
      BY <1>6, <3>1, <3>2, PutDrops
    <3>4. Queued(x, y, in, top, "Enter")
      BY <1>6, <3>1, <3>2, PutInforms
    <3> QED
      BY <1>2, <1>4, <1>6, <3>3, <3>4 DEF Queued, Targeted
  <2> QED
    BY <2>1, <2>2
<1> QED
  BY <1>2, <1>4, <1>6, <1>8 DEF OnlyDrag, SameSeat, SameSources

LEMMA DragMotionSound ==
  ASSUME Parameters, NEW in \in [Toplevels -> BOOLEAN], NEW x \in Working, Steady(x), Targeted(x, in),
         x.s.dragging, x.s.over = Nowhere,
         NEW top \in Toplevels \cup {Nowhere}, NEW owns \in BOOLEAN, NEW inside \in BOOLEAN,
         NEW r, r = XLDoDragMotion(x, top, owns, inside)
  PROVE  r \in Working /\ Steady(r) /\ Targeted(r, in) /\ OnlyDrag(x, r)
<1>1. /\ x.f.source = NoSource /\ x.s.source \in Drags /\ x.d \in DragState
      /\ "PendingDrop" \notin x.d.flags
  BY DEF Steady, Begun, Working, Seat
<1>2. PICK y : y = IF x.d.seat THEN x ELSE [x EXCEPT !.d.seat = TRUE, !.d.shift = x.s.shift]
  OBVIOUS
<1>3. /\ y \in Working /\ SameSeat(x, y) /\ y.src = x.src /\ y.out = x.out /\ y.d.seat
      /\ y.d.top = x.d.top /\ y.d.flags = x.d.flags /\ y.d.version = x.d.version
      /\ y.d.selection = x.d.selection
  <2>1. CASE x.d.seat
    BY <1>2, <2>1 DEF SameSeat
  <2>2. CASE ~x.d.seat
    <3>1. PICK d : d = [x.d EXCEPT !.seat = TRUE, !.shift = x.s.shift]
      OBVIOUS
    <3>2. /\ d \in DragState /\ d.seat /\ d.top = x.d.top /\ d.flags = x.d.flags /\ d.version = x.d.version
          /\ d.selection = x.d.selection
      <4>1. x.s.shift \in BOOLEAN
        BY DEF Working, Seat
      <4> QED
        BY <1>1, <3>1, <4>1 DEF DragState
    <3>3. y = [x EXCEPT !.d = d]
      BY <1>2, <2>2, <3>1 DEF Working
    <3> QED
      BY <3>2, <3>3 DEF Working, SameSeat
  <2> QED
    BY <2>1, <2>2
<1>4. PICK z : z = IF {"SelectionSet", "SelectionFailed"} \cap y.d.flags # {} THEN y
                   ELSE [y EXCEPT !.d.flags = @ \cup {IF owns THEN "SelectionSet" ELSE "SelectionFailed"},
                                  !.d.selection = IF owns THEN y.s.source ELSE @]
  OBVIOUS
<1>5. /\ z \in Working /\ SameSeat(x, z) /\ z.src = x.src /\ z.out = x.out /\ z.d.seat
      /\ z.d.top = x.d.top /\ z.d.version = x.d.version /\ "PendingDrop" \notin z.d.flags
      /\ "SelectionFailed" \in z.d.flags \/ "SelectionSet" \in z.d.flags
      /\ "SelectionSet" \in z.d.flags => z.d.selection = x.s.source
      /\ z.d.top # Nowhere => "SelectionSet" \in z.d.flags
  <2>1. CASE {"SelectionSet", "SelectionFailed"} \cap y.d.flags # {}
    <3>1. z = y
      BY <1>4, <2>1
    <3>2. "SelectionFailed" \in z.d.flags \/ "SelectionSet" \in z.d.flags
      BY <2>1, <3>1
    <3> QED
      BY <1>1, <1>3, <3>1, <3>2 DEF Steady, Selected, SameSeat
  <2>2. CASE {"SelectionSet", "SelectionFailed"} \cap y.d.flags = {}
    <3>1. PICK d : d = [y.d EXCEPT !.flags = @ \cup {IF owns THEN "SelectionSet" ELSE "SelectionFailed"},
                                   !.selection = IF owns THEN y.s.source ELSE @]
      OBVIOUS
    <3>2. y.d \in DragState /\ y.s.source \in Drags
      BY <1>1, <1>3 DEF Working, SameSeat
    <3>3. /\ d \in DragState /\ d.seat = y.d.seat /\ d.top = y.d.top /\ d.version = y.d.version
          /\ d.flags = y.d.flags \cup {IF owns THEN "SelectionSet" ELSE "SelectionFailed"}
          /\ owns => d.selection = y.s.source
      BY <3>1, <3>2 DEF DragState, Flags
    <3>4. z = [y EXCEPT !.d = d]
      BY <1>3, <1>4, <2>2, <3>1 DEF Working
    <3>5. z \in Working /\ z.d = d /\ SameSeat(y, z) /\ z.src = y.src /\ z.out = y.out
      BY <1>3, <3>3, <3>4 DEF Working, SameSeat
    <3>6. x.d.top = Nowhere
      BY <1>3, <2>2 DEF Steady, Selected
    <3>7. SameSeat(x, z) /\ z.src = x.src /\ z.out = x.out /\ z.d.seat /\ z.d.top = Nowhere
          /\ z.d.top = x.d.top /\ z.d.version = x.d.version
      BY <1>3, <3>3, <3>5, <3>6 DEF SameSeat
    <3>8. z.d.flags = x.d.flags \cup {IF owns THEN "SelectionSet" ELSE "SelectionFailed"}
      BY <1>3, <3>3, <3>5
    <3>9. "PendingDrop" \notin z.d.flags /\ ("SelectionFailed" \in z.d.flags \/ "SelectionSet" \in z.d.flags)
      BY <1>1, <3>8
    <3>10. "SelectionSet" \in z.d.flags => z.d.selection = x.s.source
      BY <1>3, <2>2, <3>3, <3>5, <3>8 DEF SameSeat
    <3> QED
      BY <3>5, <3>7, <3>9, <3>10
  <2> QED
    BY <2>1, <2>2
<1>6. OnlyDrag(x, z) /\ Targeted(z, in)
  BY <1>1, <1>5 DEF OnlyDrag, SameSources, SameDrops, DropAt, Targeted, AllInform, Ready, SameSeat
<1>7. CASE "SelectionFailed" \in z.d.flags
  <2>1. r = z
    BY <1>1, <1>2, <1>4, <1>7 DEF XLDoDragMotion
  <2>2. Selected(z)
    BY <1>5 DEF Selected, SameSeat
  <2> QED
    BY <1>5, <1>6, <2>1, <2>2, SteadyDrag
<1>8. CASE "SelectionFailed" \notin z.d.flags
  <2>1. PICK left : left = LeaveTarget(z)
    OBVIOUS
  <2>2. PICK entered : entered = SendEnter(ReadProtocolProperties(left, top))
    OBVIOUS
  <2>3. PICK w : w = IF top = z.d.top THEN z ELSE IF top = Nowhere THEN left ELSE entered
    BY SMTT(30)
  <2>4. r = SendPosition(w, inside)
    BY <1>1, <1>2, <1>4, <1>8, <2>1, <2>2, <2>3 DEF XLDoDragMotion
  <2>5. /\ left \in Working /\ OnlyDrag(z, left) /\ Targeted(left, in) /\ left.d.seat
        /\ left.d.selection = z.d.selection /\ "SelectionSet" \in left.d.flags
    <3>1. left \in Working /\ Left(z, left)
      BY <1>5, <2>1, LeaveTargetIs
    <3> QED
      BY <1>5, <1>6, <1>8, <3>1, LeftSound DEF Targeted
  <2>6. /\ w \in Working /\ OnlyDrag(z, w) /\ Targeted(w, in) /\ w.d.seat
        /\ w.d.selection = z.d.selection /\ "SelectionSet" \in w.d.flags
    <3>1. CASE top = z.d.top
      BY <1>5, <1>6, <1>8, <2>3, <3>1 DEF OnlyDrag, SameSeat, SameSources, SameDrops
    <3>2. CASE top # z.d.top /\ top = Nowhere
      BY <2>3, <2>5, <3>2
    <3>3. CASE top # z.d.top /\ top # Nowhere
      <4>1. /\ entered \in Working /\ OnlyDrag(left, entered) /\ Targeted(entered, in) /\ entered.d.seat
            /\ entered.d.flags = left.d.flags /\ entered.d.selection = left.d.selection
        BY <2>2, <2>5, <3>3, EnterIs DEF Targeted
      <4> QED
        BY <2>3, <2>5, <3>3, <4>1, OnlyDragTwice
    <3> QED
      BY <3>1, <3>2, <3>3
  <2>7. OnlyDrag(x, w)
    BY <1>6, <2>6, OnlyDragTwice
  <2>8. r \in Working /\ SameSeat(w, r) /\ r.src = w.src /\ SameDrag(w, r) /\ Positioned(w, r)
    <3>1. w.s.source # NoSource
      BY <1>1, <2>7 DEF OnlyDrag, SameSeat, NoSource, Drags
    <3> QED
      BY <2>4, <2>6, <3>1, SendPositionIs
  <2>9. SameDrops(w, r) /\ Targeted(r, in)
    BY <2>6, <2>8, PositionInforms
  <2>10. /\ r.d.seat /\ r.d.selection = x.s.source /\ "SelectionSet" \in r.d.flags
         /\ "PendingDrop" \in r.d.flags => "PendingDrop" \in w.d.flags
    BY <1>5, <1>8, <2>6, <2>8 DEF SameDrag, Flags, PerTarget
  <2>11. OnlyDrag(x, r)
    <3>1. OnlyDrag(w, r)
      BY <2>8, <2>9, <2>10 DEF OnlyDrag, SameSources
    <3> QED
      BY <2>7, <3>1, OnlyDragTwice
  <2>12. Selected(r)
    BY <2>10, <2>11 DEF Selected, OnlyDrag, SameSeat
  <2> QED
    BY <2>8, <2>9, <2>10, <2>11, <2>12, SteadyDrag
<1> QED
  BY <1>7, <1>8

-----------------------------------------------------------------------------
(* The data device, its offers and the sources. *)

\* What the outcome of every drag depends on.
SameSource(p, q) == q.alive = p.alive /\ q.performed = p.performed /\ q.ended = p.ended

SameOffer(p, q) == q.dropped => p.dropped /\ ("IsFinished" \in q.state <=> "IsFinished" \in p.state)

SameOutcome(x, y) ==
  /\ y.f = x.f /\ y.crashed = x.crashed
  /\ \A n \in Drags : SameSource(x.src[n], y.src[n])
  /\ \A k \in Offers : SameOffer(x.o[k], y.o[k])
  /\ SameDrops(x, y)
  /\ "PendingDrop" \in y.d.flags => "PendingDrop" \in x.d.flags

LEMMA SameOutcomeTwice ==
  ASSUME NEW x, NEW y, NEW z, SameOutcome(x, y), SameOutcome(y, z)
  PROVE  SameOutcome(x, z)
<1>1. \A n \in Drags : SameSource(x.src[n], z.src[n])
  BY DEF SameOutcome, SameSource
<1>2. \A k \in Offers : SameOffer(x.o[k], z.o[k])
  BY DEF SameOutcome, SameOffer
<1> QED
  BY <1>1, <1>2 DEF SameOutcome, SameDrops

LEMMA OnlyDragOutcome ==
  ASSUME NEW x, NEW y, OnlyDrag(x, y)
  PROVE  SameOutcome(x, y)
BY DEF OnlyDrag, SameOutcome, SameSeat, SameSources, SameSource, SameOffer

LEMMA SameDropsOut ==
  ASSUME NEW x, NEW y, y.out = x.out
  PROVE  SameDrops(x, y)
BY DEF SameDrops, DropAt

\* Source n becomes q.
SetSource(x, n, q) == [x EXCEPT !.src = [x.src EXCEPT ![n] = q]]

SourceSet(x, y, n, q) ==
  /\ SameSeat(x, y) /\ y.d = x.d /\ y.out = x.out
  /\ y.src[n] = q /\ \A m \in Drags : m # n => y.src[m] = x.src[m]

LEMMA SetSourceIs ==
  ASSUME NEW x \in Working, NEW n \in Drags, NEW q \in Source, NEW y, y = SetSource(x, n, q)
  PROVE  y \in Working /\ SourceSet(x, y, n, q)
<1>1. x.src \in [Drags -> Source]
  BY DEF Working
<1>2. [x.src EXCEPT ![n] = q] \in [Drags -> Source]
  BY <1>1
<1>3. y \in Working /\ SameSeat(x, y) /\ y.d = x.d /\ y.out = x.out /\ y.src = [x.src EXCEPT ![n] = q]
  BY <1>2 DEF SetSource, Working, SameSeat
<1> QED
  BY <1>1, <1>3 DEF SourceSet

SetOffer(x, k, q) == [x EXCEPT !.o = [x.o EXCEPT ![k] = q]]

OfferSet(x, y, k, q) ==
  /\ y.s = x.s /\ y.d = x.d /\ y.f = x.f /\ y.src = x.src /\ y.dev = x.dev
  /\ y.out = x.out /\ y.crashed = x.crashed
  /\ y.o[k] = q /\ \A l \in Offers : l # k => y.o[l] = x.o[l]

LEMMA SetOfferIs ==
  ASSUME NEW x \in Working, NEW k \in Offers, NEW q \in Offer, NEW y, y = SetOffer(x, k, q)
  PROVE  y \in Working /\ OfferSet(x, y, k, q)
<1>1. x.o \in [Offers -> Offer]
  BY DEF Working
<1>2. [x.o EXCEPT ![k] = q] \in [Offers -> Offer]
  BY <1>1
<1>3. y \in Working /\ y.s = x.s /\ y.d = x.d /\ y.f = x.f /\ y.src = x.src /\ y.dev = x.dev
      /\ y.out = x.out /\ y.crashed = x.crashed /\ y.o = [x.o EXCEPT ![k] = q]
  BY <1>2 DEF SetOffer, Working
<1> QED
  BY <1>1, <1>3 DEF OfferSet

\* n was told how its drag ended.
Ended(x, y, n, m) ==
  /\ SameSeat(x, y) /\ y.d = x.d /\ y.out = x.out
  /\ \A k \in Drags : k # n => y.src[k] = x.src[k]
  /\ y.src[n].alive = x.src[n].alive /\ y.src[n].performed = x.src[n].performed
  /\ y.src[n].ended = Append(x.src[n].ended, m)

LEMMA EndedIs ==
  ASSUME NEW x \in Working, NEW n \in Drags, NEW m \in {"cancelled", "finished"},
         NEW y, y = [x EXCEPT !.src[n].ended = Append(@, m)]
  PROVE  y \in Working /\ Ended(x, y, n, m)
<1>1. PICK p : p = x.src[n]
  OBVIOUS
<1>2. p \in Source
  BY <1>1 DEF Working
<1>3. PICK q : q = [p EXCEPT !.ended = Append(@, m)]
  OBVIOUS
<1>4. q \in Source
  <2>1. Append(p.ended, m) \in Seq({"cancelled", "finished"})
    BY <1>2 DEF Source
  <2>2. PICK e : e = Append(p.ended, m)
    OBVIOUS
  <2>3. q = [p EXCEPT !.ended = e]
    BY <1>3, <2>2
  <2> QED
    BY <1>2, <2>1, <2>2, <2>3 DEF Source
<1>5. q.alive = p.alive /\ q.performed = p.performed /\ q.ended = Append(p.ended, m)
  BY <1>2, <1>3 DEF Source
<1>6. y = SetSource(x, n, q)
  BY <1>1, <1>3 DEF SetSource, Working
<1>7. y \in Working /\ SourceSet(x, y, n, q)
  BY <1>4, <1>6, SetSourceIs
<1> QED
  BY <1>1, <1>5, <1>7 DEF Ended, SourceSet

\* A step of the data device: the drag goes on as it was.
OnlyDevice(x, y) ==
  /\ y.s = x.s /\ y.d = x.d /\ y.f = x.f /\ y.out = x.out /\ y.crashed = x.crashed
  /\ \A n \in Drags : SameSource(x.src[n], y.src[n])
  /\ \A k \in Offers : SameOffer(x.o[k], y.o[k])

LEMMA OnlyDeviceTwice ==
  ASSUME NEW x, NEW y, NEW z, OnlyDevice(x, y), OnlyDevice(y, z)
  PROVE  OnlyDevice(x, z)
<1>1. \A n \in Drags : SameSource(x.src[n], z.src[n])
  BY DEF OnlyDevice, SameSource
<1>2. \A k \in Offers : SameOffer(x.o[k], z.o[k])
  BY DEF OnlyDevice, SameOffer
<1> QED
  BY <1>1, <1>2 DEF OnlyDevice

LEMMA SteadyDevice ==
  ASSUME NEW in, NEW x \in Working, NEW y \in Working, OnlyDevice(x, y), Targeted(x, in),
         Begun(x), Selected(x), Watched(x), ~x.crashed, Over(y), Agreed(y)
  PROVE  Steady(y) /\ Targeted(y, in) /\ SameOutcome(x, y)
<1>1. Begun(y)
  <2>1. y.s.source # NoSource => y.s.source \in Drags
    BY DEF Working, Seat
  <2> QED
    BY <2>1 DEF Begun, OnlyDevice, SameSource
<1>2. Watched(y)
  <2>1. y.f.source # NoSource => y.f.source \in Drags
    BY DEF Working, FinishState
  <2> QED
    BY <2>1 DEF Watched, OnlyDevice, SameSource
<1>3. Selected(y) /\ ~y.crashed
  BY DEF Selected, OnlyDevice
<1>4. Targeted(y, in)
  BY DEF Targeted, OnlyDevice, AllInform, Ready
<1>5. SameOutcome(x, y)
  BY SameDropsOut DEF OnlyDevice, SameOutcome
<1> QED
  BY <1>1, <1>2, <1>3, <1>4, <1>5 DEF Steady

SetDevice(x, dev) == [x EXCEPT !.dev = dev]

DeviceSet(x, y, dev) ==
  /\ y.s = x.s /\ y.d = x.d /\ y.f = x.f /\ y.src = x.src /\ y.dev = dev
  /\ y.out = x.out /\ y.crashed = x.crashed /\ y.o = x.o

LEMMA SetDeviceIs ==
  ASSUME NEW x \in Working, NEW dev \in Device, NEW y, y = SetDevice(x, dev)
  PROVE  y \in Working /\ DeviceSet(x, y, dev)
BY DEF SetDevice, Working, DeviceSet

LEMMA SourcePart ==
  ASSUME NEW x \in Working, NEW n \in Drags, NEW q \in Source, SameSource(x.src[n], q),
         NEW y, y = SetSource(x, n, q)
  PROVE  y \in Working /\ SourceSet(x, y, n, q) /\ OnlyDevice(x, y)
<1>1. y \in Working /\ SourceSet(x, y, n, q)
  BY SetSourceIs
<1> QED
  BY <1>1 DEF OnlyDevice, SourceSet, SameSource, SameSeat, SameOffer

LEMMA OfferPart ==
  ASSUME NEW x \in Working, NEW k \in Offers, NEW q \in Offer, SameOffer(x.o[k], q),
         NEW y, y = SetOffer(x, k, q)
  PROVE  y \in Working /\ OfferSet(x, y, k, q) /\ OnlyDevice(x, y)
<1>1. y \in Working /\ OfferSet(x, y, k, q)
  BY SetOfferIs
<1> QED
  BY <1>1 DEF OnlyDevice, OfferSet, SameSource, SameOffer

LEMMA DevicePart ==
  ASSUME NEW x \in Working, NEW dev \in Device, NEW y, y = SetDevice(x, dev)
  PROVE  y \in Working /\ DeviceSet(x, y, dev) /\ OnlyDevice(x, y)
<1>1. y \in Working /\ DeviceSet(x, y, dev)
  BY SetDeviceIs
<1> QED
  BY <1>1 DEF OnlyDevice, DeviceSet, SameSource, SameOffer

\* The source after an event of an offer, or of a new one.
SourceNow(p, q, state, action) ==
  /\ q \in Source /\ SameSource(p, q) /\ q.state = state /\ q.action = action

LEMMA SourceNowIs ==
  ASSUME NEW p \in Source, NEW state \in SUBSET {"ActionsSent", "TypeAccepted"}, NEW action \in Actions,
         NEW q, q = [p EXCEPT !.state = state, !.action = action]
  PROVE  SourceNow(p, q, state, action)
<1>1. q \in Source
  BY DEF Source
<1>2. q.state = state /\ q.action = action /\ q.alive = p.alive /\ q.performed = p.performed /\ q.ended = p.ended
  BY DEF Source
<1> QED
  BY <1>1, <1>2 DEF SourceNow, SameSource

EnterSent(x, y, s, n) ==
  /\ OnlyDevice(x, y) /\ y.dev.current = <<n, s>>
  /\ y.o[<<n, s>>].held /\ y.o[<<n, s>>].action = "unsent"

LEMMA SendEnterIs ==
  ASSUME NEW x \in Working, NEW s \in Surfaces, NEW n \in Drags, NEW y, y = XLDataDeviceSendEnter(x, s, n)
  PROVE  y \in Working /\ EnterSent(x, y, s, n)
<1>1. PICK k : k = <<n, s>>
  OBVIOUS
<1>2. PICK dev : dev = [current |-> k, supported |-> {}, preferred |-> "none"]
  OBVIOUS
<1>3. PICK p : p = x.src[n]
  OBVIOUS
<1>4. PICK q : q = [p EXCEPT !.state = {}, !.action = p.action]
  OBVIOUS
<1>5. k \in Offers /\ dev \in Device /\ p \in Source /\ NewOffer \in Offer
  <2>1. k \in Offers
    BY <1>1 DEF Offers
  <2> QED
    BY <1>2, <1>3, <2>1 DEF Device, Actions, NewOffer, Offer, Working
<1>6. SourceNow(p, q, {}, p.action)
  BY ZenonT(30), <1>4, <1>5, SourceNowIs DEF Source
<1>7. PICK u : u = SetDevice(x, dev)
  OBVIOUS
<1>8. PICK v : v = SetSource(u, n, q)
  OBVIOUS
<1>9. u \in Working /\ DeviceSet(x, u, dev) /\ OnlyDevice(x, u)
  BY <1>5, <1>7, DevicePart
<1>10. u.src = x.src
  BY <1>9 DEF DeviceSet
<1>11. v \in Working /\ SourceSet(u, v, n, q) /\ OnlyDevice(u, v)
  BY <1>3, <1>6, <1>8, <1>9, <1>10, SourcePart DEF SourceNow
<1>12. y = SetOffer(v, k, NewOffer)
  BY <1>1, <1>2, <1>3, <1>4, <1>5, <1>7, <1>8 DEF XLDataDeviceSendEnter, SetDevice, SetSource, SetOffer, Working, Source
<1>13. SameOffer(v.o[k], NewOffer)
  BY DEF SameOffer, NewOffer
<1>14. y \in Working /\ OfferSet(v, y, k, NewOffer) /\ OnlyDevice(v, y)
  BY <1>5, <1>11, <1>12, <1>13, OfferPart
<1>15. OnlyDevice(x, y)
  BY <1>9, <1>11, <1>14, OnlyDeviceTwice
<1>16. y.dev.current = k /\ y.o[k].held /\ y.o[k].action = "unsent"
  BY <1>2, <1>9, <1>11, <1>14 DEF DeviceSet, SourceSet, OfferSet, SameSeat, NewOffer
<1> QED
  BY <1>1, <1>14, <1>15, <1>16 DEF EnterSent

LEMMA SendLeaveIs ==
  ASSUME NEW x \in Working, NEW n \in Drags \cup {NoSource}, NEW y, y = XLDataDeviceSendLeave(x, n)
  PROVE  y \in Working /\ OnlyDevice(x, y) /\ y.dev.current = NoOffer /\ y.o = x.o
<1>1. CASE n = NoSource
  <2>1. PICK dev : dev = [x.dev EXCEPT !.current = NoOffer]
    OBVIOUS
  <2>2. x.dev \in Device
    BY DEF Working
  <2>3. dev \in Device /\ dev.current = NoOffer
    BY <2>1, <2>2 DEF Device
  <2>4. y = SetDevice(x, dev)
    BY <1>1, <2>1 DEF XLDataDeviceSendLeave, SetDevice, Working
  <2>5. y \in Working /\ DeviceSet(x, y, dev) /\ OnlyDevice(x, y)
    BY <2>3, <2>4, DevicePart
  <2> QED
    BY <2>3, <2>5 DEF DeviceSet
<1>2. CASE n # NoSource
  <2>1. PICK dev : dev = [current |-> NoOffer, supported |-> {}, preferred |-> "none"]
    OBVIOUS
  <2>2. PICK p : p = x.src[n]
    OBVIOUS
  <2>3. PICK q : q = [p EXCEPT !.state = {}, !.action = "none"]
    OBVIOUS
  <2>4. n \in Drags /\ p \in Source /\ dev \in Device /\ dev.current = NoOffer
    BY <1>2, <2>1, <2>2 DEF Working, Device, Actions
  <2>5. SourceNow(p, q, {}, "none")
    BY ZenonT(30), <2>3, <2>4, SourceNowIs DEF Actions
  <2>6. PICK u : u = SetDevice(x, dev)
    OBVIOUS
  <2>7. u \in Working /\ DeviceSet(x, u, dev) /\ OnlyDevice(x, u)
    BY <2>4, <2>6, DevicePart
  <2>8. u.src = x.src
    BY <2>7 DEF DeviceSet
  <2>9. y = SetSource(u, n, q)
    BY ZenonT(30), <1>2, <2>1, <2>2, <2>3, <2>4, <2>6 DEF XLDataDeviceSendLeave, SetDevice, SetSource, Working, Source
  <2>10. y \in Working /\ SourceSet(u, y, n, q) /\ OnlyDevice(u, y)
    BY <2>2, <2>4, <2>5, <2>7, <2>8, <2>9, SourcePart DEF SourceNow
  <2> QED
    BY <2>4, <2>7, <2>10, OnlyDeviceTwice DEF DeviceSet, SourceSet, SameSeat
<1> QED
  BY <1>1, <1>2

LEMMA ResolvedAction ==
  ASSUME NEW x \in Working
  PROVE  ResolveAction(x) \in Actions
<1> DEFINE both == x.dev.supported \cap SourceActions
           order == <<"copy", "move", "ask">>
           First(i) == order[i] \in both /\ \A j \in 1 .. i - 1 : order[j] \notin both
<1>1. \A i \in 1 .. 3 : order[i] \in Actions
  BY DEF Actions
<1>2. ASSUME \E i \in 1 .. 3 : order[i] \in both
      PROVE  \E i \in 1 .. 3 : First(i)
  <2>1. CASE order[1] \in both
    BY <2>1
  <2>2. CASE order[1] \notin both /\ order[2] \in both
    <3>1. First(2)
      BY <2>2
    <3> QED
      BY <3>1
  <2>3. CASE order[1] \notin both /\ order[2] \notin both
    <3>1. First(3)
      BY <1>2, <2>3
    <3> QED
      BY <3>1
  <2> QED
    BY <2>1, <2>2, <2>3
<1>3. ASSUME \E i \in 1 .. 3 : order[i] \in both
      PROVE  order[CHOOSE i \in 1 .. 3 : First(i)] \in Actions
  <2>1. (CHOOSE i \in 1 .. 3 : First(i)) \in 1 .. 3
    <3> HIDE DEF First
    <3> QED
      BY <1>2, <1>3
  <2> HIDE DEF First, order
  <2> QED
    BY <1>1, <2>1
<1> QED
  BY <1>3 DEF ResolveAction, Actions

\* What the client and the source are told of the action agrees.
Updated(x, y) == OnlyDevice(x, y) /\ y.dev = x.dev /\ Over(y) /\ Agreed(y)

LEMMA UpdateDeviceActionsIs ==
  ASSUME Parameters, NEW x \in Working, NEW n \in Drags, Over(x),
         x.s.dragging /\ x.s.over # Nowhere => n = x.s.source,
         NEW y, y = UpdateDeviceActions(x, n)
  PROVE  y \in Working /\ Updated(x, y)
<1>1. PICK action : action = ResolveAction(x)
  OBVIOUS
<1>2. action \in Actions
  BY <1>1, ResolvedAction
<1>3. PICK k : k = x.dev.current
  OBVIOUS
<1>4. PICK u : u = IF k[1] = n /\ x.o[k].held
                   THEN [x EXCEPT !.o[k].action = action, !.o[k].state = @ \cup {"IsActionSent"}]
                   ELSE x
  OBVIOUS
<1>5. PICK state : state = (x.src[n].state \ {"ActionsSent"})
                             \cup (IF action = "none" THEN {} ELSE {"ActionsSent"})
  OBVIOUS
<1>6. PICK p : p = x.src[n]
  OBVIOUS
<1>7. PICK q : q = [p EXCEPT !.state = state, !.action = action]
  OBVIOUS
<1>8. p \in Source /\ state \in SUBSET {"ActionsSent", "TypeAccepted"}
      /\ ("ActionsSent" \in state <=> action # "none")
  BY <1>5, <1>6 DEF Working, Source
<1>9. SourceNow(p, q, state, action)
  BY ZenonT(30), <1>2, <1>7, <1>8, SourceNowIs
<1>10. /\ u \in Working /\ OnlyDevice(x, u) /\ u.src = x.src /\ u.dev = x.dev
       /\ k \in Offers => u.o[k].held = x.o[k].held
       /\ k \in Offers /\ k[1] = n /\ x.o[k].held => u.o[k].action = action
  <2>1. CASE k[1] = n /\ x.o[k].held
    <3>1. k \in Offers
      <4>1. k \in Offers \cup {NoOffer}
        BY <1>3 DEF Working, Device
      <4>2. k # NoOffer
        BY <2>1 DEF NoOffer, NoSource, Drags
      <4> QED
        BY <4>1, <4>2
    <3>2. PICK b : b = x.o[k]
      OBVIOUS
    <3>3. PICK c : c = [b EXCEPT !.action = action, !.state = @ \cup {"IsActionSent"}]
      OBVIOUS
    <3>4. b \in Offer
      BY <3>1, <3>2 DEF Working
    <3>5. c \in Offer
      BY <1>2, <3>3, <3>4 DEF Offer
    <3>6. c.held = b.held /\ c.action = action /\ c.dropped = b.dropped
          /\ c.state = b.state \cup {"IsActionSent"}
      BY <3>3, <3>4 DEF Offer
    <3>7. SameOffer(b, c)
      BY <3>6 DEF SameOffer
    <3>8. u = SetOffer(x, k, c)
      BY <1>4, <2>1, <3>1, <3>2, <3>3, <3>4 DEF SetOffer, Working, Offer
    <3>9. u \in Working /\ OfferSet(x, u, k, c) /\ OnlyDevice(x, u)
      BY <3>1, <3>2, <3>5, <3>7, <3>8, OfferPart
    <3> QED
      BY <2>1, <3>2, <3>6, <3>9 DEF OfferSet
  <2>2. CASE ~(k[1] = n /\ x.o[k].held)
    BY <1>4, <2>2 DEF OnlyDevice, SameSource, SameOffer
  <2> QED
    BY <2>1, <2>2
<1>11. y = SetSource(u, n, q)
  <2>1. y = [u EXCEPT !.src[n].action = action,
                      !.src[n].state = (@ \ {"ActionsSent"})
                                       \cup (IF action = "none" THEN {} ELSE {"ActionsSent"})]
    BY <1>1, <1>3, <1>4 DEF UpdateDeviceActions
  <2>2. u.src[n] = p /\ u.src \in [Drags -> Source]
    BY <1>6, <1>10 DEF Working
  <2>3. [u.src EXCEPT ![n].action = action,
                      ![n].state = (@ \ {"ActionsSent"})
                                   \cup (IF action = "none" THEN {} ELSE {"ActionsSent"})]
        = [u.src EXCEPT ![n] = q]
    BY ZenonT(30), <1>5, <1>6, <1>7, <1>8, <2>2 DEF Source
  <2> QED
    BY <1>10, <2>1, <2>3 DEF SetSource, Working
<1>12. y \in Working /\ SourceSet(u, y, n, q) /\ OnlyDevice(u, y)
  BY <1>6, <1>9, <1>10, <1>11, SourcePart DEF SourceNow
<1>13. OnlyDevice(x, y)
  BY <1>10, <1>12, OnlyDeviceTwice
<1>14. y.dev = x.dev /\ y.s = x.s /\ y.d = x.d /\ y.o = u.o
  BY <1>10, <1>12, <1>13 DEF OnlyDevice, SourceSet, SameSeat
<1>15. ASSUME x.s.dragging, x.s.over # Nowhere
       PROVE  /\ k = <<n, x.s.over>> /\ k \in Offers /\ k[1] = n
              /\ y.o[k].held /\ y.o[k].action = action
  <2>1. k = <<n, x.s.over>> /\ x.o[k].held
    BY <1>3, <1>15 DEF Over
  <2>2. x.s.over \in Surfaces
    BY <1>15 DEF Working, Seat
  <2>3. k \in Offers /\ k[1] = n
    BY <2>1, <2>2 DEF Offers
  <2> QED
    BY <1>10, <1>14, <2>1, <2>3
<1>16. Over(y)
  BY <1>3, <1>14, <1>15 DEF Over
<1>17. Agreed(y)
  <2>1. y.src[n].action = action /\ y.src[n].state = state
    BY <1>9, <1>12 DEF SourceSet, SourceNow
  <2> QED
    BY <1>3, <1>8, <1>14, <1>15, <2>1 DEF Agreed
<1> QED
  BY <1>12, <1>13, <1>14, <1>16, <1>17 DEF Updated

LEMMA SetActionsIs ==
  ASSUME Parameters, NEW x \in Working, NEW k \in Offers, Over(x), Agreed(x),
         NEW supported \in SUBSET Actions, NEW preferred \in Actions,
         NEW y, y = DataOfferSetActions(x, k, supported, preferred)
  PROVE  y \in Working /\ OnlyDevice(x, y) /\ Over(y) /\ Agreed(y)
<1>1. CASE ~x.src[k[1]].attached \/ x.dev.current # k
  BY <1>1 DEF DataOfferSetActions, OnlyDevice, SameSource, SameOffer
<1>2. CASE ~(~x.src[k[1]].attached \/ x.dev.current # k)
  <2>1. PICK dev : dev = [x.dev EXCEPT !.supported = supported, !.preferred = preferred]
    OBVIOUS
  <2>2. dev \in Device /\ dev.current = x.dev.current
    <3>1. x.dev \in Device
      BY DEF Working
    <3> QED
      BY <2>1, <3>1 DEF Device
  <2>3. PICK u : u = SetDevice(x, dev)
    OBVIOUS
  <2>4. u \in Working /\ DeviceSet(x, u, dev) /\ OnlyDevice(x, u)
    BY <2>2, <2>3, DevicePart
  <2>5. Over(u)
    BY <2>2, <2>4 DEF Over, DeviceSet
  <2>6. PICK n : n = k[1]
    OBVIOUS
  <2>7. n \in Drags /\ (u.s.dragging /\ u.s.over # Nowhere => n = u.s.source)
    BY <1>2, <2>4, <2>6 DEF Offers, Over, DeviceSet
  <2>8. y = UpdateDeviceActions(u, n)
    BY <1>2, <2>1, <2>3, <2>6 DEF DataOfferSetActions, SetDevice, Working
  <2>9. y \in Working /\ Updated(u, y)
    BY <2>4, <2>5, <2>7, <2>8, UpdateDeviceActionsIs
  <2> QED
    BY <2>4, <2>9, OnlyDeviceTwice DEF Updated
<1> QED
  BY <1>1, <1>2

LEMMA AcceptIs ==
  ASSUME NEW x \in Working, NEW k \in Offers, Over(x), Agreed(x), NEW accepts \in BOOLEAN,
         NEW y, y = AcceptOffer(x, k, accepts)
  PROVE  y \in Working /\ OnlyDevice(x, y) /\ Over(y) /\ Agreed(y)
<1>1. PICK n : n = k[1]
  OBVIOUS
<1>2. PICK p : p = x.src[n]
  OBVIOUS
<1>3. PICK b : b = x.o[k]
  OBVIOUS
<1>4. PICK state : state = IF accepts THEN p.state \cup {"TypeAccepted"} ELSE p.state \ {"TypeAccepted"}
  OBVIOUS
<1>5. PICK told : told = IF accepts THEN b.state \cup {"IsMimeTypeAccepted"} ELSE b.state \ {"IsMimeTypeAccepted"}
  OBVIOUS
<1>6. PICK q : q = [p EXCEPT !.state = state, !.action = p.action]
  OBVIOUS
<1>7. PICK c : c = [b EXCEPT !.state = told]
  OBVIOUS
<1>8. /\ n \in Drags /\ p \in Source /\ b \in Offer
      /\ state \in SUBSET {"ActionsSent", "TypeAccepted"} /\ p.action \in Actions
      /\ ("ActionsSent" \in state <=> "ActionsSent" \in p.state)
      /\ told \in SUBSET {"IsMimeTypeAccepted", "IsActionSent", "IsFinished"}
      /\ ("IsFinished" \in told <=> "IsFinished" \in b.state)
  <2>1. n \in Drags
    BY <1>1 DEF Offers
  <2>2. p \in Source /\ b \in Offer
    BY <1>2, <1>3, <2>1 DEF Working
  <2>3. /\ state \in SUBSET {"ActionsSent", "TypeAccepted"} /\ p.action \in Actions
        /\ ("ActionsSent" \in state <=> "ActionsSent" \in p.state)
    BY <1>4, <2>2 DEF Source
  <2>4. /\ told \in SUBSET {"IsMimeTypeAccepted", "IsActionSent", "IsFinished"}
        /\ ("IsFinished" \in told <=> "IsFinished" \in b.state)
    BY <1>5, <2>2 DEF Offer
  <2> QED
    BY <2>1, <2>2, <2>3, <2>4
<1>9. SourceNow(p, q, state, p.action)
  BY ZenonT(30), <1>6, <1>8, SourceNowIs
<1>10. /\ c \in Offer /\ SameOffer(b, c) /\ c.held = b.held /\ c.action = b.action
  BY <1>7, <1>8 DEF Offer, SameOffer
<1>11. PICK u : u = SetOffer(x, k, c)
  OBVIOUS
<1>12. u \in Working /\ OfferSet(x, u, k, c) /\ OnlyDevice(x, u)
  BY <1>3, <1>10, <1>11, OfferPart
<1>13. u.src = x.src
  BY <1>12 DEF OfferSet
<1>14. y = SetSource(u, n, q)
  <2>1. c = [b EXCEPT !.state = told] /\ q = [p EXCEPT !.state = state]
    BY <1>6, <1>7, <1>8 DEF Source
  <2>2. CASE accepts
    <3>1. y = [x EXCEPT !.o[k].state = told, !.src[n].state = state]
      BY <1>1, <1>2, <1>3, <1>4, <1>5, <2>2 DEF AcceptOffer, Working
    <3> QED
      BY <1>2, <1>3, <1>11, <2>1, <3>1 DEF SetSource, SetOffer, Working
  <2>3. CASE ~accepts
    <3>1. y = [x EXCEPT !.o[k].state = told, !.src[n].state = state]
      BY <1>1, <1>2, <1>3, <1>4, <1>5, <2>3 DEF AcceptOffer, Working
    <3> QED
      BY <1>2, <1>3, <1>11, <2>1, <3>1 DEF SetSource, SetOffer, Working
  <2> QED
    BY <2>2, <2>3
<1>15. y \in Working /\ SourceSet(u, y, n, q) /\ OnlyDevice(u, y)
  BY <1>2, <1>8, <1>9, <1>12, <1>13, <1>14, SourcePart DEF SourceNow
<1>16. OnlyDevice(x, y)
  BY <1>12, <1>15, OnlyDeviceTwice
<1>17. y.s = x.s /\ y.d = x.d /\ y.dev = x.dev /\ y.o = u.o
  BY <1>12, <1>15 DEF OfferSet, SourceSet, SameSeat
<1>18. \A l \in Offers : y.o[l].held = x.o[l].held /\ y.o[l].action = x.o[l].action
  BY <1>3, <1>10, <1>12, <1>17 DEF OfferSet
<1>19. \A m \in Drags : y.src[m].action = x.src[m].action
                        /\ ("ActionsSent" \in y.src[m].state <=> "ActionsSent" \in x.src[m].state)
  BY <1>2, <1>8, <1>9, <1>13, <1>15 DEF SourceSet, SourceNow
<1>20. x.dev.current # NoOffer => x.dev.current \in Offers /\ x.dev.current[1] \in Drags
  BY DEF Working, Device, Offers
<1>21. Over(y)
  <2>1. x.s.over # Nowhere /\ x.s.dragging => x.dev.current # NoOffer
    BY SMTT(30) DEF Over, NoOffer, Working, Seat
  <2> QED
    BY <1>17, <1>18, <1>20, <2>1 DEF Over
<1>22. Agreed(y)
  <2> SUFFICES ASSUME y.s.dragging, y.dev.current # NoOffer, y.o[y.dev.current].action # "unsent",
                      y.s.over # Nowhere
               PROVE  /\ y.o[y.dev.current].action = y.src[y.dev.current[1]].action
                      /\ ("ActionsSent" \in y.src[y.dev.current[1]].state)
                           = (y.o[y.dev.current].action # "none")
    BY DEF Agreed
  <2>1. PICK j \in Offers : j = x.dev.current /\ j[1] \in Drags
    BY <1>17, <1>20
  <2>2. x.o[j].action = y.o[j].action /\ x.src[j[1]].action = y.src[j[1]].action
    BY <1>18, <1>19, <2>1
  <2>3. "ActionsSent" \in y.src[j[1]].state <=> "ActionsSent" \in x.src[j[1]].state
    BY <1>19, <2>1
  <2>4. /\ x.o[j].action = x.src[j[1]].action
        /\ ("ActionsSent" \in x.src[j[1]].state) = (x.o[j].action # "none")
    BY <1>17, <2>1, <2>2 DEF Agreed
  <2>5. ("ActionsSent" \in y.src[j[1]].state) = (y.o[j].action # "none")
    BY <2>2, <2>3, <2>4
  <2> QED
    BY <1>17, <2>1, <2>2, <2>4, <2>5
<1> QED
  BY <1>15, <1>16, <1>21, <1>22

-----------------------------------------------------------------------------
(* seat.c *)

\* The seat has another surface, or has lost the drag.
OnlySeat(x, y) ==
  /\ y.f = x.f /\ y.crashed = x.crashed
  /\ \A n \in Drags : SameSource(x.src[n], y.src[n])
  /\ \A k \in Offers : SameOffer(x.o[k], y.o[k])

LEMMA OnlySeatTwice ==
  ASSUME NEW x, NEW y, NEW z, OnlySeat(x, y), OnlySeat(y, z)
  PROVE  OnlySeat(x, z)
<1>1. \A n \in Drags : SameSource(x.src[n], z.src[n])
  BY DEF OnlySeat, SameSource
<1>2. \A k \in Offers : SameOffer(x.o[k], z.o[k])
  BY DEF OnlySeat, SameOffer
<1> QED
  BY <1>1, <1>2 DEF OnlySeat

LEMMA WatchedStill ==
  ASSUME NEW x \in Working, NEW y, Watched(x), OnlySeat(x, y)
  PROVE  Watched(y)
<1>1. x.f.source # NoSource => x.f.source \in Drags
  BY DEF Working, FinishState
<1> QED
  BY <1>1 DEF Watched, OnlySeat, SameSource

LEMMA SteadySeat ==
  ASSUME NEW in, NEW x \in Working, NEW y \in Working, Targeted(x, in),
         Begun(x), Selected(x), Watched(x), ~x.crashed, Over(y), Agreed(y),
         OnlySeat(x, y), y.d = x.d, y.out = x.out,
         y.s.dragging = x.s.dragging, y.s.source = x.s.source,
         y.s.dragging \/ y.s.over = Nowhere
  PROVE  Steady(y) /\ Targeted(y, in) /\ SameOutcome(x, y)
<1>1. Begun(y)
  <2>1. y.s.source # NoSource => y.s.source \in Drags
    BY DEF Working, Seat
  <2> QED
    BY <2>1 DEF Begun, OnlySeat, SameSource
<1>2. Watched(y)
  BY WatchedStill
<1>3. Selected(y) /\ ~y.crashed
  BY DEF Selected, OnlySeat
<1>4. Targeted(y, in)
  BY DEF Targeted, OnlySeat, AllInform, Ready
<1>5. SameOutcome(x, y)
  BY SameDropsOut DEF OnlySeat, SameOutcome
<1> QED
  BY <1>1, <1>2, <1>3, <1>4, <1>5 DEF Steady

SetSeat(x, s) == [x EXCEPT !.s = s]

SeatSet(x, y, s) ==
  /\ y.s = s /\ y.d = x.d /\ y.f = x.f /\ y.src = x.src /\ y.dev = x.dev
  /\ y.out = x.out /\ y.crashed = x.crashed /\ y.o = x.o

LEMMA SetSeatIs ==
  ASSUME NEW x \in Working, NEW s \in Seat, NEW y, y = SetSeat(x, s)
  PROVE  y \in Working /\ SeatSet(x, y, s) /\ OnlySeat(x, y)
BY DEF SetSeat, Working, SeatSet, OnlySeat, SameSource, SameOffer

OffSurface(x, y) ==
  /\ OnlySeat(x, y) /\ y.d = x.d /\ y.out = x.out /\ y.s.over = Nowhere
  /\ y.s.dragging = x.s.dragging /\ y.s.source = x.s.source

LEMMA DragLeaveIs ==
  ASSUME NEW x \in Working, NEW y, y = DragLeave(x)
  PROVE  y \in Working /\ OffSurface(x, y)
<1>1. PICK n : n = IF x.s.dragging THEN x.s.source ELSE NoSource
  OBVIOUS
<1>2. n \in Drags \cup {NoSource}
  BY <1>1 DEF Working, Seat
<1>3. PICK u : u = XLDataDeviceSendLeave(x, n)
  OBVIOUS
<1>4. u \in Working /\ OnlyDevice(x, u)
  BY <1>2, <1>3, SendLeaveIs
<1>5. PICK s : s = [u.s EXCEPT !.over = Nowhere]
  OBVIOUS
<1>6. s \in Seat /\ s.over = Nowhere /\ s.dragging = u.s.dragging /\ s.source = u.s.source
  BY <1>4, <1>5 DEF Working, Seat
<1>7. y = SetSeat(u, s)
  BY <1>1, <1>3, <1>4, <1>5 DEF DragLeave, SetSeat, Working
<1>8. y \in Working /\ SeatSet(u, y, s) /\ OnlySeat(u, y)
  BY <1>4, <1>6, <1>7, SetSeatIs
<1>9. OnlySeat(x, u)
  BY <1>4 DEF OnlyDevice, OnlySeat
<1>10. OnlySeat(x, y)
  BY <1>8, <1>9, OnlySeatTwice
<1> QED
  BY <1>4, <1>6, <1>8, <1>10 DEF OffSurface, OnlyDevice, SeatSet

LEMMA EnteredSurfaceSound ==
  ASSUME Parameters, NEW in, NEW x \in Working, Steady(x), Targeted(x, in), x.s.dragging,
         NEW s \in Surfaces \cup {Nowhere}, s # Nowhere => x.d.top = Nowhere,
         NEW y, y = EnteredSurface(x, s)
  PROVE  /\ y \in Working /\ Steady(y) /\ Targeted(y, in) /\ SameOutcome(x, y)
         /\ y.s.over = s /\ y.s.dragging
<1>1. CASE x.s.over = s
  BY <1>1 DEF EnteredSurface, SameOutcome, SameSource, SameOffer, SameDrops
<1>2. CASE x.s.over # s
  <2>1. PICK left : left = IF x.s.over = Nowhere THEN x ELSE DragLeave(x)
    OBVIOUS
  <2>2. left \in Working /\ OffSurface(x, left)
    <3>1. CASE x.s.over = Nowhere
      BY <2>1, <3>1 DEF OffSurface, OnlySeat, SameSource, SameOffer
    <3>2. CASE x.s.over # Nowhere
      BY <2>1, <3>2, DragLeaveIs
    <3> QED
      BY <3>1, <3>2
  <2>3. CASE s = Nowhere
    <3>1. y = left
      BY <1>2, <2>1, <2>3 DEF EnteredSurface
    <3>2. Over(left) /\ Agreed(left)
      BY <2>2 DEF OffSurface, Over, Agreed
    <3>3. Steady(left) /\ Targeted(left, in) /\ SameOutcome(x, left)
      BY <2>2, <3>2, SteadySeat DEF Steady, OffSurface
    <3> QED
      BY <2>2, <2>3, <3>1, <3>3 DEF OffSurface
  <2>4. CASE s # Nowhere
    <3>1. PICK t : t = [left.s EXCEPT !.over = s]
      OBVIOUS
    <3>2. t \in Seat /\ t.over = s /\ t.dragging = left.s.dragging /\ t.source = left.s.source
      <4>1. left.s \in Seat
        BY <2>2 DEF Working
      <4> QED
        BY <3>1, <4>1 DEF Seat
    <3>3. PICK u : u = SetSeat(left, t)
      OBVIOUS
    <3>4. u \in Working /\ SeatSet(left, u, t) /\ OnlySeat(left, u)
      BY <2>2, <3>2, <3>3, SetSeatIs
    <3>5. PICK n : n = x.s.source
      OBVIOUS
    <3>6. n \in Drags /\ s \in Surfaces
      BY <2>4, <3>5 DEF Steady, Begun, Working, Seat
    <3>7. y = XLDataDeviceSendEnter(u, s, n)
      BY <1>2, <2>1, <2>2, <2>4, <3>1, <3>3, <3>5 DEF EnteredSurface, SetSeat, Working
    <3>8. y \in Working /\ EnterSent(u, y, s, n)
      BY <3>4, <3>6, <3>7, SendEnterIs
    <3>9. OnlySeat(x, y)
      <4>1. OnlySeat(u, y)
        BY <3>8 DEF EnterSent, OnlyDevice, OnlySeat
      <4>2. OnlySeat(x, u)
        BY <2>2, <3>4, OnlySeatTwice DEF OffSurface
      <4> QED
        BY <4>1, <4>2, OnlySeatTwice
    <3>10. /\ y.s = t /\ y.d = x.d /\ y.out = x.out /\ y.s.dragging /\ y.s.source = n
      BY <2>2, <3>2, <3>4, <3>5, <3>8 DEF EnterSent, OnlyDevice, SeatSet, OffSurface
    <3>11. Over(y) /\ Agreed(y)
      BY <2>4, <3>2, <3>8, <3>10 DEF Over, Agreed, EnterSent
    <3>12. Steady(y) /\ Targeted(y, in) /\ SameOutcome(x, y)
      BY <3>5, <3>8, <3>9, <3>10, <3>11, SteadySeat DEF Steady
    <3> QED
      BY <3>2, <3>8, <3>10, <3>12
  <2> QED
    BY <2>3, <2>4
<1> QED
  BY <1>1, <1>2

\* A drag may be over.
Endable(x) ==
  /\ x.s.dragging /\ x.s.source # NoSource /\ Watched(x) /\ ~x.crashed
  /\ ~x.d.seat => x.d.top = Nowhere /\ x.d.flags = {}
  /\ "PendingDrop" \in x.d.flags => x.f.source # NoSource

LEMMA CancelDragSound ==
  ASSUME NEW in \in [Toplevels -> BOOLEAN], NEW x \in Working, Endable(x), Targeted(x, in),
         NEW r, r = CancelDrag(x)
  PROVE  r \in Working /\ Steady(r) /\ Targeted(r, in) /\ SameOutcome(x, r) /\ ~r.s.dragging
<1>1. PICK n : n = x.s.source
  OBVIOUS
<1>2. n \in Drags
  BY <1>1 DEF Endable, Working, Seat
<1>3. PICK y : y = XLDoDragFinish(x)
  OBVIOUS
<1>4. /\ y \in Working /\ OnlySeat(x, y) /\ y.s = x.s /\ SameDrops(x, y)
      /\ y.d.seat => y.f.source # NoSource
      /\ ~y.d.seat => y.d.top = Nowhere /\ y.d.flags = {}
      /\ "PendingDrop" \in y.d.flags => "PendingDrop" \in x.d.flags
      /\ Targeted(y, in)
  <2>1. CASE x.d.seat /\ x.f.source = NoSource
    <3>1. y \in Working /\ Finished(x, y)
      BY <1>3, <2>1, FinishDragIs DEF XLDoDragFinish
    <3>2. SameDrops(x, y) /\ AllInform(y, in)
      BY <3>1, LeaveInforms DEF Finished, Targeted
    <3>3. x.d \in DragState
      BY DEF Working
    <3>4. ~y.d.seat /\ y.d.top = Nowhere /\ y.d.flags = {}
      BY <3>1, <3>3 DEF Finished, DragState
    <3>5. OnlySeat(x, y) /\ y.s = x.s
      BY <3>1 DEF Finished, SameSeat, OnlySeat, SameSource, SameOffer
    <3> QED
      BY <3>1, <3>2, <3>4, <3>5 DEF Targeted
  <2>2. CASE ~(x.d.seat /\ x.f.source = NoSource)
    <3>1. y = x
      BY <1>3, <2>2 DEF XLDoDragFinish
    <3>2. OnlySeat(x, x) /\ SameDrops(x, x)
      BY DEF OnlySeat, SameSource, SameOffer, SameDrops
    <3> QED
      BY <2>2, <3>1, <3>2 DEF Endable
  <2> QED
    BY <2>1, <2>2
<1>5. PICK s : s = [y.s EXCEPT !.dragging = FALSE]
  OBVIOUS
<1>6. s \in Seat /\ s.dragging = FALSE
  <2>1. y.s \in Seat
    BY <1>4 DEF Working
  <2> QED
    BY <1>5, <2>1 DEF Seat
<1>7. PICK z : z = SetSeat(y, s)
  OBVIOUS
<1>8. z \in Working /\ SeatSet(y, z, s) /\ OnlySeat(y, z)
  BY <1>4, <1>6, <1>7, SetSeatIs
<1>9. PICK w : w = IF z.s.over = Nowhere THEN z ELSE DragLeave(z)
  OBVIOUS
<1>10. w \in Working /\ OffSurface(z, w)
  <2>1. CASE z.s.over = Nowhere
    BY <1>8, <1>9, <2>1 DEF OffSurface, OnlySeat, SameSource, SameOffer
  <2>2. CASE z.s.over # Nowhere
    BY <1>8, <1>9, <2>2, DragLeaveIs
  <2> QED
    BY <2>1, <2>2
<1>11. PICK p : p = w.src[n]
  OBVIOUS
<1>12. PICK q : q = [p EXCEPT !.attached = FALSE]
  OBVIOUS
<1>13. p \in Source
  BY <1>2, <1>10, <1>11 DEF Working
<1>14. q \in Source
  BY <1>12, <1>13 DEF Source
<1>15. SameSource(p, q)
  BY <1>12, <1>13 DEF Source, SameSource
<1>16. PICK v : v = SetSource(w, n, q)
  OBVIOUS
<1>17. v \in Working /\ SourceSet(w, v, n, q) /\ OnlyDevice(w, v)
  BY <1>2, <1>10, <1>11, <1>14, <1>15, <1>16, SourcePart
<1>18. PICK t : t = [v.s EXCEPT !.source = NoSource]
  OBVIOUS
<1>19. t \in Seat /\ t.source = NoSource /\ t.dragging = FALSE /\ t.over = Nowhere
  <2>1. v.s \in Seat
    BY <1>17 DEF Working
  <2>2. v.s.dragging = FALSE /\ v.s.over = Nowhere
    BY <1>6, <1>8, <1>10, <1>17 DEF SeatSet, OffSurface, OnlyDevice
  <2> QED
    BY <1>18, <2>1, <2>2 DEF Seat
<1>20. r = SetSeat(v, t)
  <2>1. z = [y EXCEPT !.s.dragging = FALSE]
    BY <1>4, <1>5, <1>7 DEF SetSeat, Working
  <2>2. r = [w EXCEPT !.src[n].attached = FALSE, !.s.source = NoSource]
    BY <1>1, <1>3, <1>9, <2>1 DEF CancelDrag, Endable
  <2>3. v = [w EXCEPT !.src[n].attached = FALSE]
    BY <1>11, <1>12, <1>16 DEF SetSource
  <2> QED
    BY <1>10, <1>17, <1>18, <2>2, <2>3 DEF SetSeat, Working
<1>21. r \in Working /\ SeatSet(v, r, t) /\ OnlySeat(v, r)
  BY <1>17, <1>19, <1>20, SetSeatIs
<1>22. OnlySeat(x, r)
  <2>1. OnlySeat(x, z)
    BY <1>4, <1>8, OnlySeatTwice
  <2>2. OnlySeat(x, w)
    BY <1>10, <2>1, OnlySeatTwice DEF OffSurface
  <2>3. OnlySeat(w, v)
    BY <1>17 DEF OnlyDevice, OnlySeat
  <2>4. OnlySeat(x, v)
    BY <2>2, <2>3, OnlySeatTwice
  <2> QED
    BY <1>21, <2>4, OnlySeatTwice
<1>23. r.d = y.d /\ r.out = y.out /\ r.s = t
  BY <1>8, <1>10, <1>17, <1>21 DEF SeatSet, OffSurface, OnlyDevice
<1>24. SameOutcome(x, r)
  BY <1>4, <1>22, <1>23 DEF SameOutcome, OnlySeat, SameDrops, DropAt
<1>25. Watched(r)
  BY <1>22, WatchedStill DEF Endable
<1>26. Begun(r) /\ Selected(r) /\ Over(r) /\ Agreed(r) /\ ~r.crashed
  <2>1. r.f = x.f /\ r.crashed = x.crashed /\ y.f = x.f
    BY <1>4, <1>22 DEF OnlySeat
  <2> QED
    BY <1>4, <1>19, <1>23, <2>1 DEF Begun, Selected, Over, Agreed, Endable
<1>27. Targeted(r, in)
  BY <1>4, <1>22, <1>23 DEF Targeted, AllInform, Ready, OnlySeat
<1> QED
  BY <1>19, <1>21, <1>23, <1>24, <1>25, <1>26, <1>27 DEF Steady

-----------------------------------------------------------------------------
(* What the sources are told: the second part of the invariant.            *)

Answers ==
  [type : {"Status"}, top : Toplevels, accepts : BOOLEAN, rect : BOOLEAN, action : {"copy", "none"}]
  \cup [type : {"Finished"}, top : Toplevels, odd : BOOLEAN]

\* Who was dropped was told of the drop.
Counted(x) ==
  /\ x.f.source # NoSource => x.src[x.f.source].performed > 0
  /\ \A k \in Offers : x.o[k].dropped => x.src[k[1]].performed > 0

\* A drag is dropped on one client or on one target, and told of its end once,
\* but for a drop that is cancelled twice.
Cancelled(x, n) == \A i \in DOMAIN x.src[n].ended : x.src[n].ended[i] = "cancelled"

Alike(x, n) == \A i, j \in DOMAIN x.src[n].ended : x.src[n].ended[i] = x.src[n].ended[j]

Untold(x, n) == x.src[n].ended = <<>>

Told(x) ==
  /\ x.f.source # NoSource =>
       Cancelled(x, x.f.source) /\ \A k \in Offers : k[1] = x.f.source => ~x.o[k].dropped
  /\ x.f.source # NoSource /\ "PendingDrop" \in x.d.flags => Untold(x, x.f.source)
  /\ \A k, l \in Offers : x.o[k].dropped /\ x.o[l].dropped /\ k[1] = l[1] => k = l
  /\ \A k \in Offers : x.o[k].dropped /\ "IsFinished" \notin x.o[k].state => Untold(x, k[1])
  /\ \A n \in Drags : Alike(x, n)

\* A drop goes to the target, stays there and comes back as the answer: there
\* is one, and its source waits for it.
Waiting(x) ==
  x.f.source # NoSource /\ Untold(x, x.f.source) /\ "PendingDrop" \notin x.d.flags

HeldAt(p, t) == p[t].state = "dropped"
AnswerAt(q, i) == i \in DOMAIN q /\ q[i].type = "Finished"

NoDrops(x, p, q) ==
  /\ \A t \in Toplevels, i \in Nat : ~DropAt(x, t, i)
  /\ \A t \in Toplevels : ~HeldAt(p, t)
  /\ \A i \in Nat : ~AnswerAt(q, i)

OneDrop(x, p, q) ==
  /\ \A t, u \in Toplevels, i, j \in Nat : DropAt(x, t, i) /\ DropAt(x, u, j) => t = u /\ i = j
  /\ \A t, u \in Toplevels : HeldAt(p, t) /\ HeldAt(p, u) => t = u
  /\ \A i, j \in Nat : AnswerAt(q, i) /\ AnswerAt(q, j) => i = j
  /\ \A t, u \in Toplevels, i \in Nat : ~(DropAt(x, t, i) /\ HeldAt(p, u))
  /\ \A t \in Toplevels, i, j \in Nat : ~(DropAt(x, t, i) /\ AnswerAt(q, j))
  /\ \A t \in Toplevels, i \in Nat : ~(HeldAt(p, t) /\ AnswerAt(q, i))

Awaited(x, p, q) == (Waiting(x) \/ NoDrops(x, p, q)) /\ OneDrop(x, p, q)

LEMMA NoDropsAwaited ==
  ASSUME NEW x, NEW p, NEW q, NoDrops(x, p, q)
  PROVE  Awaited(x, p, q)
BY DEF NoDrops, Awaited, OneDrop

LEMMA CountedStill ==
  ASSUME NEW x \in Working, NEW y, SameOutcome(x, y), Counted(x)
  PROVE  Counted(y)
<1>1. x.f.source # NoSource => x.f.source \in Drags
  BY DEF Working, FinishState
<1>2. \A k \in Offers : k[1] \in Drags
  BY DEF Offers
<1> QED
  BY <1>1, <1>2 DEF Counted, SameOutcome, SameSource, SameOffer

LEMMA ToldStill ==
  ASSUME NEW x \in Working, NEW y, SameOutcome(x, y), Told(x)
  PROVE  Told(y)
<1>1. x.f.source # NoSource => x.f.source \in Drags
  BY DEF Working, FinishState
<1>2. \A k \in Offers : k[1] \in Drags
  BY DEF Offers
<1>3. \A n \in Drags : y.src[n].ended = x.src[n].ended
  BY DEF SameOutcome, SameSource
<1>4. \A k \in Offers : y.o[k].dropped => x.o[k].dropped
                                          /\ ("IsFinished" \in y.o[k].state <=> "IsFinished" \in x.o[k].state)
  BY DEF SameOutcome, SameOffer
<1>5. y.f.source = x.f.source
  BY DEF SameOutcome
<1>6. y.f.source # NoSource =>
        Cancelled(y, y.f.source) /\ \A k \in Offers : k[1] = y.f.source => ~y.o[k].dropped
  BY <1>1, <1>3, <1>4, <1>5 DEF Told, Cancelled
<1>7. \A k, l \in Offers : y.o[k].dropped /\ y.o[l].dropped /\ k[1] = l[1] => k = l
  BY <1>4 DEF Told
<1>8. \A k \in Offers : y.o[k].dropped /\ "IsFinished" \notin y.o[k].state => Untold(y, k[1])
  BY <1>2, <1>3, <1>4 DEF Told, Untold
<1>9. \A n \in Drags : Alike(y, n)
  BY <1>3 DEF Told, Alike
<1>10. y.f.source # NoSource /\ "PendingDrop" \in y.d.flags => Untold(y, y.f.source)
  BY <1>1, <1>3, <1>5 DEF Told, Untold, SameOutcome
<1> QED
  BY <1>6, <1>7, <1>8, <1>9, <1>10 DEF Told

LEMMA AwaitedStill ==
  ASSUME NEW x \in Working, NEW y, SameOutcome(x, y), NEW p, NEW q, Awaited(x, p, q)
  PROVE  Awaited(y, p, q)
<1>1. x.f.source # NoSource => x.f.source \in Drags
  BY DEF Working, FinishState
<1>2. OneDrop(y, p, q)
  BY DEF Awaited, OneDrop, SameOutcome, SameDrops
<1>3. NoDrops(x, p, q) => NoDrops(y, p, q)
  BY DEF NoDrops, SameOutcome, SameDrops
<1>4. Waiting(x) => Waiting(y)
  BY <1>1 DEF Waiting, Untold, SameOutcome, SameSource
<1> QED
  BY <1>2, <1>3, <1>4 DEF Awaited

-----------------------------------------------------------------------------
(* The release of the button. *)

\* What a handler keeps.
Kept(x, y, p, q) ==
  /\ Counted(x) => Counted(y)
  /\ Counted(x) /\ Told(x) => Told(y)
  /\ Counted(x) /\ Told(x) /\ Awaited(x, p, q) => Awaited(y, p, q)

LEMMA KeptTwice ==
  ASSUME NEW x, NEW y, NEW z, NEW p, NEW q, Kept(x, y, p, q), Kept(y, z, p, q)
  PROVE  Kept(x, z, p, q)
BY DEF Kept

LEMMA SameOutcomeKept ==
  ASSUME NEW x \in Working, NEW y, SameOutcome(x, y), NEW p, NEW q
  PROVE  Kept(x, y, p, q)
BY CountedStill, ToldStill, AwaitedStill DEF Kept

\* Dragging is not waiting.
LEMMA DraggingQuiet ==
  ASSUME NEW x, Begun(x), x.s.dragging, NEW p, NEW q, Awaited(x, p, q)
  PROVE  NoDrops(x, p, q)
BY DEF Begun, Awaited, Waiting

\* Nothing was dropped yet of the source that is dragged.
LEMMA DraggedFresh ==
  ASSUME NEW x \in Working, Begun(x), x.s.dragging, Counted(x), NEW k \in Offers, k[1] = x.s.source
  PROVE  ~x.o[k].dropped
<1>1. k[1] \in Drags /\ x.src[k[1]].performed \in Nat
  BY DEF Offers, Working, Source
<1> QED
  BY <1>1 DEF Begun, Counted

\* The source waits, and its drop is not on its way yet.
LEMMA WaitedKept ==
  ASSUME NEW x \in Working, Steady(x), x.s.dragging, NEW y \in Working,
         y.s = x.s, y.crashed = x.crashed, y.o = x.o,
         y.f.source = x.s.source, y.f.key = x.s.source, y.f.timeout = x.s.source,
         y.f.registered = {x.s.source}, y.f.timers = {x.s.source},
         Performed(x, y, x.s.source), y.src[x.s.source].performed > 0
  PROVE  /\ Watched(y)
         /\ Counted(x) => Counted(y)
         /\ Counted(x) /\ Told(x) => Told(y)
         /\ Untold(y, y.f.source)
<1>1. PICK n : n = x.s.source
  OBVIOUS
<1>2. /\ n \in Drags /\ n # NoSource /\ x.src[n].alive /\ x.src[n].ended = <<>>
  BY <1>1 DEF Steady, Begun, Working, Seat
<1>3. \A m \in Drags : y.src[m].ended = x.src[m].ended
  BY DEF Performed
<1>4. y.src[n].alive /\ y.src[n].ended = <<>> /\ y.src[n].performed > 0
  BY <1>1, <1>2 DEF Performed
<1>5. Watched(y)
  BY <1>1, <1>2, <1>4 DEF Watched
<1>6. Untold(y, y.f.source)
  BY <1>1, <1>4 DEF Untold
<1>7. Counted(x) => Counted(y)
  <2>1. \A m \in Drags : x.src[m].performed > 0 => y.src[m].performed > 0
    BY <1>1, <1>4 DEF Performed
  <2>2. \A k \in Offers : k[1] \in Drags
    BY DEF Offers
  <2> QED
    BY <1>1, <1>4, <2>1, <2>2 DEF Counted
<1>8. ASSUME Counted(x), Told(x)
      PROVE  Told(y)
  <2>1. Cancelled(y, n)
    BY <1>4 DEF Cancelled
  <2>2. \A k \in Offers : k[1] = n => ~y.o[k].dropped
    BY <1>1, <1>8, DraggedFresh DEF Steady
  <2>3. \A k, l \in Offers : y.o[k].dropped /\ y.o[l].dropped /\ k[1] = l[1] => k = l
    BY <1>8 DEF Told
  <2>4. \A k \in Offers : y.o[k].dropped /\ "IsFinished" \notin y.o[k].state => Untold(y, k[1])
    <3>1. \A k \in Offers : k[1] \in Drags
      BY DEF Offers
    <3> QED
      BY <1>3, <1>8, <3>1 DEF Told, Untold
  <2>5. \A m \in Drags : Alike(y, m)
    BY <1>3, <1>8 DEF Told, Alike
  <2> QED
    BY <1>1, <1>6, <2>1, <2>2, <2>3, <2>4, <2>5 DEF Told
<1> QED
  BY <1>5, <1>6, <1>7, <1>8

LEMMA DropOutsideSound ==
  ASSUME NEW in \in [Toplevels -> BOOLEAN], NEW x \in Working, Steady(x), x.s.dragging, Targeted(x, in),
         CanDropOutside(x), NEW p, NEW q,
         NEW y, y = XLDataSourceSendDropPerformed(XLDoDragDrop(x), x.s.source)
  PROVE  y \in Working /\ Endable(y) /\ Targeted(y, in) /\ Kept(x, y, p, q)
<1>1. PICK n : n = x.s.source
  OBVIOUS
<1>2. /\ n \in Drags /\ n # NoSource /\ x.f.source = NoSource /\ x.f.timers = {} /\ x.f.registered = {}
      /\ x.d \in DragState /\ x.d.seat /\ x.d.version >= 3 /\ "PendingDrop" \notin x.d.flags /\ ~x.crashed
  BY <1>1 DEF Steady, Begun, Watched, Working, Seat, CanDropOutside
<1>3. PICK z : z = XLDoDragDrop(x)
  OBVIOUS
\* The part that both ways of a drop share.
<1>4. ASSUME z \in Working, z.s = x.s, z.crashed = x.crashed, z.o = x.o, z.d.seat,
             z.f.source = n, z.f.key = n, z.f.timeout = n, z.f.registered = {n}, z.f.timers = {n},
             Performed(x, z, n),
             NEW r, r = XLDataSourceSendDropPerformed(z, n)
      PROVE  /\ r \in Working /\ Endable(r) /\ SameSeat(z, r) /\ r.d = z.d /\ r.out = z.out
             /\ Counted(x) => Counted(r)
             /\ Counted(x) /\ Told(x) => Told(r)
             /\ Untold(r, r.f.source)
  <2>1. r \in Working /\ SameSeat(z, r) /\ r.d = z.d /\ r.out = z.out /\ Performed(z, r, n) /\ r.src[n].performed > 0
    BY <1>2, <1>4, PerformedIs
  <2>2. Performed(x, r, n)
    BY <1>4, <2>1 DEF Performed
  <2>3. /\ r.s = x.s /\ r.crashed = x.crashed /\ r.o = x.o
        /\ r.f.source = n /\ r.f.key = n /\ r.f.timeout = n /\ r.f.registered = {n} /\ r.f.timers = {n}
    BY <1>4, <2>1 DEF SameSeat
  <2>4. /\ Watched(r)
        /\ Counted(x) => Counted(r)
        /\ Counted(x) /\ Told(x) => Told(r)
        /\ Untold(r, r.f.source)
    BY <1>1, <2>1, <2>2, <2>3, WaitedKept
  <2>5. Endable(r)
    BY <1>1, <1>2, <1>4, <2>1, <2>3, <2>4 DEF Endable
  <2> QED
    BY <2>1, <2>4, <2>5
<1>5. y = XLDataSourceSendDropPerformed(z, n)
  BY <1>1, <1>3
<1>6. CASE "WaitingForStatus" \in x.d.flags
  <2>1. PICK d : d = [x.d EXCEPT !.flags = @ \cup {"PendingDrop"}]
    OBVIOUS
  <2>2. /\ d \in DragState /\ d.seat /\ d.top = x.d.top /\ d.version = x.d.version
        /\ d.flags = x.d.flags \cup {"PendingDrop"}
    BY <1>2, <2>1 DEF DragState, Flags, PerTarget
  <2>3. PICK a : a = [x EXCEPT !.d = d]
    OBVIOUS
  <2>4. a \in Working /\ SameSeat(x, a) /\ a.src = x.src /\ a.out = x.out /\ a.d = d
    BY <2>2, <2>3 DEF Working, SameSeat
  <2>5. z = StartFinishTimeout(a)
    BY <1>3, <1>6, <2>1, <2>3 DEF XLDoDragDrop, Working
  <2>6. z \in Working /\ Waited(a, z)
    BY <1>1, <1>2, <2>4, <2>5, StartFinishTimeoutIs DEF SameSeat
  <2>7. /\ z.s = x.s /\ z.crashed = x.crashed /\ z.o = x.o /\ z.d = d /\ z.out = x.out /\ z.src = x.src
        /\ z.f.source = n /\ z.f.key = n /\ z.f.timeout = n /\ z.f.registered = {n} /\ z.f.timers = {n}
    BY <1>1, <1>2, <2>4, <2>6 DEF Waited, SameSeat
  <2>8. Performed(x, z, n)
    BY <2>7 DEF Performed
  <2>9. /\ y \in Working /\ Endable(y) /\ SameSeat(z, y) /\ y.d = d /\ y.out = x.out
        /\ Counted(x) => Counted(y)
        /\ Counted(x) /\ Told(x) => Told(y)
    BY <1>4, <1>5, <2>2, <2>6, <2>7, <2>8
  <2>10. Targeted(y, in)
    BY <1>2, <2>2, <2>9 DEF Targeted, AllInform, Ready
  <2>11. Awaited(x, p, q) => Awaited(y, p, q)
    <3> SUFFICES ASSUME Awaited(x, p, q)
                 PROVE  Awaited(y, p, q)
      OBVIOUS
    <3>1. NoDrops(x, p, q)
      BY DraggingQuiet DEF Steady
    <3>2. NoDrops(y, p, q)
      BY <2>9, <3>1 DEF NoDrops, DropAt
    <3> QED
      BY <3>2, NoDropsAwaited
  <2> QED
    BY <2>9, <2>10, <2>11 DEF Kept
<1>7. CASE "WaitingForStatus" \notin x.d.flags
  <2>1. PICK b : b = StartFinishTimeout(x)
    OBVIOUS
  <2>2. b \in Working /\ Waited(x, b)
    BY <1>1, <1>2, <2>1, StartFinishTimeoutIs
  <2>3. /\ b.s = x.s /\ b.crashed = x.crashed /\ b.o = x.o /\ b.d = x.d /\ b.out = x.out /\ b.src = x.src
        /\ b.f.source = n /\ b.f.key = n /\ b.f.timeout = n /\ b.f.registered = {n} /\ b.f.timers = {n}
    BY <1>1, <1>2, <2>2 DEF Waited
  <2>4. z = SendDrop(b)
    BY <1>3, <1>7, <2>1 DEF XLDoDragDrop
  <2>5. z \in Working /\ Dropped(b, z)
    BY <1>2, <2>2, <2>3, <2>4, SendDropIs
  <2>6. /\ z.s = x.s /\ z.crashed = x.crashed /\ z.o = x.o /\ z.d = x.d
        /\ z.f.source = n /\ z.f.key = n /\ z.f.timeout = n /\ z.f.registered = {n} /\ z.f.timers = {n}
        /\ Performed(x, z, n)
    BY <2>3, <2>5 DEF Dropped, SameSeat, Performed
  <2>7. /\ y \in Working /\ Endable(y) /\ SameSeat(z, y) /\ y.d = x.d /\ y.out = z.out
        /\ Counted(x) => Counted(y)
        /\ Counted(x) /\ Told(x) => Told(y)
        /\ Untold(y, y.f.source)
    BY <1>2, <1>4, <1>5, <2>5, <2>6
  <2>8. y.f.source = n /\ Waiting(y)
    BY <1>2, <2>6, <2>7 DEF SameSeat, Waiting
  <2>9. CASE x.d.top = Nowhere
    <3>1. y.out = x.out
      BY <2>3, <2>5, <2>7, <2>9 DEF Dropped, Sent
    <3>2. Targeted(y, in)
      BY <1>2, <2>7, <2>8, <3>1 DEF Targeted, AllInform
    <3>3. Awaited(x, p, q) => Awaited(y, p, q)
      <4> SUFFICES ASSUME Awaited(x, p, q)
                   PROVE  Awaited(y, p, q)
        OBVIOUS
      <4>1. NoDrops(x, p, q)
        BY DraggingQuiet DEF Steady
      <4>2. NoDrops(y, p, q)
        BY <3>1, <4>1 DEF NoDrops, DropAt
      <4> QED
        BY <4>2, NoDropsAwaited
    <3> QED
      BY <2>7, <3>2, <3>3 DEF Kept
  <2>10. CASE x.d.top # Nowhere
    <3>1. PICK t : t = x.d.top
      OBVIOUS
    <3>2. t \in Toplevels /\ "Drop" \in Messages
      BY <1>2, <2>10, <3>1 DEF DragState, Messages
    <3>3. y.out = [x.out EXCEPT ![t] = Append(@, "Drop")]
      <4>1. ~(x.d.version < 3)
        BY <1>2 DEF DragState
      <4> QED
        BY <2>3, <2>5, <2>7, <2>10, <3>1, <4>1 DEF Dropped, Sent
    <3>4. AllInform(x, in) /\ Ready(x, in, t)
      BY <1>2, <2>10, <3>1 DEF Targeted
    <3>5. Queued(x, y, in, t, "Drop")
      BY <2>7, <3>2, <3>3, <3>4, PutInforms
    <3>6. Targeted(y, in)
      BY <1>2, <2>7, <2>8, <3>5 DEF Targeted, Queued
    <3>7. Awaited(x, p, q) => Awaited(y, p, q)
      <4> SUFFICES ASSUME Awaited(x, p, q)
                   PROVE  Awaited(y, p, q)
        OBVIOUS
      <4>1. NoDrops(x, p, q)
        BY DraggingQuiet DEF Steady
      <4>2. \A u \in Toplevels, i \in Nat :
              DropAt(y, u, i) <=> DropAt(x, u, i) \/ (u = t /\ i = Len(x.out[t]) + 1)
        BY <2>7, <3>2, <3>3, PutDrops
      <4>3. \A u \in Toplevels, i \in Nat : DropAt(y, u, i) => u = t /\ i = Len(x.out[t]) + 1
        BY <4>1, <4>2 DEF NoDrops
      <4>4. OneDrop(y, p, q)
        BY <4>1, <4>3 DEF NoDrops, OneDrop
      <4> QED
        BY <2>8, <4>4 DEF Awaited
    <3> QED
      BY <2>7, <3>6, <3>7 DEF Kept
  <2> QED
    BY <2>9, <2>10
<1> QED
  BY <1>6, <1>7

\* The drop on a client: the offer under the pointer is marked, the source counts.
LEMMA DropInsideSound ==
  ASSUME Parameters, NEW in \in [Toplevels -> BOOLEAN], NEW x \in Working, Steady(x), x.s.dragging, Targeted(x, in),
         x.s.over # Nowhere, NEW p, NEW q,
         NEW y, y = XLDataSourceSendDropPerformed(XLDataDeviceSendDrop(x), x.s.source)
  PROVE  y \in Working /\ Endable(y) /\ Targeted(y, in) /\ Kept(x, y, p, q)
<1>1. PICK n : n = x.s.source
  OBVIOUS
<1>2. PICK k : k = <<n, x.s.over>>
  OBVIOUS
<1>3. /\ n \in Drags /\ n # NoSource /\ x.f.source = NoSource /\ ~x.crashed
      /\ k \in Offers /\ k[1] = n /\ x.dev.current = k /\ x.o[k].held /\ k # NoOffer
      /\ x.src[n].ended = <<>>
  <2>1. n \in Drags /\ n # NoSource /\ x.f.source = NoSource /\ ~x.crashed /\ x.src[n].ended = <<>>
    BY <1>1 DEF Steady, Begun, Working, Seat
  <2>2. x.s.over \in Surfaces
    BY DEF Working, Seat
  <2>3. k \in Offers /\ k[1] = n /\ k # NoOffer
    BY <1>2, <2>1, <2>2 DEF Offers, NoOffer, NoSource, Drags
  <2> QED
    BY <1>1, <1>2, <2>1, <2>3 DEF Steady, Over
<1>4. PICK b : b = x.o[k]
  OBVIOUS
<1>5. PICK c : c = [b EXCEPT !.dropped = TRUE]
  OBVIOUS
<1>6. b \in Offer
  BY <1>3, <1>4 DEF Working
<1>7. c \in Offer /\ c.dropped /\ c.state = b.state
  BY <1>5, <1>6 DEF Offer
<1>8. PICK z : z = SetOffer(x, k, c)
  OBVIOUS
<1>9. z \in Working /\ OfferSet(x, z, k, c)
  BY <1>3, <1>7, <1>8, SetOfferIs
<1>10. y = XLDataSourceSendDropPerformed(z, n)
  BY <1>1, <1>3, <1>4, <1>5, <1>8 DEF XLDataDeviceSendDrop, SetOffer, Working
<1>11. y \in Working /\ SameSeat(z, y) /\ y.d = z.d /\ y.out = z.out /\ Performed(z, y, n) /\ y.src[n].performed > 0
  BY SMTT(30), <1>3, <1>9, <1>10, PerformedIs
<1>12. /\ y.s = x.s /\ y.d = x.d /\ y.f = x.f /\ y.out = x.out /\ y.crashed = x.crashed
       /\ y.o[k] = c /\ \A l \in Offers : l # k => y.o[l] = x.o[l]
       /\ Performed(x, y, n)
  BY <1>9, <1>11 DEF OfferSet, SameSeat, Performed
<1>13. Endable(y)
  BY <1>1, <1>3, <1>12 DEF Endable, Steady, Begun, Watched
<1>14. Targeted(y, in)
  BY <1>12 DEF Targeted, AllInform, Ready
<1>15. Counted(x) => Counted(y)
  <2>1. \A m \in Drags : x.src[m].performed > 0 => y.src[m].performed > 0
    BY <1>11, <1>12 DEF Performed
  <2>2. \A l \in Offers : l[1] \in Drags
    BY SMTT(30) DEF Offers
  <2> QED
    BY SMTT(30), <1>3, <1>11, <1>12, <2>1, <2>2 DEF Counted
<1>16. ASSUME Counted(x), Told(x)
       PROVE  Told(y)
  <2>1. \A l \in Offers : l[1] = n => ~x.o[l].dropped
    BY <1>1, <1>16, DraggedFresh DEF Steady
  <2>2. \A m \in Drags : y.src[m].ended = x.src[m].ended
    BY <1>12 DEF Performed
  <2>3. \A l, m \in Offers : y.o[l].dropped /\ y.o[m].dropped /\ l[1] = m[1] => l = m
    BY <1>3, <1>12, <1>16, <2>1 DEF Told
  <2>4. \A l \in Offers : y.o[l].dropped /\ "IsFinished" \notin y.o[l].state => Untold(y, l[1])
    <3>1. \A l \in Offers : l[1] \in Drags
      BY DEF Offers
    <3> QED
      BY <1>3, <1>12, <1>16, <2>2, <3>1 DEF Told, Untold
  <2>5. \A m \in Drags : Alike(y, m)
    BY <1>16, <2>2 DEF Told, Alike
  <2> QED
    BY <1>3, <1>12, <2>3, <2>4, <2>5 DEF Told
<1>17. Awaited(x, p, q) => Awaited(y, p, q)
  <2> SUFFICES ASSUME Awaited(x, p, q)
               PROVE  Awaited(y, p, q)
    OBVIOUS
  <2>1. NoDrops(x, p, q)
    BY DraggingQuiet DEF Steady
  <2>2. NoDrops(y, p, q)
    BY <1>12, <2>1 DEF NoDrops, DropAt
  <2> QED
    BY <2>2, NoDropsAwaited
<1> QED
  BY <1>11, <1>13, <1>14, <1>15, <1>16, <1>17 DEF Kept

LEMMA OneEnd ==
  ASSUME NEW m
  PROVE  \A i, j \in DOMAIN Append(<<>>, m) : Append(<<>>, m)[i] = Append(<<>>, m)[j]
OBVIOUS

\* No drop: the source is told.
LEMMA NoDropSound ==
  ASSUME NEW in \in [Toplevels -> BOOLEAN], NEW x \in Working, Steady(x), x.s.dragging, Targeted(x, in),
         NEW p, NEW q, NEW y, y = SendCancelled(x, x.s.source)
  PROVE  y \in Working /\ Endable(y) /\ Targeted(y, in) /\ Kept(x, y, p, q)
<1>1. PICK n : n = x.s.source
  OBVIOUS
<1>2. /\ n \in Drags /\ n # NoSource /\ x.f.source = NoSource /\ ~x.crashed
      /\ x.src[n].ended = <<>>
  BY <1>1 DEF Steady, Begun, Working, Seat
<1>3. y = [x EXCEPT !.src[n].ended = Append(@, "cancelled")]
  BY <1>1 DEF SendCancelled
<1>4. y \in Working /\ Ended(x, y, n, "cancelled")
  BY <1>2, <1>3, EndedIs
<1>5. /\ y.s = x.s /\ y.d = x.d /\ y.f = x.f /\ y.out = x.out /\ y.crashed = x.crashed /\ y.o = x.o
      /\ \A m \in Drags : y.src[m].performed = x.src[m].performed
      /\ \A m \in Drags : m # n => y.src[m].ended = x.src[m].ended
      /\ y.src[n].ended = Append(<<>>, "cancelled")
  BY <1>2, <1>4 DEF Ended, SameSeat
<1>6. Endable(y)
  BY <1>1, <1>2, <1>5 DEF Endable, Steady, Begun, Watched
<1>7. Targeted(y, in)
  BY <1>5 DEF Targeted, AllInform, Ready
<1>8. \A l \in Offers : l[1] \in Drags
  BY DEF Offers
<1>9. Counted(x) => Counted(y)
  BY <1>2, <1>5, <1>8 DEF Counted
<1>10. ASSUME Counted(x), Told(x)
       PROVE  Told(y)
  <2>1. \A l \in Offers : l[1] = n => ~x.o[l].dropped
    BY <1>1, <1>10, DraggedFresh DEF Steady
  <2>2. \A l \in Offers : y.o[l].dropped /\ "IsFinished" \notin y.o[l].state => Untold(y, l[1])
    BY SMTT(30), <1>5, <1>8, <1>10, <2>1 DEF Told, Untold
  <2>3. \A m \in Drags : Alike(y, m)
    BY <1>5, <1>10, OneEnd DEF Told, Alike
  <2> QED
    BY <1>2, <1>5, <1>10, <2>2, <2>3 DEF Told
<1>11. Awaited(x, p, q) => Awaited(y, p, q)
  <2> SUFFICES ASSUME Awaited(x, p, q)
               PROVE  Awaited(y, p, q)
    OBVIOUS
  <2>1. NoDrops(x, p, q)
    BY DraggingQuiet DEF Steady
  <2>2. NoDrops(y, p, q)
    BY <1>5, <2>1 DEF NoDrops, DropAt
  <2> QED
    BY <2>2, NoDropsAwaited
<1> QED
  BY <1>4, <1>6, <1>7, <1>9, <1>10, <1>11 DEF Kept

LEMMA DragButtonSound ==
  ASSUME Parameters, NEW in \in [Toplevels -> BOOLEAN], NEW x \in Working, Steady(x), x.s.dragging, Targeted(x, in),
         NEW p, NEW q, NEW r, r = DragButton(x)
  PROVE  r \in Working /\ Steady(r) /\ Targeted(r, in) /\ Kept(x, r, p, q)
<1>1. PICK y : y = IF CanDropOutside(x) THEN XLDataSourceSendDropPerformed(XLDoDragDrop(x), x.s.source)
                   ELSE IF x.s.over # Nowhere /\ XLDataSourceCanDrop(x, x.s.source)
                   THEN XLDataSourceSendDropPerformed(XLDataDeviceSendDrop(x), x.s.source)
                   ELSE SendCancelled(x, x.s.source)
  OBVIOUS
<1>2. y \in Working /\ Endable(y) /\ Targeted(y, in) /\ Kept(x, y, p, q)
  <2>1. CASE CanDropOutside(x)
    BY <1>1, <2>1, DropOutsideSound
  <2>2. CASE ~CanDropOutside(x) /\ x.s.over # Nowhere /\ XLDataSourceCanDrop(x, x.s.source)
    BY <1>1, <2>2, DropInsideSound
  <2>3. CASE ~CanDropOutside(x) /\ ~(x.s.over # Nowhere /\ XLDataSourceCanDrop(x, x.s.source))
    BY <1>1, <2>3, NoDropSound
  <2> QED
    BY <2>1, <2>2, <2>3
<1>3. PICK s : s = [y.s EXCEPT !.dropped = TRUE]
  OBVIOUS
<1>4. s \in Seat /\ s.dragging = y.s.dragging /\ s.source = y.s.source
  <2>1. y.s \in Seat
    BY <1>2 DEF Working
  <2> QED
    BY <1>3, <2>1 DEF Seat
<1>5. PICK z : z = SetSeat(y, s)
  OBVIOUS
<1>6. z \in Working /\ SeatSet(y, z, s) /\ OnlySeat(y, z)
  BY <1>2, <1>4, <1>5, SetSeatIs
<1>7. Watched(z)
  BY <1>2, <1>6, WatchedStill DEF Endable
<1>8. Endable(z) /\ Targeted(z, in)
  BY <1>2, <1>4, <1>6, <1>7 DEF Endable, SeatSet, Targeted, AllInform, Ready
<1>9. SameOutcome(y, z)
  BY <1>6, SameDropsOut DEF SameOutcome, OnlySeat, SeatSet
<1>10. r = CancelDrag(z)
  BY <1>1, <1>2, <1>3, <1>5 DEF DragButton, SetSeat, Working
<1>11. r \in Working /\ Steady(r) /\ Targeted(r, in) /\ SameOutcome(z, r)
  BY <1>6, <1>8, <1>10, CancelDragSound
<1>12. Kept(x, r, p, q)
  <2>1. Kept(y, z, p, q)
    BY <1>2, <1>9, SameOutcomeKept
  <2>2. Kept(z, r, p, q)
    BY <1>6, <1>11, SameOutcomeKept
  <2>3. Kept(y, r, p, q)
    BY <2>1, <2>2, KeptTwice
  <2> QED
    BY <1>2, <2>3, KeptTwice
<1> QED
  BY <1>11, <1>12

-----------------------------------------------------------------------------
(* Modifiers, the beginning of a drag, and the answers of the targets.     *)

LEMMA PositionSound ==
  ASSUME NEW in \in [Toplevels -> BOOLEAN], NEW x \in Working, Steady(x), Targeted(x, in),
         NEW inside \in BOOLEAN, NEW y, y = SendPosition(x, inside)
  PROVE  y \in Working /\ Steady(y) /\ Targeted(y, in) /\ OnlyDrag(x, y) /\ y.src = x.src
<1>1. x.d.seat => x.s.source # NoSource \/ x.f.source # NoSource
  BY DEF Steady, Begun
<1>2. y \in Working /\ SameSeat(x, y) /\ y.src = x.src /\ SameDrag(x, y) /\ Positioned(x, y)
  BY <1>1, SendPositionIs
<1>3. SameDrops(x, y) /\ Targeted(y, in)
  BY <1>2, PositionInforms
<1>4. OnlyDrag(x, y)
  BY <1>2, <1>3 DEF OnlyDrag, SameSources, SameDrag, Flags, PerTarget
<1>5. Selected(y)
  BY <1>2 DEF Steady, Selected, SameSeat, SameDrag, Flags
<1>6. x.s.dragging => x.s.over = Nowhere \/ (y.d.top = Nowhere /\ y.src = x.src)
  BY <1>2 DEF Steady, Over, SameDrag
<1>7. /\ y.d.seat => x.s.dragging \/ x.f.source # NoSource
      /\ ~y.d.seat => y.d.top = Nowhere /\ y.d.flags = {}
  BY <1>2 DEF Steady, Begun, SameDrag
<1>8. Steady(y)
  BY <1>2, <1>4, <1>5, <1>6, <1>7, SteadyDrag
<1> QED
  BY <1>2, <1>3, <1>4, <1>8

LEMMA ModifiersSound ==
  ASSUME Parameters, NEW in \in [Toplevels -> BOOLEAN], NEW x \in Working, Steady(x), Targeted(x, in),
         NEW inside \in BOOLEAN, NEW r, r = SendUpdatedModifiers(x, inside)
  PROVE  r \in Working /\ Steady(r) /\ Targeted(r, in) /\ SameOutcome(x, r)
<1>1. PICK y : y = IF x.d.seat THEN SendPosition([x EXCEPT !.d.shift = x.s.shift], inside) ELSE x
  OBVIOUS
<1>2. y \in Working /\ Steady(y) /\ Targeted(y, in) /\ OnlyDrag(x, y) /\ y.src = x.src
  <2>1. CASE x.d.seat
    <3>1. PICK d : d = [x.d EXCEPT !.shift = x.s.shift]
      OBVIOUS
    <3>2. /\ d \in DragState /\ d.seat /\ d.top = x.d.top /\ d.flags = x.d.flags /\ d.version = x.d.version
          /\ d.selection = x.d.selection
      <4>1. x.s.shift \in BOOLEAN /\ x.d \in DragState
        BY DEF Working, Seat
      <4> QED
        BY <2>1, <3>1, <4>1 DEF DragState
    <3>3. PICK u : u = [x EXCEPT !.d = d]
      OBVIOUS
    <3>4. u \in Working /\ SameSeat(x, u) /\ u.src = x.src /\ u.d = d /\ u.out = x.out
      BY <3>2, <3>3 DEF Working, SameSeat
    <3>5. OnlyDrag(x, u) /\ Targeted(u, in) /\ Selected(u)
      BY <3>2, <3>4, SameDropsOut DEF OnlyDrag, SameSources, Targeted, AllInform, Ready, SameSeat, Selected, Steady
    <3>6. x.s.dragging => x.s.over = Nowhere \/ (u.d.top = Nowhere /\ u.src = x.src)
      BY <3>2, <3>4 DEF Steady, Over
    <3>7. /\ u.d.seat => x.s.dragging \/ x.f.source # NoSource
          /\ ~u.d.seat => u.d.top = Nowhere /\ u.d.flags = {}
      BY <2>1, <3>2, <3>4 DEF Steady, Begun
    <3>8. Steady(u)
      BY <3>4, <3>5, <3>6, <3>7, SteadyDrag
    <3>9. y = SendPosition(u, inside)
      BY <1>1, <2>1, <3>1, <3>3 DEF Working
    <3>10. y \in Working /\ Steady(y) /\ Targeted(y, in) /\ OnlyDrag(u, y) /\ y.src = u.src
      BY <3>4, <3>5, <3>8, <3>9, PositionSound
    <3> QED
      BY <3>4, <3>5, <3>10, OnlyDragTwice
  <2>2. CASE ~x.d.seat
    BY <1>1, <2>2 DEF OnlyDrag, SameSeat, SameSources, SameDrops
  <2> QED
    BY <2>1, <2>2
<1>3. CASE y.s.dragging /\ y.s.source # NoSource /\ y.s.over # Nowhere
  <2>1. PICK n : n = y.s.source
    OBVIOUS
  <2>2. n \in Drags
    BY <1>2, <1>3, <2>1 DEF Working, Seat
  <2>3. r = UpdateDeviceActions(y, n)
    BY <1>1, <1>3, <2>1 DEF SendUpdatedModifiers
  <2>4. r \in Working /\ Updated(y, r)
    BY <1>2, <2>1, <2>2, <2>3, UpdateDeviceActionsIs DEF Steady
  <2>5. Steady(r) /\ Targeted(r, in) /\ SameOutcome(y, r)
    BY <1>2, <2>4, SteadyDevice DEF Steady, Updated
  <2> QED
    BY <1>2, <2>4, <2>5, OnlyDragOutcome, SameOutcomeTwice
<1>4. CASE ~(y.s.dragging /\ y.s.source # NoSource /\ y.s.over # Nowhere)
  <2>1. r = y
    BY <1>1, <1>4 DEF SendUpdatedModifiers
  <2> QED
    BY <1>2, <2>1, OnlyDragOutcome
<1> QED
  BY <1>3, <1>4

\* ~Overlap: the last drag is over.
LEMMA BeginDragSound ==
  ASSUME NEW in \in [Toplevels -> BOOLEAN], NEW x \in Working, Steady(x), Targeted(x, in), ~x.s.dragging,
         x.f.source = NoSource, NEW n \in Drags, x.src[n].alive, x.src[n].performed = 0, x.src[n].ended = <<>>,
         NEW r, r = XLSeatBeginDrag(x, n)
  PROVE  r \in Working /\ Steady(r) /\ Targeted(r, in) /\ SameOutcome(x, r)
<1>1. PICK s : s = [x.s EXCEPT !.dragging = TRUE, !.dropped = FALSE, !.source = n]
  OBVIOUS
<1>2. /\ s \in Seat /\ s.dragging /\ s.source = n /\ s.over = x.s.over
  <2>1. x.s \in Seat
    BY DEF Working
  <2> QED
    BY <1>1, <2>1 DEF Seat
<1>3. PICK z : z = SetSeat(x, s)
  OBVIOUS
<1>4. z \in Working /\ SeatSet(x, z, s) /\ OnlySeat(x, z)
  BY <1>2, <1>3, SetSeatIs
<1>5. PICK p : p = z.src[n]
  OBVIOUS
<1>6. PICK q : q = [p EXCEPT !.attached = TRUE]
  OBVIOUS
<1>7. p \in Source
  BY <1>4, <1>5 DEF Working
<1>8. q \in Source
  BY <1>6, <1>7 DEF Source
<1>9. SameSource(p, q)
  BY <1>6, <1>7 DEF Source, SameSource
<1>10. r = SetSource(z, n, q)
  BY <1>1, <1>3, <1>4, <1>5, <1>6 DEF XLSeatBeginDrag, SetSeat, SetSource, Working
<1>11. r \in Working /\ SourceSet(z, r, n, q) /\ OnlyDevice(z, r)
  BY <1>4, <1>5, <1>8, <1>9, <1>10, SourcePart
<1>12. OnlySeat(x, r) /\ r.d = x.d /\ r.out = x.out /\ r.s = s
  BY <1>4, <1>11, OnlySeatTwice DEF OnlyDevice, OnlySeat, SeatSet
<1>13. Watched(r)
  BY <1>12, WatchedStill DEF Steady
<1>14. r.f = x.f /\ r.crashed = x.crashed /\ SameSource(x.src[n], r.src[n])
  BY <1>12 DEF OnlySeat
<1>15. ~x.d.seat /\ x.d.top = Nowhere /\ x.d.flags = {} /\ x.s.over = Nowhere
  BY DEF Steady, Begun
<1>16. Begun(r)
  <2>1. n # NoSource
    BY DEF NoSource, Drags
  <2>2. r.src[n].alive /\ r.src[n].ended = <<>> /\ r.src[n].performed = 0
    BY <1>14 DEF SameSource
  <2>3. r.s.dragging /\ r.s.source = n /\ ~r.d.seat /\ r.d.top = Nowhere /\ r.d.flags = {} /\ r.f.source = NoSource
    BY <1>2, <1>12, <1>14, <1>15
  <2> QED
    BY <2>1, <2>2, <2>3 DEF Begun
<1>17. Selected(r) /\ Over(r) /\ Agreed(r) /\ ~r.crashed
  BY <1>2, <1>12, <1>14, <1>15 DEF Selected, Over, Agreed, Steady
<1>18. Targeted(r, in)
  BY <1>12, <1>14 DEF Targeted, AllInform, Ready
<1>19. SameOutcome(x, r)
  BY <1>12, SameDropsOut DEF OnlySeat, SameOutcome
<1> QED
  BY <1>11, <1>13, <1>16, <1>17, <1>18, <1>19 DEF Steady

SetFinish(x, f) == [x EXCEPT !.f = f]

FinishSet(x, y, f) ==
  /\ y.s = x.s /\ y.d = x.d /\ y.f = f /\ y.src = x.src /\ y.dev = x.dev
  /\ y.out = x.out /\ y.crashed = x.crashed /\ y.o = x.o

LEMMA SetFinishIs ==
  ASSUME NEW x \in Working, NEW f \in FinishState, NEW y, y = SetFinish(x, f)
  PROVE  y \in Working /\ FinishSet(x, y, f)
BY DEF SetFinish, Working, FinishSet

\* A timer and a callback that are there are taken away.
LEMMA RemoveTimerIs ==
  ASSUME NEW x \in Working, NEW t \in x.f.timers, NEW f, f = [x.f EXCEPT !.timers = @ \ {t}],
         NEW y, y = RemoveTimer(x, t)
  PROVE  y \in Working /\ FinishSet(x, y, f)
<1>1. x.f \in FinishState
  BY DEF Working
<1>2. f \in FinishState
  BY <1>1 DEF FinishState
<1>3. y = SetFinish(x, f)
  BY DEF RemoveTimer, SetFinish, Working
<1> QED
  BY <1>2, <1>3, SetFinishIs

LEMMA CancelCallbackIs ==
  ASSUME NEW x \in Working, NEW key \in x.f.registered, NEW f, f = [x.f EXCEPT !.registered = @ \ {key}],
         NEW y, y = CancelDestroyCallback(x, key)
  PROVE  y \in Working /\ FinishSet(x, y, f)
<1>1. x.f \in FinishState
  BY DEF Working
<1>2. f \in FinishState
  BY <1>1 DEF FinishState
<1>3. y = SetFinish(x, f)
  BY DEF CancelDestroyCallback, SetFinish, Working
<1> QED
  BY <1>2, <1>3, SetFinishIs

\* Nothing is waited for any more.
Idle(f) == f \in FinishState /\ f.source = NoSource /\ f.timers = {} /\ f.registered = {}

Settled(x, r) ==
  /\ r.s = x.s /\ r.f = x.f /\ r.src = x.src /\ r.o = x.o /\ SameDrops(x, r)

LEMMA WaitOverSound ==
  ASSUME NEW in \in [Toplevels -> BOOLEAN], NEW x \in Working, AllInform(x, in),
         ~x.s.dragging, x.s.source = NoSource, x.s.over = Nowhere, Idle(x.f), ~x.crashed,
         NEW r, r = FinishDrag(x)
  PROVE  r \in Working /\ Steady(r) /\ Targeted(r, in) /\ Settled(x, r)
<1>1. r \in Working /\ Finished(x, r)
  BY FinishDragIs
<1>2. SameDrops(x, r) /\ AllInform(r, in)
  BY <1>1, LeaveInforms DEF Finished
<1>3. x.d \in DragState
  BY DEF Working
<1>4. ~r.d.seat /\ r.d.top = Nowhere /\ r.d.flags = {}
  BY <1>1, <1>3 DEF Finished, DragState
<1>5. Settled(x, r) /\ ~r.crashed
  BY <1>1, <1>2 DEF Finished, SameSeat, Settled
<1>6. Steady(r)
  BY <1>4, <1>5 DEF Steady, Begun, Selected, Over, Watched, Agreed, Settled, Idle
<1> QED
  BY <1>1, <1>2, <1>4, <1>5, <1>6 DEF Targeted

\* The end of the wait is the end of what was dropped.
Unwaited(x, r, n, m) ==
  /\ r.f.source = NoSource /\ r.o = x.o /\ SameDrops(x, r)
  /\ \A k \in Drags : r.src[k].performed = x.src[k].performed
  /\ \A k \in Drags : k # n => r.src[k].ended = x.src[k].ended
  /\ r.src[n].ended = Append(x.src[n].ended, m)

LEMMA OneMore ==
  ASSUME NEW e \in Seq({"cancelled", "finished"}), NEW m \in {"cancelled", "finished"},
         e = <<>> \/ (m = "cancelled" /\ \A i \in DOMAIN e : e[i] = "cancelled"),
         NEW f, f = Append(e, m)
  PROVE  \A i \in DOMAIN f : f[i] = m
OBVIOUS

LEMMA UnwaitedKept ==
  ASSUME NEW x \in Working, NEW n \in Drags, x.f.source = n, n # NoSource, NEW m \in {"cancelled", "finished"},
         NEW r, Unwaited(x, r, n, m), m = "cancelled" \/ Untold(x, n)
  PROVE  (Counted(x) => Counted(r)) /\ (Told(x) => Told(r))
<1>1. \A l \in Offers : l[1] \in Drags
  BY DEF Offers
<1>2. Counted(x) => Counted(r)
  BY <1>1 DEF Counted, Unwaited
<1>3. ASSUME Told(x)
      PROVE  Told(r)
  <2>1. \A l \in Offers : l[1] = n => ~r.o[l].dropped
    BY <1>3 DEF Told, Unwaited
  <2>2. \A l \in Offers : r.o[l].dropped /\ "IsFinished" \notin r.o[l].state => Untold(r, l[1])
    BY <1>1, <1>3, <2>1 DEF Told, Untold, Unwaited
  <2>3. Alike(r, n)
    <3>1. x.src[n].ended \in Seq({"cancelled", "finished"})
      BY DEF Working, Source
    <3>2. PICK e \in Seq({"cancelled", "finished"}) : e = x.src[n].ended
      BY <3>1
    <3>3. PICK f : f = Append(e, m)
      OBVIOUS
    <3>4. e = <<>> \/ (m = "cancelled" /\ \A i \in DOMAIN e : e[i] = "cancelled")
      BY <1>3, <3>2 DEF Told, Cancelled, Untold
    <3>5. \A i \in DOMAIN f : f[i] = m
      BY <3>3, <3>4, OneMore
    <3>6. r.src[n].ended = f
      BY <3>2, <3>3 DEF Unwaited
    <3> QED
      BY <3>5, <3>6 DEF Alike
  <2>4. ASSUME NEW k \in Drags
        PROVE  Alike(r, k)
    <3>1. CASE k = n
      BY <2>3, <3>1
    <3>2. CASE k # n
      <4>1. r.src[k].ended = x.src[k].ended
        BY <3>2 DEF Unwaited
      <4>2. Alike(x, k)
        BY <1>3 DEF Told
      <4> QED
        BY <4>1, <4>2 DEF Alike
    <3> QED
      BY <3>1, <3>2
  <2> QED
    BY <1>3, <2>2, <2>4 DEF Told, Unwaited
<1> QED
  BY <1>2, <1>3

LEMMA EndedInforms ==
  ASSUME NEW x, NEW y, NEW in, AllInform(x, in), y.out = x.out
  PROVE  AllInform(y, in) /\ SameDrops(x, y)
BY DEF AllInform, SameDrops, DropAt

LEMMA XdndFinishedSound ==
  ASSUME NEW in \in [Toplevels -> BOOLEAN], NEW x \in Working, Steady(x), Targeted(x, in), x.f.source # NoSource,
         NEW m, NEW r, r = HandleXdndFinished(x, m)
  PROVE  /\ r \in Working /\ Steady(r) /\ Targeted(r, in)
         /\ \E e \in {"cancelled", "finished"} : Unwaited(x, r, x.f.source, e)
<1>1. PICK n : n = x.f.source
  OBVIOUS
<1>2. /\ n \in Drags /\ n # NoSource /\ ~x.s.dragging /\ x.s.source = NoSource /\ x.s.over = Nowhere
      /\ x.f.timers = {n} /\ x.f.registered = {n} /\ x.f.timeout = n /\ x.f.key = n /\ ~x.crashed
  BY <1>1 DEF Steady, Begun, Watched, Working, FinishState
<1>3. PICK e \in {"cancelled", "finished"} : e = IF x.f.version < 5 \/ m.odd THEN "finished" ELSE "cancelled"
  OBVIOUS
<1>4. PICK told : told = [x EXCEPT !.src[n].ended = Append(@, e)]
  OBVIOUS
<1>5. told \in Working /\ Ended(x, told, n, e)
  BY <1>2, <1>4, EndedIs
<1>6. told = IF x.f.version < 5 \/ m.odd THEN SendFinished(x, n) ELSE SendCancelled(x, n)
  BY <1>3, <1>4 DEF SendFinished, SendCancelled
<1>7. told.f = x.f
  BY <1>5 DEF Ended, SameSeat
<1>8. PICK f1 : f1 = [x.f EXCEPT !.source = NoSource]
  OBVIOUS
<1>9. /\ f1 \in FinishState /\ f1.source = NoSource /\ f1.timers = {n} /\ f1.registered = {n}
  BY <1>2, <1>8 DEF Working, FinishState
<1>10. PICK a : a = SetFinish(told, f1)
  OBVIOUS
<1>11. a \in Working /\ FinishSet(told, a, f1)
  BY <1>5, <1>9, <1>10, SetFinishIs
<1>12. PICK b : b = CancelDestroyCallback(a, n)
  OBVIOUS
<1>13. PICK f2 : f2 = [f1 EXCEPT !.registered = @ \ {n}]
  OBVIOUS
<1>14. n \in a.f.registered /\ f2 = [a.f EXCEPT !.registered = @ \ {n}]
  BY <1>9, <1>11, <1>13 DEF FinishSet
<1>15. b \in Working /\ FinishSet(a, b, f2)
  BY <1>11, <1>12, <1>14, CancelCallbackIs
<1>16. f2 \in FinishState /\ f2.source = NoSource /\ f2.timers = {n} /\ f2.registered = {}
  BY <1>9, <1>13 DEF FinishState
<1>17. PICK c : c = RemoveTimer(b, n)
  OBVIOUS
<1>18. PICK f3 : f3 = [f2 EXCEPT !.timers = @ \ {n}]
  OBVIOUS
<1>19. n \in b.f.timers /\ f3 = [b.f EXCEPT !.timers = @ \ {n}]
  BY <1>15, <1>16, <1>18 DEF FinishSet
<1>20. c \in Working /\ FinishSet(b, c, f3)
  BY <1>15, <1>17, <1>19, RemoveTimerIs
<1>21. f3 \in FinishState /\ f3.source = NoSource /\ f3.timers = {} /\ f3.registered = {}
  BY <1>16, <1>18 DEF FinishState
<1>22. PICK f4 : f4 = [f3 EXCEPT !.timeout = NoSource]
  OBVIOUS
<1>23. f4 \in FinishState /\ Idle(f4)
  BY <1>21, <1>22 DEF FinishState, Idle
<1>24. PICK d : d = SetFinish(c, f4)
  OBVIOUS
<1>25. d \in Working /\ FinishSet(c, d, f4)
  BY <1>20, <1>23, <1>24, SetFinishIs
<1>26. /\ d.s = x.s /\ d.crashed = x.crashed /\ d.o = x.o /\ d.out = x.out /\ d.f = f4 /\ d.src = told.src
  BY <1>5, <1>11, <1>15, <1>20, <1>25 DEF FinishSet, Ended, SameSeat
<1>27. r = FinishDrag(d)
  <2>1. a = [told EXCEPT !.f.source = NoSource]
    BY <1>5, <1>7, <1>8, <1>10 DEF SetFinish, Working
  <2>2. d = [c EXCEPT !.f.timeout = NoSource]
    BY <1>20, <1>22, <1>24 DEF SetFinish, FinishSet, Working
  <2> QED
    BY ZenonT(30), <1>1, <1>2, <1>6, <1>12, <1>17, <2>1, <2>2 DEF HandleXdndFinished
<1>28. AllInform(d, in) /\ SameDrops(x, d)
  BY <1>26, EndedInforms DEF Targeted
<1>29. r \in Working /\ Steady(r) /\ Targeted(r, in) /\ Settled(d, r)
  BY <1>2, <1>23, <1>25, <1>26, <1>27, <1>28, WaitOverSound
<1>30. Unwaited(x, r, n, e)
  <2>1. r.src = told.src /\ r.o = x.o /\ r.f.source = NoSource
    BY <1>23, <1>26, <1>29 DEF Settled, Idle
  <2>2. SameDrops(x, r)
    BY <1>28, <1>29 DEF Settled, SameDrops
  <2>3. \A k \in Drags : told.src[k].performed = x.src[k].performed
    BY <1>2, <1>5 DEF Ended
  <2> QED
    BY <1>5, <2>1, <2>2, <2>3 DEF Unwaited, Ended
<1> QED
  BY <1>1, <1>29, <1>30

LEMMA TimerExpiredSound ==
  ASSUME NEW in \in [Toplevels -> BOOLEAN], NEW x \in Working, Steady(x), Targeted(x, in),
         NEW t \in x.f.timers, NEW r, r = HandleTimerExpired(x, t)
  PROVE  /\ r \in Working /\ Steady(r) /\ Targeted(r, in) /\ x.f.source # NoSource
         /\ Unwaited(x, r, x.f.source, "cancelled")
<1>1. PICK n : n = x.f.source
  OBVIOUS
<1>2. /\ n \in Drags /\ n # NoSource /\ ~x.s.dragging /\ x.s.source = NoSource /\ x.s.over = Nowhere
      /\ x.f.timers = {n} /\ x.f.registered = {n} /\ x.f.key = n /\ ~x.crashed /\ t = n
  BY <1>1 DEF Steady, Begun, Watched, Working, FinishState
<1>3. PICK f1 : f1 = [x.f EXCEPT !.timers = @ \ {t}]
  OBVIOUS
<1>4. /\ f1 \in FinishState /\ f1.source = n /\ f1.timers = {} /\ f1.registered = {n} /\ f1.key = n
  BY <1>1, <1>2, <1>3 DEF Working, FinishState
<1>5. PICK y : y = RemoveTimer(x, t)
  OBVIOUS
<1>6. y \in Working /\ FinishSet(x, y, f1)
  BY <1>3, <1>5, RemoveTimerIs
<1>7. PICK told : told = [y EXCEPT !.src[n].ended = Append(@, "cancelled")]
  OBVIOUS
<1>8. told \in Working /\ Ended(y, told, n, "cancelled")
  BY <1>2, <1>6, <1>7, EndedIs
<1>9. PICK f2 : f2 = [f1 EXCEPT !.source = NoSource]
  OBVIOUS
<1>10. f2 \in FinishState /\ f2.source = NoSource /\ f2.timers = {} /\ f2.registered = {n}
  BY <1>4, <1>9 DEF FinishState
<1>11. PICK a : a = SetFinish(told, f2)
  OBVIOUS
<1>12. a \in Working /\ FinishSet(told, a, f2)
  BY <1>8, <1>10, <1>11, SetFinishIs
<1>13. PICK d : d = CancelDestroyCallback(a, n)
  OBVIOUS
<1>14. PICK f3 : f3 = [f2 EXCEPT !.registered = @ \ {n}]
  OBVIOUS
<1>15. n \in a.f.registered /\ f3 = [a.f EXCEPT !.registered = @ \ {n}]
  BY <1>10, <1>12, <1>14 DEF FinishSet
<1>16. d \in Working /\ FinishSet(a, d, f3)
  BY <1>12, <1>13, <1>15, CancelCallbackIs
<1>17. Idle(f3)
  BY <1>10, <1>14 DEF FinishState, Idle
<1>18. /\ d.s = x.s /\ d.crashed = x.crashed /\ d.o = x.o /\ d.out = x.out /\ d.f = f3 /\ d.src = told.src
       /\ y.src = x.src
  BY <1>6, <1>8, <1>12, <1>16 DEF FinishSet, Ended, SameSeat
<1>19. r = FinishDrag(d)
  <2>1. told.f = f1
    BY <1>6, <1>8 DEF FinishSet, Ended, SameSeat
  <2>2. a = [SendCancelled(y, n) EXCEPT !.f.source = NoSource]
    BY <1>7, <1>8, <1>9, <1>11, <2>1 DEF SetFinish, SendCancelled, Working
  <2> QED
    BY <1>1, <1>2, <1>5, <1>13, <2>2 DEF HandleTimerExpired
<1>20. AllInform(d, in) /\ SameDrops(x, d)
  BY <1>18, EndedInforms DEF Targeted
<1>21. r \in Working /\ Steady(r) /\ Targeted(r, in) /\ Settled(d, r)
  BY <1>2, <1>16, <1>17, <1>18, <1>19, <1>20, WaitOverSound
<1>22. Unwaited(x, r, n, "cancelled")
  <2>1. r.src = told.src /\ r.o = x.o /\ r.f.source = NoSource
    BY <1>17, <1>18, <1>21 DEF Settled, Idle
  <2>2. SameDrops(x, r)
    BY <1>20, <1>21 DEF Settled, SameDrops
  <2>3. \A k \in Drags : told.src[k].performed = x.src[k].performed
    BY <1>2, <1>8, <1>18 DEF Ended
  <2> QED
    BY <1>8, <1>18, <2>1, <2>2, <2>3 DEF Unwaited, Ended
<1> QED
  BY <1>1, <1>2, <1>21, <1>22

\* A source that was told of its end goes, and with it the wait for its drop.
SourceGone(x, r, n) ==
  /\ r.f.source = x.f.source \/ (r.f.source = NoSource /\ x.f.source = n)
  /\ SameDrops(x, r)
  /\ "PendingDrop" \in r.d.flags => "PendingDrop" \in x.d.flags
  /\ \A k \in Drags : r.src[k].performed = x.src[k].performed /\ r.src[k].ended = x.src[k].ended
  /\ \A k \in Offers : r.o[k].dropped = x.o[k].dropped /\ r.o[k].state = x.o[k].state

LEMMA SourceGoneKept ==
  ASSUME NEW x \in Working, NEW n \in Drags, ~Untold(x, n), NEW r, SourceGone(x, r, n), NEW p, NEW q
  PROVE  Kept(x, r, p, q)
<1>1. \A l \in Offers : l[1] \in Drags
  BY DEF Offers
<1>2. x.f.source # NoSource => x.f.source \in Drags
  BY DEF Working, FinishState
<1>3. Counted(x) => Counted(r)
  BY <1>1, <1>2 DEF Counted, SourceGone
<1>4. Told(x) => Told(r)
  <2> SUFFICES ASSUME Told(x)
               PROVE  Told(r)
    OBVIOUS
  <2>1. r.f.source # NoSource => Cancelled(r, r.f.source) /\ \A k \in Offers : k[1] = r.f.source => ~r.o[k].dropped
    BY <1>2 DEF Told, Cancelled, SourceGone
  <2>2. \A k, l \in Offers : r.o[k].dropped /\ r.o[l].dropped /\ k[1] = l[1] => k = l
    BY DEF Told, SourceGone
  <2>3. \A l \in Offers : r.o[l].dropped /\ "IsFinished" \notin r.o[l].state => Untold(r, l[1])
    BY <1>1 DEF Told, Untold, SourceGone
  <2>4. \A k \in Drags : Alike(r, k)
    BY DEF Told, Alike, SourceGone
  <2>5. r.f.source # NoSource /\ "PendingDrop" \in r.d.flags => Untold(r, r.f.source)
    BY <1>2 DEF Told, Untold, SourceGone
  <2> QED
    BY <2>1, <2>2, <2>3, <2>4, <2>5 DEF Told
<1>5. ASSUME Awaited(x, p, q)
      PROVE  Awaited(r, p, q)
  <2>1. OneDrop(r, p, q)
    BY <1>5 DEF Awaited, OneDrop, SourceGone, SameDrops
  <2>2. NoDrops(x, p, q) => NoDrops(r, p, q)
    BY DEF NoDrops, SourceGone, SameDrops
  <2>3. Waiting(x) => Waiting(r)
    BY <1>2 DEF Waiting, Untold, SourceGone
  <2> QED
    BY <1>5, <2>1, <2>2, <2>3 DEF Awaited
<1> QED
  BY <1>3, <1>4, <1>5 DEF Kept

Destroyed(x, y, n) ==
  /\ y.s = x.s /\ y.f = x.f /\ y.dev = x.dev /\ y.out = x.out /\ y.crashed = x.crashed
  /\ y.d.seat = x.d.seat /\ y.d.top = x.d.top /\ y.d.version = x.d.version /\ y.d.flags = x.d.flags
  /\ x.d.selection # n => y.d.selection = x.d.selection
  /\ \A k \in Drags : /\ y.src[k].performed = x.src[k].performed /\ y.src[k].ended = x.src[k].ended
                      /\ y.src[k].action = x.src[k].action /\ y.src[k].state = x.src[k].state
                      /\ k # n => y.src[k].alive = x.src[k].alive
  /\ \A k \in Offers : /\ y.o[k].dropped = x.o[k].dropped /\ y.o[k].state = x.o[k].state
                       /\ y.o[k].action = x.o[k].action
                       /\ k[1] # n => y.o[k].held = x.o[k].held

LEMMA DestroyedIs ==
  ASSUME NEW x \in Working, NEW n \in Drags,
         NEW y, y = [x EXCEPT !.src[n].alive = FALSE,
                              !.d.selection = IF @ = n THEN NoSource ELSE @,
                              !.o = [k \in DOMAIN @ |-> IF k[1] = n THEN [@[k] EXCEPT !.held = FALSE] ELSE @[k]]]
  PROVE  y \in Working /\ Destroyed(x, y, n)
<1>1. PICK p : p = x.src[n]
  OBVIOUS
<1>2. PICK q : q = [p EXCEPT !.alive = FALSE]
  OBVIOUS
<1>3. p \in Source
  BY <1>1 DEF Working
<1>4. q \in Source
  BY <1>2, <1>3 DEF Source
<1>5. /\ q.performed = p.performed /\ q.ended = p.ended /\ q.action = p.action /\ q.state = p.state
  BY <1>2, <1>3 DEF Source
<1>6. PICK d : d = [x.d EXCEPT !.selection = IF @ = n THEN NoSource ELSE @]
  OBVIOUS
<1>7. /\ d \in DragState /\ d.seat = x.d.seat /\ d.top = x.d.top /\ d.version = x.d.version /\ d.flags = x.d.flags
      /\ x.d.selection # n => d.selection = x.d.selection
  <2>1. x.d \in DragState
    BY DEF Working
  <2> QED
    BY <1>6, <2>1 DEF DragState
<1>8. PICK o : o = [k \in Offers |-> IF k[1] = n THEN [x.o[k] EXCEPT !.held = FALSE] ELSE x.o[k]]
  OBVIOUS
<1>9. x.o \in [Offers -> Offer]
  BY DEF Working
<1>10. ASSUME NEW k \in Offers
       PROVE  /\ o[k] \in Offer /\ o[k].dropped = x.o[k].dropped /\ o[k].state = x.o[k].state
              /\ o[k].action = x.o[k].action
              /\ k[1] # n => o[k].held = x.o[k].held
  <2>1. PICK b : b = x.o[k]
    OBVIOUS
  <2>2. b \in Offer
    BY <1>9, <2>1
  <2>3. PICK c : c = [b EXCEPT !.held = FALSE]
    OBVIOUS
  <2>4. c \in Offer /\ c.dropped = b.dropped /\ c.state = b.state /\ c.action = b.action
    BY <2>2, <2>3 DEF Offer
  <2>5. o[k] = IF k[1] = n THEN c ELSE b
    BY <1>8, <2>1, <2>3
  <2> QED
    BY <2>1, <2>2, <2>4, <2>5
<1>11. o \in [Offers -> Offer]
  BY <1>8, <1>10
<1>12. PICK u : u = SetSource(x, n, q)
  OBVIOUS
<1>13. u \in Working /\ SourceSet(x, u, n, q)
  BY <1>4, <1>12, SetSourceIs
<1>14. y = [u EXCEPT !.d = d, !.o = o]
  <2>1. o = [k \in DOMAIN x.o |-> IF k[1] = n THEN [x.o[k] EXCEPT !.held = FALSE] ELSE x.o[k]]
    BY <1>8, <1>9
  <2> QED
    BY <1>1, <1>2, <1>6, <1>12, <2>1 DEF SetSource, Working
<1>15. /\ y \in Working /\ y.s = u.s /\ y.f = u.f /\ y.dev = u.dev /\ y.out = u.out /\ y.crashed = u.crashed
       /\ y.src = u.src /\ y.d = d /\ y.o = o
  BY ZenonT(30), <1>7, <1>11, <1>13, <1>14 DEF Working
<1>16. Destroyed(x, y, n)
  <2>1. \A k \in Drags : /\ y.src[k].performed = x.src[k].performed /\ y.src[k].ended = x.src[k].ended
                         /\ y.src[k].action = x.src[k].action /\ y.src[k].state = x.src[k].state
                         /\ k # n => y.src[k].alive = x.src[k].alive
    BY <1>1, <1>5, <1>13, <1>15 DEF SourceSet
  <2> QED
    BY <1>7, <1>10, <1>13, <1>15, <2>1 DEF Destroyed, SourceSet, SameSeat
<1> QED
  BY <1>15, <1>16

LEMMA SourceDestroyedSound ==
  ASSUME NEW in \in [Toplevels -> BOOLEAN], NEW x \in Working, Steady(x), Targeted(x, in),
         NEW n \in Drags, ~Untold(x, n), NEW p, NEW q,
         NEW r, r = HandleSourceResourceDestroy(x, n)
  PROVE  r \in Working /\ Steady(r) /\ Targeted(r, in) /\ Kept(x, r, p, q)
<1>1. PICK y : y = [x EXCEPT !.src[n].alive = FALSE,
                             !.d.selection = IF @ = n THEN NoSource ELSE @,
                             !.o = [k \in DOMAIN @ |-> IF k[1] = n THEN [@[k] EXCEPT !.held = FALSE] ELSE @[k]]]
  BY ZenonT(30)
<1>2. y \in Working /\ Destroyed(x, y, n)
  BY ZenonT(30), <1>1, DestroyedIs
<1>3. n # NoSource /\ ~x.crashed
  BY DEF NoSource, Drags, Steady
<1>4. x.s.source # n
  BY <1>3 DEF Steady, Begun, Untold
<1>5. CASE n \notin x.f.registered
  <2>1. x.f.source # n
    BY SMTT(30), <1>3, <1>5 DEF Steady, Watched
  <2>2. r = y
    BY <1>1, <1>2, <1>4, <1>5 DEF HandleSourceResourceDestroy, Destroyed
  <2>3. x.s.source # NoSource => x.s.source \in Drags
    BY DEF Working, Seat
  <2>4. x.f.source # NoSource => x.f.source \in Drags
    BY DEF Working, FinishState
  <2>5. Begun(y)
    BY <1>2, <1>4, <2>3 DEF Steady, Begun, Destroyed
  <2>6. Selected(y)
    BY <1>2, <1>4 DEF Steady, Selected, Destroyed
  <2>7. Watched(y)
    BY <1>2, <2>1, <2>4 DEF Steady, Watched, Destroyed
  <2>8. ASSUME x.s.over # Nowhere, x.s.dragging
        PROVE  /\ x.dev.current \in Offers /\ x.dev.current[1] \in Drags /\ x.dev.current[1] # n
               /\ x.d.top = Nowhere /\ x.dev.current = <<x.s.source, x.s.over>> /\ x.o[x.dev.current].held
    <3>1. x.s.over \in Surfaces /\ x.s.source \in Drags
      BY <2>3, <2>8 DEF Working, Seat, Steady, Begun
    <3>2. /\ x.d.top = Nowhere /\ x.dev.current = <<x.s.source, x.s.over>> /\ x.o[x.dev.current].held
      BY <2>8 DEF Steady, Over
    <3> QED
      BY <1>4, <3>1, <3>2 DEF Offers
  <2>9. Over(y)
    BY <1>2, <2>8 DEF Over, Destroyed
  <2>10. Agreed(y)
    <3> SUFFICES ASSUME y.s.dragging, y.dev.current # NoOffer, y.o[y.dev.current].action # "unsent",
                        y.s.over # Nowhere
                 PROVE  /\ y.o[y.dev.current].action = y.src[y.dev.current[1]].action
                        /\ ("ActionsSent" \in y.src[y.dev.current[1]].state)
                             = (y.o[y.dev.current].action # "none")
      BY DEF Agreed
    <3>1. PICK k : k = x.dev.current
      OBVIOUS
    <3>2. k \in Offers /\ k[1] \in Drags /\ y.s = x.s /\ y.dev = x.dev
      BY <1>2, <2>8, <3>1 DEF Destroyed
    <3>3. y.o[k].action = x.o[k].action /\ y.src[k[1]].action = x.src[k[1]].action
          /\ y.src[k[1]].state = x.src[k[1]].state
      BY SMTT(30), <1>2, <3>2 DEF Destroyed
    <3>4. /\ x.o[k].action = x.src[k[1]].action
          /\ ("ActionsSent" \in x.src[k[1]].state) = (x.o[k].action # "none")
      BY <3>1, <3>2, <3>3 DEF Steady, Agreed
    <3> QED
      BY <3>1, <3>2, <3>3, <3>4
  <2>11. Targeted(y, in) /\ SameDrops(x, y)
    BY <1>2, SameDropsOut DEF Targeted, AllInform, Ready, Destroyed
  <2>12. SourceGone(x, y, n)
    BY <1>2, <2>11 DEF SourceGone, Destroyed
  <2>13. Kept(x, y, p, q)
    BY <2>12, SourceGoneKept
  <2> QED
    BY <1>2, <1>3, <2>2, <2>5, <2>6, <2>7, <2>9, <2>10, <2>11, <2>13 DEF Steady, Destroyed
<1>6. CASE n \in x.f.registered
  <2>1. /\ x.f.source = n /\ ~x.s.dragging /\ x.s.source = NoSource /\ x.s.over = Nowhere
        /\ x.f.timers = {n} /\ x.f.registered = {n} /\ x.f.timeout = n
    BY <1>3, <1>6 DEF Steady, Begun, Watched
  <2>2. PICK f1 : f1 = [x.f EXCEPT !.registered = @ \ {n}, !.source = NoSource]
    OBVIOUS
  <2>3. x.f \in FinishState
    BY DEF Working
  <2>4. /\ f1 \in FinishState /\ f1.source = NoSource /\ f1.timers = {n} /\ f1.registered = {} /\ f1.timeout = n
    BY <2>1, <2>2, <2>3 DEF FinishState
  <2>5. PICK a : a = SetFinish(y, f1)
    OBVIOUS
  <2>6. a \in Working /\ FinishSet(y, a, f1)
    BY <1>2, <2>4, <2>5, SetFinishIs
  <2>7. PICK f2 : f2 = [f1 EXCEPT !.timers = @ \ {n}]
    OBVIOUS
  <2>8. n \in a.f.timers /\ f2 = [a.f EXCEPT !.timers = @ \ {n}]
    BY <2>4, <2>6, <2>7 DEF FinishSet
  <2>9. Idle(f2)
    BY <2>4, <2>7 DEF FinishState, Idle
  <2>10. PICK d : d = RemoveTimer(a, n)
    OBVIOUS
  <2>11. d \in Working /\ FinishSet(a, d, f2)
    BY <2>6, <2>8, <2>10, RemoveTimerIs
  <2>12. /\ d.s = x.s /\ d.crashed = x.crashed /\ d.out = x.out /\ d.f = f2 /\ d.src = y.src /\ d.o = y.o
    BY <1>2, <2>6, <2>11 DEF FinishSet, Destroyed
  <2>13. PICK z : z = FinishDrag(d)
    OBVIOUS
  <2>14. AllInform(d, in) /\ SameDrops(x, d)
    BY <2>12, EndedInforms DEF Targeted
  <2>15. z \in Working /\ Steady(z) /\ Targeted(z, in) /\ Settled(d, z)
    BY <1>3, <2>1, <2>9, <2>11, <2>12, <2>13, <2>14, WaitOverSound
  <2>16. y.f = x.f
    BY <1>2 DEF Destroyed
  <2>17. a = [[y EXCEPT !.f.registered = @ \ {n}] EXCEPT !.f.source = NoSource]
    BY <1>2, <2>2, <2>3, <2>5, <2>16 DEF SetFinish, Working, FinishState
  <2>18. z = DndSourceDestroyed([y EXCEPT !.f.registered = @ \ {n}])
    <3>1. [y EXCEPT !.f.registered = @ \ {n}].f.timeout = n
      BY <1>2, <2>1, <2>3, <2>16 DEF Working, FinishState
    <3> QED
      BY <2>10, <2>13, <2>17, <3>1 DEF DndSourceDestroyed
  <2>19. r = z
    <3>1. z.s.source # n
      BY <1>3, <2>1, <2>12, <2>15 DEF Settled
    <3> QED
      BY ZenonT(30), <1>1, <1>6, <2>16, <2>18, <3>1 DEF HandleSourceResourceDestroy
  <2>20. SourceGone(x, z, n)
    <3>1. z.f.source = NoSource /\ z.src = y.src /\ z.o = y.o /\ SameDrops(d, z)
      BY <2>9, <2>12, <2>15 DEF Settled, Idle
    <3>2. SameDrops(x, z)
      BY <2>14, <3>1 DEF SameDrops
    <3>3. "PendingDrop" \notin z.d.flags
      BY <2>15, <3>1 DEF Steady, Begun
    <3> QED
      BY <1>2, <2>1, <3>1, <3>2, <3>3 DEF SourceGone, Destroyed
  <2>21. Kept(x, z, p, q)
    BY <2>20, SourceGoneKept
  <2> QED
    BY <2>15, <2>19, <2>21
<1> QED
  BY <1>5, <1>6

\* The drop is not pending any more.
Unpend(x) == [x EXCEPT !.d.flags = @ \ {"PendingDrop"}]

Unpended(x, v) ==
  /\ SameSeat(x, v) /\ v.src = x.src /\ v.out = x.out
  /\ v.d.seat = x.d.seat /\ v.d.top = x.d.top /\ v.d.version = x.d.version /\ "PendingDrop" \notin v.d.flags

LEMMA UnpendIs ==
  ASSUME NEW x \in Working, NEW v, v = Unpend(x)
  PROVE  v \in Working /\ Unpended(x, v)
<1>1. PICK d : d = [x.d EXCEPT !.flags = @ \ {"PendingDrop"}]
  OBVIOUS
<1>2. x.d \in DragState
  BY DEF Working
<1>3. /\ d \in DragState /\ d.seat = x.d.seat /\ d.top = x.d.top /\ d.version = x.d.version
      /\ "PendingDrop" \notin d.flags
  BY <1>1, <1>2 DEF DragState
<1>4. v = [x EXCEPT !.d = d]
  BY <1>1 DEF Unpend, Working
<1>5. v \in Working /\ SameSeat(x, v) /\ v.src = x.src /\ v.out = x.out /\ v.d = d
  BY <1>3, <1>4 DEF Working, SameSeat
<1> QED
  BY <1>3, <1>5 DEF Unpended

LEMMA UnpendedSteady ==
  ASSUME NEW x \in Working, Steady(x), x.d.seat, "PendingDrop" \in x.d.flags,
         NEW d, d.seat, "PendingDrop" \notin d.flags,
         NEW y \in Working, SameSeat(x, y), y.d = d, \A k \in Drags : y.src[k].alive = x.src[k].alive
  PROVE  Steady(y)
<1>1. PICK n : n = x.f.source
  OBVIOUS
<1>2. /\ n \in Drags /\ n # NoSource /\ ~x.s.dragging /\ x.s.source = NoSource /\ x.s.over = Nowhere
      /\ ~x.crashed
  BY <1>1 DEF Steady, Begun, Working, FinishState
<1>3. y.s = x.s /\ y.f = x.f /\ ~y.crashed
  BY <1>2 DEF SameSeat
<1>4. Begun(y)
  BY <1>1, <1>2, <1>3 DEF Begun
<1>5. Watched(y)
  BY <1>1, <1>2, <1>3 DEF Watched, Steady
<1> QED
  BY <1>2, <1>3, <1>4, <1>5 DEF Steady, Selected, Over, Agreed

\* A status that answers a drop sends it.
LEMMA DropSentSound ==
  ASSUME NEW in \in [Toplevels -> BOOLEAN], NEW x \in Working, Steady(x), Targeted(x, in),
         x.d.seat, "PendingDrop" \in x.d.flags,
         NEW v \in Working, Unpended(x, v), NEW d, d = v.d, NEW p, NEW q,
         NEW r, r = SendDrop(v)
  PROVE  r \in Working /\ Steady(r) /\ Targeted(r, in) /\ Kept(x, r, p, q)
<1>a. PICK n : n = x.f.source
  OBVIOUS
<1>b. /\ n \in Drags /\ n # NoSource /\ ~x.s.dragging /\ x.s.source = NoSource /\ x.s.over = Nowhere
      /\ x.d \in DragState /\ ~x.crashed
  BY <1>a DEF Steady, Begun, Working, FinishState
<1>c. /\ SameSeat(x, v) /\ v.src = x.src /\ v.out = x.out /\ v.d = d /\ v.f.source = n
      /\ d.seat /\ d.top = x.d.top /\ d.version = x.d.version /\ "PendingDrop" \notin d.flags
  BY <1>a DEF Unpended, SameSeat
<1>d. Awaited(x, p, q) => NoDrops(x, p, q)
  BY DEF Awaited, Waiting
<1>e. \A l \in Offers : l[1] \in Drags
  BY DEF Offers
<1>1. r \in Working /\ Dropped(v, r)
  BY <1>a, <1>b, <1>c, SendDropIs DEF SameSeat
<1>2. /\ SameSeat(x, r) /\ r.d = d /\ Performed(x, r, n) /\ Sent(x, r, "Drop")
  <2>1. SameSeat(x, r) /\ r.d = d
    BY <1>c, <1>1 DEF Dropped, SameSeat
  <2>2. Performed(v, r, n) /\ Sent(v, r, "Drop")
    BY <1>c, <1>1 DEF Dropped
  <2>3. Performed(x, r, n)
    BY <1>c, <2>2 DEF Performed
  <2>4. Sent(x, r, "Drop")
    BY <1>c, <2>2 DEF Sent
  <2> QED
    BY <2>1, <2>3, <2>4
<1>3. Steady(r)
  <2>1. \A k \in Drags : r.src[k].alive = x.src[k].alive
    BY <1>2 DEF Performed
  <2> QED
    BY <1>c, <1>1, <1>2, <2>1, UnpendedSteady
<1>4. r.f = x.f /\ r.o = x.o /\ (\A k \in Drags : r.src[k].ended = x.src[k].ended)
      /\ \A k \in Drags : x.src[k].performed > 0 => r.src[k].performed > 0
  BY <1>2 DEF SameSeat, Performed
<1>5. Counted(x) => Counted(r)
  BY <1>a, <1>b, <1>e, <1>4 DEF Counted
<1>6. Told(x) => Told(r)
  <2> SUFFICES ASSUME Told(x)
               PROVE  Told(r)
    OBVIOUS
  <2>1. r.f.source # NoSource => Cancelled(r, r.f.source) /\ \A k \in Offers : k[1] = r.f.source => ~r.o[k].dropped
    BY <1>a, <1>b, <1>4 DEF Told, Cancelled
  <2>2. \A k, l \in Offers : r.o[k].dropped /\ r.o[l].dropped /\ k[1] = l[1] => k = l
    BY <1>4 DEF Told
  <2>3. \A l \in Offers : r.o[l].dropped /\ "IsFinished" \notin r.o[l].state => Untold(r, l[1])
    BY <1>e, <1>4 DEF Told, Untold
  <2>4. \A k \in Drags : Alike(r, k)
    BY <1>4 DEF Told, Alike
  <2> QED
    BY <1>c, <1>2, <2>1, <2>2, <2>3, <2>4 DEF Told
<1>7. CASE x.d.top = Nowhere \/ x.d.version < 3
  <2>1. r.out = x.out
    BY <1>2, <1>7 DEF Sent
  <2>2. Targeted(r, in)
    BY <1>a, <1>b, <1>c, <1>2, <1>4, <2>1 DEF Targeted, AllInform
  <2>3. Awaited(x, p, q) => Awaited(r, p, q)
    <3>1. NoDrops(x, p, q) => NoDrops(r, p, q)
      BY <2>1 DEF NoDrops, DropAt
    <3> QED
      BY <1>d, <3>1, NoDropsAwaited
  <2> QED
    BY <1>1, <1>3, <1>5, <1>6, <2>2, <2>3 DEF Kept
<1>8. CASE ~(x.d.top = Nowhere \/ x.d.version < 3)
  <2>1. PICK t : t = x.d.top
    OBVIOUS
  <2>2. t \in Toplevels /\ "Drop" \in Messages /\ x.d.version >= 3
    BY <1>b, <1>8, <2>1 DEF DragState, Messages
  <2>3. r.out = [x.out EXCEPT ![t] = Append(@, "Drop")]
    BY <1>2, <1>8, <2>1 DEF Sent
  <2>4. AllInform(x, in) /\ Ready(x, in, t)
    BY <1>8, <2>1, <2>2 DEF Targeted
  <2>5. Queued(x, r, in, t, "Drop")
    BY <1>1, <2>2, <2>3, <2>4, PutInforms
  <2>6. Targeted(r, in)
    BY <1>a, <1>b, <1>c, <1>2, <1>4, <2>5 DEF Targeted, Queued
  <2>7. ASSUME Told(x), Awaited(x, p, q)
        PROVE  Awaited(r, p, q)
    <3>1. NoDrops(x, p, q)
      BY <1>d, <2>7
    <3>2. \A u \in Toplevels, i \in Nat :
            DropAt(r, u, i) <=> DropAt(x, u, i) \/ (u = t /\ i = Len(x.out[t]) + 1)
      BY <1>1, <2>2, <2>3, PutDrops
    <3>3. \A u \in Toplevels, i \in Nat : DropAt(r, u, i) => u = t /\ i = Len(x.out[t]) + 1
      BY <3>1, <3>2 DEF NoDrops
    <3>4. OneDrop(r, p, q)
      BY <3>1, <3>3 DEF NoDrops, OneDrop
    <3>5. Untold(x, n)
      BY <1>a, <1>b, <2>7 DEF Told
    <3>6. Waiting(r)
      BY <1>a, <1>b, <1>c, <1>2, <1>4, <3>5 DEF Waiting, Untold
    <3> QED
      BY <3>4, <3>6 DEF Awaited
  <2> QED
    BY <1>1, <1>3, <1>5, <1>6, <2>6, <2>7 DEF Kept
<1> QED
  BY <1>7, <1>8

\* Or cancels it.
LEMMA DropRefusedSound ==
  ASSUME NEW in \in [Toplevels -> BOOLEAN], NEW x \in Working, Steady(x), Targeted(x, in),
         x.d.seat, "PendingDrop" \in x.d.flags,
         NEW v \in Working, Unpended(x, v), NEW d, d = v.d, NEW p, NEW q,
         NEW r, r = SendCancelled(SendLeave(v), v.f.source)
  PROVE  r \in Working /\ Steady(r) /\ Targeted(r, in) /\ Kept(x, r, p, q)
<1>a. PICK n : n = x.f.source
  OBVIOUS
<1>b. /\ n \in Drags /\ n # NoSource /\ ~x.s.dragging /\ x.s.source = NoSource /\ x.s.over = Nowhere
      /\ x.d \in DragState /\ ~x.crashed
  BY <1>a DEF Steady, Begun, Working, FinishState
<1>c. /\ SameSeat(x, v) /\ v.src = x.src /\ v.out = x.out /\ v.d = d /\ v.f.source = n
      /\ d.seat /\ d.top = x.d.top /\ d.version = x.d.version /\ "PendingDrop" \notin d.flags
  BY <1>a DEF Unpended, SameSeat
<1>d. Awaited(x, p, q) => NoDrops(x, p, q)
  BY DEF Awaited, Waiting
<1>e. \A l \in Offers : l[1] \in Drags
  BY DEF Offers
<1>1. PICK u : u = SendLeave(v)
  OBVIOUS
<1>2. u \in Working /\ SameSeat(v, u) /\ u.d = v.d /\ u.src = v.src /\ Sent(v, u, "Leave")
  BY <1>c, <1>1, SendIs DEF SendLeave, Messages
<1>3. AllInform(v, in)
  BY <1>c DEF Targeted, AllInform
<1>4. SameDrops(v, u) /\ AllInform(u, in)
  BY <1>c, <1>2, <1>3, LeaveInforms
<1>5. r = [u EXCEPT !.src[n].ended = Append(@, "cancelled")]
  <2>1. v.f.source = n
    BY <1>a, <1>c DEF SameSeat
  <2> QED
    BY <1>1, <2>1 DEF SendCancelled
<1>6. r \in Working /\ Ended(u, r, n, "cancelled")
  BY SMTT(30), <1>b, <1>2, <1>5, EndedIs
<1>7. /\ SameSeat(x, r) /\ r.d = d /\ r.out = u.out
      /\ \A k \in Drags : k # n => r.src[k] = x.src[k]
      /\ r.src[n].alive = x.src[n].alive /\ r.src[n].performed = x.src[n].performed
      /\ r.src[n].ended = Append(x.src[n].ended, "cancelled")
  BY <1>c, <1>2, <1>6 DEF Ended, SameSeat
<1>8. Steady(r)
  <2>1. \A k \in Drags : r.src[k].alive = x.src[k].alive
    BY <1>7
  <2> QED
    BY SMTT(30), <1>c, <1>6, <1>7, <2>1, UnpendedSteady
<1>9. AllInform(r, in) /\ SameDrops(x, r)
  <2>1. AllInform(r, in) /\ SameDrops(u, r)
    BY SMTT(30), <1>4, <1>7, EndedInforms
  <2> QED
    BY SMTT(30), <1>c, <1>4, <2>1 DEF SameDrops, DropAt
<1>10. r.f = x.f /\ r.o = x.o
  BY SMTT(30), <1>7 DEF SameSeat
<1>11. Targeted(r, in)
  BY ZenonT(30), <1>a, <1>b, <1>c, <1>7, <1>9, <1>10 DEF Targeted
<1>12. Counted(x) => Counted(r)
  <2>1. \A k \in Drags : r.src[k].performed = x.src[k].performed
    BY <1>7
  <2> QED
    BY <1>a, <1>b, <1>e, <1>10, <2>1 DEF Counted
<1>13. ASSUME Told(x)
       PROVE  Told(r)
  <2>1. Untold(x, n)
    BY <1>a, <1>b, <1>13 DEF Told
  <2>2. r.src[n].ended = Append(<<>>, "cancelled")
    BY <1>7, <2>1 DEF Untold
  <2>3. \A i \in DOMAIN r.src[n].ended : r.src[n].ended[i] = "cancelled"
    BY <2>2
  <2>4. \A l \in Offers : l[1] = n => ~r.o[l].dropped
    BY <1>a, <1>b, <1>10, <1>13 DEF Told
  <2>5. \A k, l \in Offers : r.o[k].dropped /\ r.o[l].dropped /\ k[1] = l[1] => k = l
    BY SMTT(30), <1>10, <1>13 DEF Told
  <2>6. \A l \in Offers : r.o[l].dropped /\ "IsFinished" \notin r.o[l].state => Untold(r, l[1])
    BY <1>e, <1>7, <1>10, <1>13, <2>4 DEF Told, Untold
  <2>7. ASSUME NEW k \in Drags
        PROVE  Alike(r, k)
    <3>1. CASE k = n
      BY SMTT(30), <2>3, <3>1 DEF Alike
    <3>2. CASE k # n
      BY <1>7, <1>13, <3>2 DEF Told, Alike
    <3> QED
      BY <3>1, <3>2
  <2>8. Cancelled(r, n)
    BY SMTT(30), <2>3 DEF Cancelled
  <2>9. r.f.source = n /\ "PendingDrop" \notin r.d.flags
    BY ZenonT(30), <1>a, <1>c, <1>7, <1>10
  <2> QED
    BY <2>4, <2>5, <2>6, <2>7, <2>8, <2>9 DEF Told
<1>14. Awaited(x, p, q) => Awaited(r, p, q)
  <2>1. NoDrops(x, p, q) => NoDrops(r, p, q)
    BY <1>9 DEF NoDrops, SameDrops
  <2> QED
    BY <1>d, <2>1, NoDropsAwaited
<1> QED
  BY <1>6, <1>8, <1>11, <1>12, <1>13, <1>14 DEF Kept

\* What a status of the target changes before anything is sent.
StatusSeen(x, m) ==
  [x EXCEPT !.d.flags = (@ \ {"WaitingForStatus", "WillAcceptDrop", "NeedMouseRect"})
                        \cup (IF m.accepts THEN {"WillAcceptDrop"} ELSE {})
                        \cup (IF m.rect THEN {"NeedMouseRect"} ELSE {}),
            !.d.action = m.action]

SentPending(x, inside) == IF "PendingPosition" \in x.d.flags THEN SendPosition(x, inside) ELSE x

AnsweredDrop(w, m) ==
  IF m.accepts /\ m.action # "none" THEN SendDrop(Unpend(w))
  ELSE SendCancelled(SendLeave(Unpend(w)), Unpend(w).f.source)

LEMMA StatusSteps ==
  ASSUME NEW x, NEW m, NEW inside, m.top = x.d.top
  PROVE  LET w == SentPending(ReportStateToSource(StatusSeen(x, m)), inside)
         IN  HandleXdndStatus(x, m, inside) =
               IF "WaitingForStatus" \in w.d.flags \/ "PendingDrop" \notin w.d.flags THEN w ELSE AnsweredDrop(w, m)
<1> DEFINE w == SentPending(ReportStateToSource(StatusSeen(x, m)), inside)
           h == HandleXdndStatus(x, m, inside)
<1>1. h = CASE m.top # x.d.top -> x
            [] m.top = x.d.top /\ ("WaitingForStatus" \in w.d.flags \/ "PendingDrop" \notin w.d.flags) -> w
            [] OTHER -> AnsweredDrop(w, m)
  BY Zenon DEF HandleXdndStatus, StatusSeen, SentPending, AnsweredDrop, Unpend
<1> HIDE DEF w, h
<1>2. h = IF "WaitingForStatus" \in w.d.flags \/ "PendingDrop" \notin w.d.flags THEN w ELSE AnsweredDrop(w, m)
  BY <1>1
<1> QED
  BY <1>2 DEF w, h

\* An answer to a position is recorded, the position that waited for it sent, and
\* the drop that waited for it sent or cancelled.
LEMMA XdndStatusSound ==
  ASSUME Parameters, NEW in \in [Toplevels -> BOOLEAN], NEW x \in Working, Steady(x), Targeted(x, in), x.d.seat,
         NEW m \in Answers, m.type = "Status", NEW inside \in BOOLEAN, NEW p, NEW q,
         NEW r, r = HandleXdndStatus(x, m, inside)
  PROVE  r \in Working /\ Steady(r) /\ Targeted(r, in) /\ Kept(x, r, p, q)
<1>1. m.top \in Toplevels /\ m.action \in {"copy", "none"}
  BY SMTT(30) DEF Answers
<1>2. CASE m.top # x.d.top
  BY ZenonT(30), <1>2 DEF HandleXdndStatus, Kept
<1>3. CASE m.top = x.d.top
  <2>0. x.d.top # Nowhere /\ (x.s.dragging => x.s.over = Nowhere)
    BY <1>1, <1>3 DEF Parameters, Steady, Over
  <2>1. PICK d : d = [x.d EXCEPT !.flags = (@ \ {"WaitingForStatus", "WillAcceptDrop", "NeedMouseRect"})
                                 \cup (IF m.accepts THEN {"WillAcceptDrop"} ELSE {})
                                 \cup (IF m.rect THEN {"NeedMouseRect"} ELSE {}),
                                 !.action = m.action]
    OBVIOUS
  <2>2. x.d \in DragState
    BY DEF Working
  <2>3. /\ d \in DragState /\ d.seat = x.d.seat /\ d.top = x.d.top /\ d.version = x.d.version
        /\ d.selection = x.d.selection
    BY <1>1, <2>1, <2>2 DEF DragState, Actions, Flags, PerTarget
  <2>4. /\ "PendingDrop" \in d.flags <=> "PendingDrop" \in x.d.flags
        /\ "SelectionSet" \in d.flags <=> "SelectionSet" \in x.d.flags
    BY <2>1, <2>2 DEF DragState
  <2>5. PICK y : y = StatusSeen(x, m)
    OBVIOUS
  <2>6. y \in Working /\ SameSeat(x, y) /\ y.d = d /\ y.src = x.src /\ y.out = x.out
    <3>1. y = [x EXCEPT !.d = d]
      BY <2>1, <2>5 DEF StatusSeen, Working
    <3> QED
      BY <2>3, <3>1 DEF Working, SameSeat
  <2>7. PICK z : z = ReportStateToSource(y)
    OBVIOUS
  <2>8. z \in Working /\ SameSeat(y, z) /\ z.d = d /\ z.out = x.out /\ SameSources(y, z)
    BY <2>6, <2>7, ReportIs
  <2>9. OnlyDrag(x, z)
    BY <2>4, <2>6, <2>8, SameDropsOut DEF OnlyDrag, SameSeat, SameSources
  <2>10. Selected(z)
    BY <2>3, <2>4, <2>8, <2>9 DEF Steady, Selected, OnlyDrag, SameSeat
  <2>11. Steady(z)
    <3>1. z.d.seat => x.s.dragging \/ x.f.source # NoSource
      BY DEF Steady, Begun
    <3>2. z.d.seat
      BY <2>3, <2>8
    <3> QED
      BY <2>0, <2>8, <2>9, <2>10, <3>1, <3>2, SteadyDrag
  <2>12. Targeted(z, in)
    BY <2>3, <2>4, <2>8, <2>9 DEF Targeted, AllInform, Ready, OnlyDrag, SameSeat
  <2>13. PICK w : w = SentPending(z, inside)
    OBVIOUS
  <2>14. w \in Working /\ Steady(w) /\ Targeted(w, in) /\ OnlyDrag(x, w)
    <3>1. CASE "PendingPosition" \in z.d.flags
      <4>1. w = SendPosition(z, inside)
        BY <2>13, <3>1 DEF SentPending
      <4>2. w \in Working /\ Steady(w) /\ Targeted(w, in) /\ OnlyDrag(z, w)
        BY <2>8, <2>11, <2>12, <4>1, PositionSound
      <4> QED
        BY <2>9, <4>2, OnlyDragTwice
    <3>2. CASE "PendingPosition" \notin z.d.flags
      BY <2>8, <2>9, <2>11, <2>12, <2>13, <3>2 DEF SentPending
    <3> QED
      BY <3>1, <3>2
  <2>15. Kept(x, w, p, q)
    BY <2>14, OnlyDragOutcome, SameOutcomeKept
  <2>16. r = IF "WaitingForStatus" \in w.d.flags \/ "PendingDrop" \notin w.d.flags THEN w ELSE AnsweredDrop(w, m)
    BY <1>3, <2>5, <2>7, <2>13, StatusSteps
  <2>17. CASE "WaitingForStatus" \in w.d.flags \/ "PendingDrop" \notin w.d.flags
    <3>1. r = w
      BY <2>16, <2>17
    <3> QED
      BY <2>14, <2>15, <3>1
  <2>18. CASE ~("WaitingForStatus" \in w.d.flags \/ "PendingDrop" \notin w.d.flags)
    <3>1. PICK v : v = Unpend(w)
      OBVIOUS
    <3>2. PICK d1 : d1 = v.d
      OBVIOUS
    <3>3. v \in Working /\ Unpended(w, v)
      BY <2>14, <3>1, UnpendIs
    <3>4. w.d.seat
      BY <2>14, <2>18 DEF Steady, Begun
    <3>5. r = AnsweredDrop(w, m)
      BY <2>16, <2>18
    <3>6. r \in Working /\ Steady(r) /\ Targeted(r, in) /\ Kept(w, r, p, q)
      <4>1. CASE m.accepts /\ m.action # "none"
        <5>1. r = SendDrop(v)
          BY <3>1, <3>5, <4>1 DEF AnsweredDrop
        <5> QED
          BY <2>14, <2>18, <3>2, <3>3, <3>4, <5>1, DropSentSound
      <4>2. CASE ~(m.accepts /\ m.action # "none")
        <5>1. r = SendCancelled(SendLeave(v), v.f.source)
          BY <3>1, <3>5, <4>2 DEF AnsweredDrop
        <5> QED
          BY <2>14, <2>18, <3>2, <3>3, <3>4, <5>1, DropRefusedSound
      <4> QED
        BY <4>1, <4>2
    <3> QED
      BY <2>15, <3>6, KeptTwice
  <2> QED
    BY <2>17, <2>18
<1> QED
  BY <1>2, <1>3

-----------------------------------------------------------------------------
(* The end of a drop on a client, as its client sees it. *)

\* Offer k is finished, and its source told how.
OfferFinished(x, y, k, m) ==
  /\ y.s = x.s /\ y.d = x.d /\ y.f = x.f /\ y.dev = x.dev /\ y.out = x.out /\ y.crashed = x.crashed
  /\ \A l \in Offers : l # k => y.o[l] = x.o[l]
  /\ y.o[k].dropped = x.o[k].dropped /\ "IsFinished" \in y.o[k].state
  /\ \A n \in Drags : n # k[1] => y.src[n] = x.src[n]
  /\ y.src[k[1]].alive = x.src[k[1]].alive /\ y.src[k[1]].performed = x.src[k[1]].performed
  /\ y.src[k[1]].ended = Append(x.src[k[1]].ended, m)

LEMMA FinishOfferIs ==
  ASSUME NEW x \in Working, NEW k \in Offers, NEW y, y = FinishOffer(x, k)
  PROVE  \/ y = x
         \/ /\ y \in Working /\ "IsFinished" \notin x.o[k].state
            /\ \E m \in {"cancelled", "finished"} : OfferFinished(x, y, k, m)
<1>1. CASE ~{"IsMimeTypeAccepted", "IsActionSent"} \subseteq x.o[k].state \/ "IsFinished" \in x.o[k].state
  BY <1>1 DEF FinishOffer
<1>2. CASE ~(~{"IsMimeTypeAccepted", "IsActionSent"} \subseteq x.o[k].state \/ "IsFinished" \in x.o[k].state)
  <2>1. PICK b : b = x.o[k]
    OBVIOUS
  <2>2. PICK n : n = k[1]
    OBVIOUS
  <2>3. b \in Offer /\ n \in Drags
    BY <2>1, <2>2 DEF Working, Offers
  <2>4. PICK c : c = [b EXCEPT !.state = @ \cup {"IsFinished"}]
    OBVIOUS
  <2>5. c \in Offer /\ c.dropped = b.dropped /\ "IsFinished" \in c.state
    BY <2>3, <2>4 DEF Offer
  <2>6. PICK u : u = SetOffer(x, k, c)
    OBVIOUS
  <2>7. u \in Working /\ OfferSet(x, u, k, c)
    BY <2>5, <2>6, SetOfferIs
  <2>8. u = [x EXCEPT !.o[k].state = @ \cup {"IsFinished"}]
    BY <2>1, <2>4, <2>6 DEF SetOffer, Working
  <2>9. PICK m \in {"cancelled", "finished"} : y = [u EXCEPT !.src[n].ended = Append(@, m)]
    <3>1. y = SendFinished(u, n) \/ y = SendCancelled(u, n)
      BY <1>2, <2>2, <2>8 DEF FinishOffer
    <3> QED
      BY <3>1 DEF SendFinished, SendCancelled
  <2>10. y \in Working /\ Ended(u, y, n, m)
    BY SMTT(30), <2>3, <2>7, <2>9, EndedIs
  <2>11. OfferFinished(x, y, k, m)
    BY <2>1, <2>2, <2>5, <2>7, <2>10 DEF OfferFinished, OfferSet, Ended, SameSeat
  <2> QED
    BY <1>2, <2>10, <2>11
<1> QED
  BY <1>1, <1>2

LEMMA FinishOfferSound ==
  ASSUME NEW in \in [Toplevels -> BOOLEAN], NEW x \in Working, Steady(x), Targeted(x, in), Counted(x),
         NEW k \in Offers, x.o[k].dropped, NEW p, NEW q, NEW y, y = FinishOffer(x, k)
  PROVE  y \in Working /\ Steady(y) /\ Targeted(y, in) /\ Kept(x, y, p, q)
<1>1. CASE y = x
  BY <1>1 DEF Kept
<1>2. CASE y # x
  <2>1. PICK m \in {"cancelled", "finished"} : OfferFinished(x, y, k, m)
    BY <1>2, FinishOfferIs
  <2>2. y \in Working /\ "IsFinished" \notin x.o[k].state
    BY <1>2, FinishOfferIs
  <2>3. PICK n : n = k[1]
    OBVIOUS
  <2>4. n \in Drags /\ x.src[n].performed \in Nat /\ x.src[n].performed > 0 /\ x.src[n] \in Source
    BY <2>3 DEF Offers, Working, Source, Counted
  <2>5. y.s = x.s /\ y.d = x.d /\ y.f = x.f /\ y.dev = x.dev /\ y.out = x.out /\ y.crashed = x.crashed
    BY SMTT(30), <2>1 DEF OfferFinished
  <2>6. /\ \A l \in Drags : l # n => y.src[l] = x.src[l]
        /\ \A l \in Offers : l # k => y.o[l] = x.o[l]
    BY SMTT(30), <2>1, <2>3 DEF OfferFinished
  <2>7. /\ y.src[n].alive = x.src[n].alive /\ y.src[n].performed = x.src[n].performed
        /\ y.src[n].ended = Append(x.src[n].ended, m)
        /\ y.o[k].dropped /\ "IsFinished" \in y.o[k].state
    BY <2>1, <2>3 DEF OfferFinished
  <2>8. x.s.dragging => n # x.s.source
    BY <2>4 DEF Steady, Begun
  <2>9. (x.s.source # NoSource => x.s.source \in Drags) /\ (x.f.source # NoSource => x.f.source \in Drags)
    BY DEF Working, Seat, FinishState
  <2>10. Begun(y)
    BY <2>5, <2>6, <2>8, <2>9 DEF Steady, Begun
  <2>11. Watched(y)
    <3>1. \A l \in Drags : y.src[l].alive = x.src[l].alive
      BY <2>6, <2>7
    <3> QED
      BY <2>5, <2>9, <3>1 DEF Steady, Watched
  <2>12. Selected(y) /\ ~y.crashed
    BY <2>5 DEF Steady, Selected
  <2>13. Over(y) /\ Agreed(y)
    <3>1. CASE ~(x.s.over # Nowhere /\ x.s.dragging)
      BY <2>5, <3>1 DEF Over, Agreed
    <3>2. CASE x.s.over # Nowhere /\ x.s.dragging
      <4>1. PICK j : j = x.dev.current
        OBVIOUS
      <4>2. j = <<x.s.source, x.s.over>> /\ x.d.top = Nowhere /\ x.o[j].held /\ j \in Offers
        BY ZenonT(30), <2>9, <3>2, <4>1 DEF Steady, Begun, Over, Offers, Working, Seat
      <4>3. j[1] = x.s.source /\ j # k /\ j[1] \in Drags /\ j[1] # n
        BY <2>3, <2>8, <3>2, <4>2 DEF Offers
      <4>4. y.o[j] = x.o[j] /\ y.src[j[1]] = x.src[j[1]]
        BY <2>6, <4>2, <4>3
      <4>5. Over(y)
        BY <2>5, <4>1, <4>2, <4>4 DEF Over
      <4>6. Agreed(y)
        BY <2>5, <4>1, <4>4 DEF Steady, Agreed
      <4> QED
        BY <4>5, <4>6
    <3> QED
      BY <3>1, <3>2
  <2>14. Targeted(y, in)
    BY <2>5 DEF Targeted, AllInform, Ready
  <2>15. Counted(y)
    <3>1. \A l \in Drags : y.src[l].performed = x.src[l].performed
      BY <2>6, <2>7
    <3>2. \A l \in Offers : y.o[l].dropped => x.o[l].dropped
      BY <2>6
    <3>3. \A l \in Offers : l[1] \in Drags
      BY DEF Offers
    <3> QED
      BY <2>5, <2>9, <3>1, <3>2, <3>3 DEF Counted
  <2>16. Told(x) => x.f.source = NoSource \/ x.f.source # n
    BY <2>3 DEF Told
  <2>17. ASSUME Told(x)
         PROVE  Told(y)
    <3>1. \A l \in Offers : l[1] \in Drags /\ (y.o[l].dropped => x.o[l].dropped)
      BY <2>6 DEF Offers
    <3>2. y.f.source # NoSource =>
            Cancelled(y, y.f.source) /\ \A l \in Offers : l[1] = y.f.source => ~y.o[l].dropped
      BY <2>5, <2>6, <2>9, <2>16, <2>17, <3>1 DEF Told, Cancelled
    <3>3. y.f.source # NoSource /\ "PendingDrop" \in y.d.flags => Untold(y, y.f.source)
      BY <2>5, <2>6, <2>9, <2>16, <2>17 DEF Told, Untold
    <3>4. \A j, l \in Offers : y.o[j].dropped /\ y.o[l].dropped /\ j[1] = l[1] => j = l
      BY <2>17, <3>1 DEF Told
    <3>5. ASSUME NEW l \in Offers, y.o[l].dropped, "IsFinished" \notin y.o[l].state
          PROVE  Untold(y, l[1])
      <4>1. l # k /\ x.o[l].dropped /\ "IsFinished" \notin x.o[l].state
        BY <2>6, <2>7, <3>5
      <4>2. l[1] # n
        BY <2>3, <2>17, <4>1 DEF Told
      <4> QED
        BY <2>6, <2>17, <3>1, <4>1, <4>2 DEF Told, Untold
    <3>6. ASSUME NEW l \in Drags
          PROVE  Alike(y, l)
      <4>1. CASE l = n
        <5>1. Untold(x, n)
          BY <2>2, <2>3, <2>17 DEF Told
        <5>2. y.src[n].ended = Append(<<>>, m)
          BY <2>7, <5>1 DEF Untold
        <5>3. \A i \in DOMAIN y.src[n].ended : y.src[n].ended[i] = m
          BY <5>2
        <5> QED
          BY <4>1, <5>3 DEF Alike
      <4>2. CASE l # n
        BY <2>6, <2>17, <4>2 DEF Told, Alike
      <4> QED
        BY <4>1, <4>2
    <3> QED
      BY <3>2, <3>3, <3>4, <3>5, <3>6 DEF Told
  <2>18. ASSUME Told(x), Awaited(x, p, q)
         PROVE  Awaited(y, p, q)
    <3>1. Waiting(x) => Waiting(y)
      BY <2>5, <2>6, <2>9, <2>16, <2>18 DEF Waiting, Untold
    <3>2. (NoDrops(x, p, q) => NoDrops(y, p, q)) /\ OneDrop(y, p, q)
      BY <2>5, <2>18 DEF Awaited, NoDrops, OneDrop, DropAt
    <3> QED
      BY <2>18, <3>1, <3>2 DEF Awaited
  <2> QED
    BY <2>2, <2>10, <2>11, <2>12, <2>13, <2>14, <2>15, <2>17, <2>18 DEF Steady, Kept
<1> QED
  BY <1>1, <1>2

-----------------------------------------------------------------------------
(* Every step keeps the invariant. *)

\* Who knows of the drag.
In(p) == [t \in Toplevels |-> p[t].state = "in"]

\* The inductive invariant of every drag, and that of one that is answered in time.
Good(x, p, q) ==
  /\ x \in Working /\ p \in [Toplevels -> Peer] /\ q \in Seq(Answers)
  /\ Steady(x) /\ Targeted(x, In(p)) /\ Counted(x) /\ \A t \in Toplevels : ~p[t].confused

Single(x, p, q) == Told(x) /\ Awaited(x, p, q)

\* A step from x, p and q to y, r and s.
Fine(x, p, q, y, r, s) == Good(y, r, s) /\ (~LateAnswers /\ Single(x, p, q) => Single(y, r, s))

LEMMA InIs ==
  ASSUME NEW p
  PROVE  In(p) \in [Toplevels -> BOOLEAN]
BY DEF In

LEMMA GoodKept ==
  ASSUME NEW x, NEW p, NEW q, Good(x, p, q),
         NEW y \in Working, Steady(y), Targeted(y, In(p)), Kept(x, y, p, q)
  PROVE  Fine(x, p, q, y, p, q)
BY DEF Good, Single, Fine, Kept

LEMMA GoodSame ==
  ASSUME NEW x, NEW p, NEW q, Good(x, p, q),
         NEW y \in Working, Steady(y), Targeted(y, In(p)), SameOutcome(x, y)
  PROVE  Fine(x, p, q, y, p, q)
<1>1. Kept(x, y, p, q)
  BY SameOutcomeKept DEF Good
<1> QED
  BY <1>1, GoodKept

LEMMA StartGood ==
  ASSUME NEW x, NEW p, NEW q, Good(x, p, q), ~x.s.dragging, x.f.source = NoSource,
         NEW n \in Drags, x.src[n].alive, x.src[n].performed = 0, x.src[n].ended = <<>>,
         NEW y, y = XLSeatBeginDrag(x, n)
  PROVE  Fine(x, p, q, y, p, q)
<1>1. y \in Working /\ Steady(y) /\ Targeted(y, In(p)) /\ SameOutcome(x, y)
  BY InIs, BeginDragSound DEF Good
<1> QED
  BY <1>1, GoodSame

LEMMA MoveInsideGood ==
  ASSUME Parameters, NEW x, NEW p, NEW q, Good(x, p, q), x.s.dragging,
         NEW s \in Surfaces, NEW y, y = EnteredSurface(XLDoDragLeave(x), s)
  PROVE  Fine(x, p, q, y, p, q)
<1>1. PICK z : z = XLDoDragLeave(x)
  OBVIOUS
<1>2. z \in Working /\ Steady(z) /\ Targeted(z, In(p)) /\ OnlyDrag(x, z) /\ z.d.top = Nowhere
  BY <1>1, InIs, DragLeaveSound DEF Good
<1>3. z.s.dragging /\ s \in Surfaces \cup {Nowhere} /\ y = EnteredSurface(z, s)
  BY <1>1, <1>2 DEF OnlyDrag, SameSeat
<1>4. y \in Working /\ Steady(y) /\ Targeted(y, In(p)) /\ SameOutcome(z, y)
  BY <1>2, <1>3, EnteredSurfaceSound
<1>5. SameOutcome(x, y)
  BY <1>2, <1>4, OnlyDragOutcome, SameOutcomeTwice
<1> QED
  BY <1>4, <1>5, GoodSame

LEMMA SubpixelGood ==
  ASSUME Parameters, NEW x, NEW p, NEW q, Good(x, p, q), x.s.dragging,
         NEW y, y = EnteredSurface(x, Nowhere)
  PROVE  Fine(x, p, q, y, p, q)
<1>1. y \in Working /\ Steady(y) /\ Targeted(y, In(p)) /\ SameOutcome(x, y)
  BY EnteredSurfaceSound DEF Good
<1> QED
  BY <1>1, GoodSame

LEMMA MoveOutsideGood ==
  ASSUME Parameters, NEW x, NEW p, NEW q, Good(x, p, q), x.s.dragging,
         NEW top \in Toplevels \cup {Nowhere}, NEW owns \in BOOLEAN, NEW inside \in BOOLEAN,
         NEW y, y = XLDoDragMotion(EnteredSurface(x, Nowhere), top, owns, inside)
  PROVE  Fine(x, p, q, y, p, q)
<1>1. PICK z : z = EnteredSurface(x, Nowhere)
  OBVIOUS
<1>2. /\ z \in Working /\ Steady(z) /\ Targeted(z, In(p)) /\ SameOutcome(x, z)
      /\ z.s.over = Nowhere /\ z.s.dragging
  BY <1>1, EnteredSurfaceSound DEF Good
<1>3. y \in Working /\ Steady(y) /\ Targeted(y, In(p)) /\ OnlyDrag(z, y)
  BY <1>1, <1>2, InIs, DragMotionSound
<1>4. SameOutcome(x, y)
  BY <1>2, <1>3, OnlyDragOutcome, SameOutcomeTwice
<1> QED
  BY <1>3, <1>4, GoodSame

LEMMA ReleaseGood ==
  ASSUME Parameters, NEW x, NEW p, NEW q, Good(x, p, q), x.s.dragging, NEW y, y = DragButton(x)
  PROVE  Fine(x, p, q, y, p, q)
<1>1. y \in Working /\ Steady(y) /\ Targeted(y, In(p)) /\ Kept(x, y, p, q)
  BY InIs, DragButtonSound DEF Good
<1> QED
  BY <1>1, GoodKept

LEMMA GrabBrokenGood ==
  ASSUME NEW x, NEW p, NEW q, Good(x, p, q), x.s.dragging, NEW y, y = CancelDrag(x)
  PROVE  Fine(x, p, q, y, p, q)
<1>1. Endable(x)
  BY DEF Good, Steady, Begun, Endable
<1>2. y \in Working /\ Steady(y) /\ Targeted(y, In(p)) /\ SameOutcome(x, y)
  BY <1>1, InIs, CancelDragSound DEF Good
<1> QED
  BY <1>2, GoodSame

\* The drag is where it was; only the seat changed.
LEMMA SeatChanged ==
  ASSUME NEW x, NEW p, NEW q, Good(x, p, q), NEW s \in Seat,
         s.dragging = x.s.dragging, s.source = x.s.source, s.over \in {x.s.over, Nowhere},
         NEW y, y = SetSeat(x, s)
  PROVE  Fine(x, p, q, y, p, q)
<1>1. y \in Working /\ SeatSet(x, y, s) /\ OnlySeat(x, y)
  BY SetSeatIs DEF Good
<1>2. Over(y) /\ Agreed(y)
  BY <1>1 DEF Good, Steady, Over, Agreed, SeatSet
<1>3. y.s.dragging \/ y.s.over = Nowhere
  BY <1>1 DEF Good, Steady, Begun, SeatSet
<1>4. Steady(y) /\ Targeted(y, In(p)) /\ SameOutcome(x, y)
  BY <1>1, <1>2, <1>3, SteadySeat DEF Good, Steady, SeatSet
<1> QED
  BY <1>1, <1>4, GoodSame

LEMMA ModifiersGood ==
  ASSUME Parameters, NEW x, NEW p, NEW q, Good(x, p, q), NEW inside \in BOOLEAN,
         NEW y, y = SendUpdatedModifiers([x EXCEPT !.s.shift = ~@], inside)
  PROVE  Fine(x, p, q, y, p, q)
<1>1. PICK s : s = [x.s EXCEPT !.shift = ~@]
  OBVIOUS
<1>2. x \in Working /\ x.s \in Seat
  BY DEF Good, Working
<1>3. s \in Seat /\ s.dragging = x.s.dragging /\ s.source = x.s.source /\ s.over = x.s.over
  BY <1>1, <1>2 DEF Seat
<1>4. PICK z : z = SetSeat(x, s)
  OBVIOUS
<1>5. y = SendUpdatedModifiers(z, inside)
  BY <1>1, <1>2, <1>4 DEF SetSeat, Working
<1>6. Fine(x, p, q, z, p, q)
  BY <1>3, <1>4, SeatChanged
<1>7. Good(z, p, q)
  BY <1>6 DEF Fine
<1>8. y \in Working /\ Steady(y) /\ Targeted(y, In(p)) /\ SameOutcome(z, y)
  BY <1>5, <1>7, InIs, ModifiersSound DEF Good
<1>9. Fine(z, p, q, y, p, q)
  BY <1>7, <1>8, GoodSame
<1> QED
  BY <1>6, <1>9 DEF Fine

\* The end of a seat ends the drag outside without a word.
LEMMA SeatGoneGood ==
  ASSUME NEW x, NEW p, NEW q, Good(x, p, q), x.d.seat,
         NEW w, w = [x EXCEPT !.d.seat = FALSE], NEW y, y = FinishDrag(w)
  PROVE  Fine(x, p, q, y, p, q)
<1>1. x \in Working /\ x.d \in DragState
  BY DEF Good, Working
<1>2. PICK d : d = [x.d EXCEPT !.seat = FALSE]
  OBVIOUS
<1>3. d \in DragState /\ d.top = x.d.top /\ d.version = x.d.version /\ d.flags = x.d.flags
  BY <1>1, <1>2 DEF DragState
<1>4. w = [x EXCEPT !.d = d]
  BY <1>1, <1>2 DEF Working
<1>5. w \in Working /\ SameSeat(x, w) /\ w.src = x.src /\ w.out = x.out /\ w.d = d
  BY <1>1, <1>3, <1>4 DEF Working, SameSeat
<1>6. y \in Working /\ Finished(w, y)
  BY <1>5, FinishDragIs
<1>7. /\ SameSeat(x, y) /\ y.src = x.src /\ Sent(w, y, "Leave")
      /\ ~y.d.seat /\ y.d.top = Nowhere /\ y.d.flags = {}
  <2>1. y.d = [d EXCEPT !.seat = FALSE, !.top = Nowhere, !.flags = {}, !.selection = NoSource]
    BY <1>5, <1>6 DEF Finished
  <2>2. ~y.d.seat /\ y.d.top = Nowhere /\ y.d.flags = {}
    BY <1>3, <2>1 DEF DragState
  <2>3. SameSeat(x, y) /\ y.src = x.src /\ Sent(w, y, "Leave")
    BY <1>5, <1>6 DEF Finished, SameSeat
  <2> QED
    BY <2>2, <2>3
<1>8. AllInform(w, In(p))
  BY <1>5 DEF Good, Targeted, AllInform
<1>9. SameDrops(w, y) /\ AllInform(y, In(p))
  BY <1>5, <1>6, <1>7, <1>8, InIs, LeaveInforms
<1>10. SameDrops(x, y)
  <2>1. SameDrops(x, w)
    BY <1>5, SameDropsOut
  <2> QED
    BY <1>9, <2>1 DEF SameDrops
<1>11. OnlyDrag(x, y)
  BY <1>7, <1>10 DEF OnlyDrag, SameSources
<1>12. Selected(y)
  BY <1>7 DEF Selected
<1>13. Steady(y)
  BY <1>1, <1>6, <1>7, <1>11, <1>12, SteadyDrag DEF Good
<1>14. Targeted(y, In(p))
  BY <1>7, <1>9 DEF Targeted
<1> QED
  BY <1>6, <1>11, <1>13, <1>14, OnlyDragOutcome, GoodSame

SeatEnded(z) == IF z.d.seat THEN FinishDrag([z EXCEPT !.d.seat = FALSE]) ELSE z

LEMMA SeatDestroyedGood ==
  ASSUME NEW x, NEW p, NEW q, Good(x, p, q),
         NEW z, z = [x EXCEPT !.s.inert = TRUE], NEW y, y = SeatEnded(z)
  PROVE  Fine(x, p, q, y, p, q)
<1>1. PICK s : s = [x.s EXCEPT !.inert = TRUE]
  OBVIOUS
<1>2. x \in Working /\ x.s \in Seat
  BY DEF Good, Working
<1>3. s \in Seat /\ s.dragging = x.s.dragging /\ s.source = x.s.source /\ s.over = x.s.over
  BY <1>1, <1>2 DEF Seat
<1>4. z = SetSeat(x, s)
  BY <1>1, <1>2 DEF SetSeat, Working
<1>5. Fine(x, p, q, z, p, q)
  BY <1>3, <1>4, SeatChanged
<1>6. Good(z, p, q)
  BY <1>5 DEF Fine
<1>7. CASE ~z.d.seat
  BY <1>5, <1>7 DEF SeatEnded
<1>8. CASE z.d.seat
  <2>1. PICK w : w = [z EXCEPT !.d.seat = FALSE]
    OBVIOUS
  <2>2. y = FinishDrag(w)
    BY <1>8, <2>1 DEF SeatEnded
  <2>3. Fine(z, p, q, y, p, q)
    BY <1>6, <1>8, <2>1, <2>2, SeatGoneGood
  <2> QED
    BY <1>5, <2>3 DEF Fine
<1> QED
  BY <1>7, <1>8

LEMMA DeviceGood ==
  ASSUME NEW x, NEW p, NEW q, Good(x, p, q), NEW y \in Working, OnlyDevice(x, y), Over(y), Agreed(y)
  PROVE  Fine(x, p, q, y, p, q)
<1>1. Steady(y) /\ Targeted(y, In(p)) /\ SameOutcome(x, y)
  BY SteadyDevice DEF Good, Steady
<1> QED
  BY <1>1, GoodSame

LEMMA AcceptGood ==
  ASSUME NEW x, NEW p, NEW q, Good(x, p, q), NEW k \in Offers, NEW accepts \in BOOLEAN,
         NEW y, y = AcceptOffer(x, k, accepts)
  PROVE  Fine(x, p, q, y, p, q)
<1>1. y \in Working /\ OnlyDevice(x, y) /\ Over(y) /\ Agreed(y)
  BY AcceptIs DEF Good, Steady
<1> QED
  BY <1>1, DeviceGood

LEMMA SetActionsGood ==
  ASSUME Parameters, NEW x, NEW p, NEW q, Good(x, p, q), NEW k \in Offers, NEW a \in Preferred,
         NEW y, y = DataOfferSetActions(x, k, IF a = "none" THEN {} ELSE {a}, a)
  PROVE  Fine(x, p, q, y, p, q)
<1>1. PICK supported : supported = IF a = "none" THEN {} ELSE {a}
  OBVIOUS
<1>2. supported \in SUBSET Actions /\ a \in Actions
  BY <1>1 DEF Actions
<1>3. y = DataOfferSetActions(x, k, supported, a)
  BY <1>1
<1>4. y \in Working /\ OnlyDevice(x, y) /\ Over(y) /\ Agreed(y)
  BY <1>2, <1>3, SetActionsIs DEF Good, Steady
<1> QED
  BY <1>4, DeviceGood

LEMMA FinishGood ==
  ASSUME NEW x, NEW p, NEW q, Good(x, p, q), NEW k \in Offers, x.o[k].dropped,
         NEW y, y = FinishOffer(x, k)
  PROVE  Fine(x, p, q, y, p, q)
<1>1. y \in Working /\ Steady(y) /\ Targeted(y, In(p)) /\ Kept(x, y, p, q)
  BY InIs, FinishOfferSound DEF Good
<1> QED
  BY <1>1, GoodKept

LEMMA DestroyGood ==
  ASSUME NEW x, NEW p, NEW q, Good(x, p, q), NEW n \in Drags, x.src[n].ended # <<>>,
         NEW y, y = HandleSourceResourceDestroy(x, n)
  PROVE  Fine(x, p, q, y, p, q)
<1>1. ~Untold(x, n)
  BY DEF Untold
<1>2. y \in Working /\ Steady(y) /\ Targeted(y, In(p)) /\ Kept(x, y, p, q)
  BY <1>1, InIs, SourceDestroyedSound DEF Good
<1> QED
  BY <1>2, GoodKept

\* An answer in time finds no timer: the timer finds no drop on its way.
LEMMA TimerGood ==
  ASSUME NEW x, NEW p, NEW q, Good(x, p, q), NEW t \in x.f.timers,
         ~LateAnswers => q = <<>> /\ \A u \in Toplevels : x.out[u] = <<>>,
         NEW r, r = IF LateAnswers THEN p
                    ELSE [u \in Toplevels |-> IF p[u].state = "dropped" THEN [p[u] EXCEPT !.state = "out"]
                                              ELSE p[u]],
         NEW y, y = HandleTimerExpired(x, t)
  PROVE  Fine(x, p, q, y, r, q)
<1>1. x \in Working /\ Steady(x) /\ Targeted(x, In(p)) /\ Counted(x) /\ p \in [Toplevels -> Peer]
  BY DEF Good
<1>2. PICK n : n = x.f.source
  OBVIOUS
<1>3. y \in Working /\ Steady(y) /\ Targeted(y, In(p)) /\ n # NoSource /\ Unwaited(x, y, n, "cancelled")
  BY <1>1, <1>2, InIs, TimerExpiredSound
<1>4. n \in Drags
  BY <1>1, <1>2, <1>3 DEF Working, FinishState
<1>5. Counted(y) /\ (Told(x) => Told(y))
  BY <1>1, <1>2, <1>3, <1>4, UnwaitedKept
<1>6. CASE LateAnswers
  BY <1>3, <1>5, <1>6 DEF Fine, Good
<1>7. CASE ~LateAnswers
  <2>1. ASSUME NEW u \in Toplevels
        PROVE  /\ r[u] \in Peer /\ r[u].confused = p[u].confused /\ r[u].state # "dropped"
               /\ (r[u].state = "in" <=> p[u].state = "in")
    BY <1>1, <1>7 DEF Peer
  <2>2. r \in [Toplevels -> Peer] /\ \A u \in Toplevels : ~r[u].confused
    BY <1>7, <2>1 DEF Good
  <2>3. In(r) = In(p)
    BY <2>1 DEF In
  <2>4. Good(y, r, q)
    BY <1>3, <1>5, <2>2, <2>3 DEF Good
  <2>5. NoDrops(y, r, q)
    <3>1. \A u \in Toplevels, i \in Nat : ~DropAt(x, u, i)
      BY <1>7 DEF DropAt
    <3>2. \A u \in Toplevels, i \in Nat : ~DropAt(y, u, i)
      BY <1>3, <3>1 DEF Unwaited, SameDrops
    <3>3. \A i \in Nat : ~AnswerAt(q, i)
      BY <1>7 DEF AnswerAt
    <3> QED
      BY <2>1, <3>2, <3>3 DEF NoDrops, HeldAt
  <2> QED
    BY <1>5, <2>4, <2>5, NoDropsAwaited DEF Fine, Single
<1> QED
  BY <1>6, <1>7

\* Only the messages differ.
LEMMA QueuesChanged ==
  ASSUME NEW x \in Working, Steady(x), Counted(x),
         NEW out \in [Toplevels -> Seq(Messages)], NEW y, y = [x EXCEPT !.out = out]
  PROVE  /\ y \in Working /\ y.out = out /\ y.d = x.d /\ y.f = x.f /\ Steady(y) /\ Counted(y)
         /\ Told(x) => Told(y)
         /\ Waiting(x) => Waiting(y)
<1>1. /\ y \in Working /\ y.out = out /\ y.s = x.s /\ y.d = x.d /\ y.f = x.f /\ y.src = x.src
      /\ y.dev = x.dev /\ y.o = x.o /\ y.crashed = x.crashed
  BY DEF Working
<1>2. Begun(y) /\ Selected(y) /\ Over(y)
  BY <1>1 DEF Steady, Begun, Selected, Over
<1>3. Watched(y) /\ Agreed(y) /\ ~y.crashed
  BY <1>1 DEF Steady, Watched, Agreed
<1>4. Counted(y)
  BY <1>1 DEF Counted
<1>5. Told(x) => Told(y)
  BY <1>1 DEF Told, Cancelled, Untold, Alike
<1>6. Waiting(x) => Waiting(y)
  BY <1>1 DEF Waiting, Untold
<1> QED
  BY <1>1, <1>2, <1>3, <1>4, <1>5, <1>6 DEF Steady

\* What a target knows after message m.
Learned(a, b, m) ==
  /\ b \in Peer
  /\ b.state = "in" <=> m = "Enter" \/ (~Closes(m) /\ a.state = "in")
  /\ m = "Drop" => b.state = "dropped"
  /\ m # "Drop" => (b.state = "dropped" => a.state = "dropped")
  /\ b.confused <=> a.confused \/ (m \in {"Position", "Drop"} /\ a.state = "out")

\* A target has read a message.
LEMMA ReadGood ==
  ASSUME NEW x, NEW p, NEW q, Good(x, p, q), NEW t \in Toplevels, x.out[t] # <<>>,
         NEW b, Learned(p[t], b, Head(x.out[t])),
         NEW r, r = [p EXCEPT ![t] = b],
         NEW s, s = q \/ \E a \in Answers : a.type = "Status" /\ s = Append(q, a),
         NEW y, y = [x EXCEPT !.out = [x.out EXCEPT ![t] = Tail(@)]]
  PROVE  Fine(x, p, q, y, r, s)
<1>1. /\ x \in Working /\ x.out \in [Toplevels -> Seq(Messages)] /\ p \in [Toplevels -> Peer]
      /\ q \in Seq(Answers) /\ Steady(x) /\ Counted(x) /\ Targeted(x, In(p))
  BY DEF Good, Working
<1>2. PICK c : c = x.out[t]
  OBVIOUS
<1>3. PICK m : m = Head(c)
  OBVIOUS
<1>4. PICK e : e = Tail(c)
  OBVIOUS
<1>5. c \in Seq(Messages) /\ c # <<>> /\ m \in Messages /\ m = c[1] /\ Len(c) \in Nat /\ Len(c) >= 1
  <2>1. c \in Seq(Messages) /\ c # <<>>
    BY <1>1, <1>2
  <2> QED
    BY <1>3, <2>1
<1>6. Learned(p[t], b, m) /\ ~p[t].confused
  BY <1>2, <1>3 DEF Good
<1>7. PICK out : out = [x.out EXCEPT ![t] = e]
  OBVIOUS
<1>8. /\ out \in [Toplevels -> Seq(Messages)] /\ out[t] = e
      /\ \A u \in Toplevels : u # t => out[u] = x.out[u]
  BY <1>1, <1>4, <1>5, <1>7
<1>9. y = [x EXCEPT !.out = out]
  BY <1>2, <1>4, <1>7
<1>10. /\ y \in Working /\ y.out = out /\ y.d = x.d /\ y.f = x.f /\ Steady(y) /\ Counted(y)
       /\ Told(x) => Told(y)
       /\ Waiting(x) => Waiting(y)
  BY <1>1, <1>8, <1>9, QueuesChanged
<1>11. /\ r \in [Toplevels -> Peer] /\ r[t] = b
       /\ \A u \in Toplevels : u # t => r[u] = p[u]
  BY <1>1, <1>6 DEF Learned
<1>12. PICK inside \in BOOLEAN : inside <=> p[t].state = "in"
  OBVIOUS
<1>13. PICK now \in BOOLEAN : now <=> b.state = "in"
  OBVIOUS
<1>14. In(p)[t] = inside /\ In(r)[t] = now /\ \A u \in Toplevels : u # t => In(r)[u] = In(p)[u]
  BY <1>11, <1>12, <1>13 DEF In
<1>15. now = (IF Head(c) = "Enter" THEN TRUE ELSE IF Closes(Head(c)) THEN FALSE ELSE inside)
  BY <1>3, <1>6, <1>12, <1>13 DEF Learned, Closes
<1>16. /\ e \in Seq(Messages) /\ Len(c) = Len(e) + 1
       /\ \A i \in 1 .. Len(e) + 1 : Entered(c, inside, i + 1) => Entered(e, now, i)
       /\ Informs(c, inside) => Informs(e, now)
  <2>1. Shifted(c, e, inside, now)
    BY <1>4, <1>5, <1>15, TailInforms
  <2> QED
    BY <2>1 DEF Shifted
<1>17. Informs(c, inside)
  BY <1>1, <1>2, <1>14 DEF Targeted, AllInform
<1>18. AllInform(y, In(r))
  <2> SUFFICES ASSUME NEW u \in Toplevels
               PROVE  Informs(y.out[u], In(r)[u])
    BY DEF AllInform
  <2>1. CASE u = t
    BY <1>8, <1>10, <1>14, <1>16, <1>17, <2>1
  <2>2. CASE u # t
    BY <1>1, <1>8, <1>10, <1>14, <2>2 DEF Targeted, AllInform
  <2> QED
    BY <2>1, <2>2
<1>19. ASSUME NEW u \in Toplevels, Ready(x, In(p), u)
       PROVE  Ready(y, In(r), u)
  <2>1. CASE u = t
    <3>1. Entered(c, inside, Len(c) + 1)
      BY <1>2, <1>14, <1>19, <2>1 DEF Ready
    <3>2. Len(e) \in Nat /\ Len(c) + 1 = (Len(e) + 1) + 1 /\ Len(e) + 1 \in 1 .. Len(e) + 1
      BY <1>16
    <3>3. Entered(e, now, Len(e) + 1)
      BY <1>16, <3>1, <3>2
    <3> QED
      BY <1>8, <1>10, <1>14, <2>1, <3>3 DEF Ready
  <2>2. CASE u # t
    BY <1>8, <1>10, <1>14, <1>19, <2>2 DEF Ready
  <2> QED
    BY <2>1, <2>2
<1>20. Targeted(y, In(r))
  <2>1. y.d.top # Nowhere => y.d.top \in Toplevels
    BY <1>10 DEF Working, DragState
  <2> QED
    BY <1>1, <1>10, <1>18, <1>19, <2>1 DEF Targeted
<1>21. ~b.confused
  <2>1. m \in {"Position", "Drop"} => inside
    BY <1>5, <1>17 DEF Informs, Entered
  <2> QED
    BY <1>6, <1>12, <2>1 DEF Learned
<1>22. s \in Seq(Answers) /\ \A i \in Nat : AnswerAt(s, i) => AnswerAt(q, i)
  <2>1. CASE s = q
    BY <1>1, <2>1
  <2>2. CASE s # q
    <3>1. PICK a \in Answers : a.type = "Status" /\ s = Append(q, a)
      BY <2>2
    <3>2. /\ s \in Seq(Answers) /\ Len(s) = Len(q) + 1 /\ Len(q) \in Nat /\ s[Len(s)] = a
          /\ DOMAIN s = 1 .. Len(s) /\ DOMAIN q = 1 .. Len(q)
          /\ \A i \in 1 .. Len(q) : s[i] = q[i]
      BY <1>1, <3>1
    <3>3. ASSUME NEW i \in Nat, AnswerAt(s, i)
          PROVE  AnswerAt(q, i)
      <4>1. i \in 1 .. Len(s) /\ s[i].type = "Finished"
        BY SMTT(30), <3>2, <3>3 DEF AnswerAt
      <4>2. i # Len(s)
        BY ZenonT(30), <3>1, <3>2, <4>1
      <4>3. i \in 1 .. Len(q)
        BY <3>2, <4>1, <4>2
      <4>4. q[i].type = "Finished"
        BY <3>2, <4>1, <4>3
      <4> QED
        BY <3>2, <4>3, <4>4 DEF AnswerAt
    <3> QED
      BY <3>2, <3>3
  <2> QED
    BY <2>1, <2>2
<1>23. Good(y, r, s)
  <2>1. \A u \in Toplevels : ~r[u].confused
    BY <1>11, <1>21 DEF Good
  <2> QED
    BY <1>10, <1>11, <1>20, <1>22, <2>1 DEF Good
<1>24. ASSUME NEW u \in Toplevels, NEW i \in Nat, DropAt(y, u, i)
       PROVE  \E j \in Nat : DropAt(x, u, j) /\ (u = t => j = i + 1) /\ (u # t => j = i)
  <2>1. CASE u = t
    <3>1. i \in 1 .. Len(e) /\ e[i] = "Drop"
      BY <1>8, <1>10, <1>16, <1>24, <2>1 DEF DropAt
    <3>2. i + 1 \in 1 .. Len(c) /\ c[i + 1] = "Drop" /\ DOMAIN c = 1 .. Len(c)
      BY <1>4, <1>5, <1>16, <3>1
    <3>3. DropAt(x, t, i + 1)
      BY <1>2, <3>2 DEF DropAt
    <3> QED
      BY <2>1, <3>3
  <2>2. CASE u # t
    BY <1>8, <1>10, <1>24, <2>2 DEF DropAt
  <2> QED
    BY <2>1, <2>2
<1>25. m = "Drop" => DropAt(x, t, 1)
  BY <1>2, <1>5 DEF DropAt
<1>26. ASSUME NEW u \in Toplevels, HeldAt(r, u)
       PROVE  HeldAt(p, u) \/ (u = t /\ m = "Drop")
  BY <1>6, <1>11, <1>26 DEF HeldAt, Learned
<1>27. NoDrops(x, p, q) => NoDrops(y, r, s)
  BY <1>22, <1>24, <1>25, <1>26 DEF NoDrops
<1>28. ASSUME OneDrop(x, p, q)
       PROVE  OneDrop(y, r, s)
  <2>1. ASSUME NEW u \in Toplevels, NEW w \in Toplevels, NEW i \in Nat, NEW j \in Nat,
               DropAt(y, u, i), DropAt(y, w, j)
        PROVE  u = w /\ i = j
    <3>1. PICK k \in Nat : DropAt(x, u, k) /\ (u = t => k = i + 1) /\ (u # t => k = i)
      BY <1>24, <2>1
    <3>2. PICK l \in Nat : DropAt(x, w, l) /\ (w = t => l = j + 1) /\ (w # t => l = j)
      BY <1>24, <2>1
    <3>3. u = w /\ k = l
      BY <1>28, <3>1, <3>2 DEF OneDrop
    <3> QED
      BY <3>1, <3>2, <3>3
  <2>2. ASSUME m = "Drop"
        PROVE  /\ \A u \in Toplevels, i \in Nat : ~DropAt(y, u, i)
               /\ \A u \in Toplevels : HeldAt(r, u) => u = t
               /\ \A i \in Nat : ~AnswerAt(s, i)
    <3>1. \A u \in Toplevels, k \in Nat : DropAt(x, u, k) => u = t /\ k = 1
      BY <1>25, <1>28, <2>2 DEF OneDrop
    <3>2. \A u \in Toplevels : ~HeldAt(p, u)
      BY <1>25, <1>28, <2>2 DEF OneDrop
    <3>3. \A i \in Nat : ~AnswerAt(q, i)
      BY <1>25, <1>28, <2>2 DEF OneDrop
    <3>4. ASSUME NEW u \in Toplevels, NEW i \in Nat, DropAt(y, u, i)
          PROVE  FALSE
      <4>1. ~DropAt(y, u, 0)
        <5>1. DOMAIN y.out[u] = 1 .. Len(y.out[u])
          BY <1>8, <1>10
        <5> QED
          BY <5>1 DEF DropAt
      <4>2. i # 0
        BY <3>4, <4>1
      <4>3. PICK k \in Nat : DropAt(x, u, k) /\ (u = t => k = i + 1) /\ (u # t => k = i)
        BY <1>24, <3>4
      <4> QED
        BY <3>1, <4>2, <4>3
    <3> QED
      BY <1>22, <1>26, <3>2, <3>3, <3>4
  <2>3. ASSUME m # "Drop"
        PROVE  /\ \A u, w \in Toplevels : HeldAt(r, u) /\ HeldAt(r, w) => u = w
               /\ \A u, w \in Toplevels, i \in Nat : ~(DropAt(y, u, i) /\ HeldAt(r, w))
               /\ \A u \in Toplevels, i, j \in Nat : ~(DropAt(y, u, i) /\ AnswerAt(s, j))
               /\ \A u \in Toplevels, i \in Nat : ~(HeldAt(r, u) /\ AnswerAt(s, i))
               /\ \A i, j \in Nat : AnswerAt(s, i) /\ AnswerAt(s, j) => i = j
    <3>1. \A u \in Toplevels : HeldAt(r, u) => HeldAt(p, u)
      BY <1>26, <2>3
    <3>2. \A u \in Toplevels, i \in Nat : DropAt(y, u, i) => \E j \in Nat : DropAt(x, u, j)
      BY <1>24
    <3> QED
      BY <1>22, <1>28, <3>1, <3>2 DEF OneDrop
  <2>4. CASE m = "Drop"
    BY <2>1, <2>2, <2>4 DEF OneDrop
  <2>5. CASE m # "Drop"
    BY <2>1, <2>3, <2>5 DEF OneDrop
  <2> QED
    BY <2>4, <2>5
<1>29. Single(x, p, q) => Single(y, r, s)
  BY <1>10, <1>27, <1>28 DEF Single, Awaited
<1> QED
  BY <1>23, <1>29 DEF Fine

\* A target answers the drop.
LEMMA AnswerGood ==
  ASSUME NEW x, NEW p, NEW q, Good(x, p, q), NEW t \in Toplevels, p[t].state = "dropped",
         NEW r, r = [p EXCEPT ![t].state = "out"],
         NEW a \in Answers, a.type = "Finished", NEW s, s = Append(q, a)
  PROVE  Fine(x, p, q, x, r, s)
<1>1. p \in [Toplevels -> Peer] /\ q \in Seq(Answers)
  BY DEF Good
<1>2. PICK b : b = [p[t] EXCEPT !.state = "out"]
  OBVIOUS
<1>3. b \in Peer /\ b.confused = p[t].confused /\ b.state = "out"
  BY <1>1, <1>2 DEF Peer
<1>4. r = [p EXCEPT ![t] = b]
  BY <1>1, <1>2
<1>5. r \in [Toplevels -> Peer] /\ r[t] = b /\ \A u \in Toplevels : u # t => r[u] = p[u]
  BY <1>1, <1>3, <1>4
<1>6. In(r) = In(p)
  BY <1>3, <1>5 DEF In
<1>7. /\ s \in Seq(Answers) /\ Len(s) = Len(q) + 1 /\ Len(q) \in Nat
      /\ DOMAIN s = 1 .. Len(s) /\ DOMAIN q = 1 .. Len(q)
      /\ \A i \in 1 .. Len(q) : s[i] = q[i]
  BY <1>1
<1>8. Good(x, r, s)
  <2>1. \A u \in Toplevels : ~r[u].confused
    BY <1>3, <1>5 DEF Good
  <2> QED
    BY <1>5, <1>6, <1>7, <2>1 DEF Good
<1>9. HeldAt(p, t) /\ \A u \in Toplevels : HeldAt(r, u) => HeldAt(p, u) /\ u # t
  BY <1>3, <1>5 DEF HeldAt
<1>10. ASSUME NEW i \in Nat, AnswerAt(s, i)
       PROVE  AnswerAt(q, i) \/ i = Len(s)
  <2>1. i \in 1 .. Len(s) /\ s[i].type = "Finished"
    BY <1>7, <1>10 DEF AnswerAt
  <2>2. CASE i # Len(s)
    <3>1. i \in 1 .. Len(q)
      BY <1>7, <2>1, <2>2
    <3>2. q[i].type = "Finished"
      BY <1>7, <2>1, <3>1
    <3> QED
      BY <1>7, <3>1, <3>2 DEF AnswerAt
  <2> QED
    BY <2>2
<1>11. Awaited(x, p, q) => Waiting(x)
  BY <1>9 DEF Awaited, NoDrops
<1>12. ASSUME OneDrop(x, p, q)
       PROVE  OneDrop(x, r, s)
  <2>1. /\ \A u \in Toplevels, i \in Nat : ~DropAt(x, u, i)
        /\ \A u \in Toplevels : HeldAt(p, u) => u = t
        /\ \A i \in Nat : ~AnswerAt(q, i)
    BY <1>9, <1>12 DEF OneDrop
  <2>2. \A u \in Toplevels : ~HeldAt(r, u)
    BY <1>9, <2>1
  <2>3. \A i \in Nat : AnswerAt(s, i) => i = Len(s)
    BY <1>10, <2>1
  <2> QED
    BY <2>1, <2>2, <2>3 DEF OneDrop
<1> QED
  BY <1>8, <1>11, <1>12 DEF Fine, Single, Awaited

\* The rest of the answers.
LEMMA TailAnswers ==
  ASSUME NEW q \in Seq(Answers), q # <<>>, NEW s, s = Tail(q)
  PROVE  /\ s \in Seq(Answers) /\ Head(q) \in Answers
         /\ \A i \in Nat : AnswerAt(s, i) => i # 0 /\ AnswerAt(q, i + 1)
         /\ Head(q).type = "Finished" => AnswerAt(q, 1)
<1>1. /\ s \in Seq(Answers) /\ Len(q) \in Nat /\ Len(q) >= 1 /\ Len(s) = Len(q) - 1
      /\ DOMAIN s = 1 .. Len(s) /\ DOMAIN q = 1 .. Len(q) /\ Head(q) = q[1] /\ Head(q) \in Answers
      /\ \A i \in 1 .. Len(s) : s[i] = q[i + 1]
  OBVIOUS
<1>2. ASSUME NEW i \in Nat, AnswerAt(s, i)
      PROVE  i # 0 /\ AnswerAt(q, i + 1)
  <2>1. i \in 1 .. Len(s) /\ s[i].type = "Finished"
    BY <1>1, <1>2 DEF AnswerAt
  <2>2. i # 0 /\ i + 1 \in 1 .. Len(q) /\ q[i + 1].type = "Finished"
    BY <1>1, <2>1
  <2> QED
    BY <1>1, <2>2 DEF AnswerAt
<1>3. Head(q).type = "Finished" => AnswerAt(q, 1)
  BY <1>1 DEF AnswerAt
<1> QED
  BY <1>1, <1>2, <1>3

LEMMA AnswerRead ==
  ASSUME NEW x, NEW p, NEW q, Good(x, p, q), q # <<>>, NEW s, s = Tail(q)
  PROVE  Fine(x, p, q, x, p, s)
<1>1. q \in Seq(Answers)
  BY DEF Good
<1>2. s \in Seq(Answers) /\ \A i \in Nat : AnswerAt(s, i) => AnswerAt(q, i + 1)
  BY <1>1, TailAnswers
<1>3. Good(x, p, s)
  BY <1>2 DEF Good
<1>4. NoDrops(x, p, q) => NoDrops(x, p, s)
  BY <1>2 DEF NoDrops
<1>5. ASSUME OneDrop(x, p, q)
      PROVE  OneDrop(x, p, s)
  <2>1. \A i, j \in Nat : AnswerAt(s, i) /\ AnswerAt(s, j) => i = j
    <3> SUFFICES ASSUME NEW i \in Nat, NEW j \in Nat, AnswerAt(s, i), AnswerAt(s, j)
                 PROVE  i = j
      OBVIOUS
    <3>1. i + 1 \in Nat /\ j + 1 \in Nat /\ AnswerAt(q, i + 1) /\ AnswerAt(q, j + 1)
      BY <1>2
    <3>2. i + 1 = j + 1
      BY <1>5, <3>1 DEF OneDrop
    <3> QED
      BY <3>2
  <2>2. \A i \in Nat : AnswerAt(s, i) => \E j \in Nat : AnswerAt(q, j)
    BY <1>2
  <2> QED
    BY <1>5, <2>1, <2>2 DEF OneDrop
<1> QED
  BY <1>3, <1>4, <1>5 DEF Fine, Single, Awaited

\* XdndFinished: whoever waits is told, and no drop is left on its way.
LEMMA XdndFinishedGood ==
  ASSUME NEW x, NEW p, NEW q, Good(x, p, q), q # <<>>, NEW s, s = Tail(q),
         NEW m, m = Head(q), m.type = "Finished", NEW y, y = HandleXdndFinished(x, m)
  PROVE  Fine(x, p, q, y, p, s)
<1>1. CASE x.f.source = NoSource
  <2>1. y = x
    BY <1>1 DEF HandleXdndFinished
  <2> QED
    BY <2>1, AnswerRead
<1>2. CASE x.f.source # NoSource
  <2>1. PICK n : n = x.f.source
    OBVIOUS
  <2>2. x \in Working /\ q \in Seq(Answers) /\ n \in Drags /\ n # NoSource
    BY <1>2, <2>1 DEF Good, Working, FinishState
  <2>3. y \in Working /\ Steady(y) /\ Targeted(y, In(p))
    BY <1>2, InIs, XdndFinishedSound DEF Good
  <2>4. PICK e \in {"cancelled", "finished"} : Unwaited(x, y, n, e)
    BY <1>2, <2>1, InIs, XdndFinishedSound DEF Good
  <2>5. /\ s \in Seq(Answers) /\ AnswerAt(q, 1)
        /\ \A i \in Nat : AnswerAt(s, i) => i # 0 /\ AnswerAt(q, i + 1)
    BY <2>2, TailAnswers
  <2>6. Counted(y)
    <3>1. \A k \in Offers : k[1] \in Drags
      BY DEF Offers
    <3> QED
      BY <2>2, <2>4, <3>1 DEF Good, Counted, Unwaited
  <2>7. Good(y, p, s)
    BY <2>3, <2>5, <2>6 DEF Good
  <2>8. ASSUME Single(x, p, q)
        PROVE  Single(y, p, s)
    <3>1. Untold(x, n)
      <4>1. ~NoDrops(x, p, q)
        BY <2>5 DEF NoDrops
      <4> QED
        BY <2>1, <2>8, <4>1 DEF Single, Awaited, Waiting
    <3>2. Told(y)
      BY <2>1, <2>2, <2>4, <2>8, <3>1, UnwaitedKept DEF Single
    <3>3. NoDrops(y, p, s)
      <4>1. /\ \A t \in Toplevels, i \in Nat : ~DropAt(x, t, i)
            /\ \A t \in Toplevels : ~HeldAt(p, t)
            /\ \A i \in Nat : AnswerAt(q, i) => i = 1
        BY <2>5, <2>8 DEF Single, Awaited, OneDrop
      <4>2. \A t \in Toplevels, i \in Nat : ~DropAt(y, t, i)
        BY <2>4, <4>1 DEF Unwaited, SameDrops
      <4>3. ASSUME NEW i \in Nat, AnswerAt(s, i)
            PROVE  FALSE
        <5>1. i # 0 /\ AnswerAt(q, i + 1) /\ i + 1 \in Nat
          BY <2>5, <4>3
        <5>2. i + 1 = 1
          BY <4>1, <5>1
        <5> QED
          BY <5>1, <5>2
      <4> QED
        BY <4>1, <4>2, <4>3 DEF NoDrops
    <3> QED
      BY <3>2, <3>3, NoDropsAwaited DEF Single
  <2> QED
    BY <2>7, <2>8 DEF Fine
<1> QED
  BY <1>1, <1>2

LEMMA XdndStatusGood ==
  ASSUME Parameters, NEW x, NEW p, NEW q, Good(x, p, q), q # <<>>, NEW s, s = Tail(q), x.d.seat,
         NEW m, m = Head(q), m.type = "Status", NEW inside \in BOOLEAN, NEW y, y = HandleXdndStatus(x, m, inside)
  PROVE  Fine(x, p, q, y, p, s)
<1>1. Fine(x, p, q, x, p, s)
  BY AnswerRead
<1>2. m \in Answers
  BY TailAnswers DEF Good
<1>3. Good(x, p, s)
  BY <1>1 DEF Fine
<1>4. y \in Working /\ Steady(y) /\ Targeted(y, In(p)) /\ Kept(x, y, p, s)
  BY <1>2, <1>3, InIs, XdndStatusSound DEF Good
<1>5. Fine(x, p, s, y, p, s)
  BY <1>3, <1>4, GoodKept
<1> QED
  BY <1>1, <1>5 DEF Fine

-----------------------------------------------------------------------------
(* The specification. *)

\* The inductive invariant.
DragInvariant == Good(Now, peers, incoming) /\ (~LateAnswers => Single(Now, peers, incoming))

LEMMA NowBecomes ==
  ASSUME NEW y \in Working, Become(y)
  PROVE  Now' = y
BY DEF Working, Become, Now

LEMMA Becomes ==
  ASSUME DragInvariant, NEW y, NEW r, NEW s, Fine(Now, peers, incoming, y, r, s),
         Become(y), peers' = r, incoming' = s
  PROVE  DragInvariant'
<1>1. Now' = y
  BY NowBecomes DEF Fine, Good
<1>2. Good(y, r, s) /\ (~LateAnswers => Single(y, r, s))
  BY DEF DragInvariant, Fine
<1> QED
  BY <1>1, <1>2 DEF DragInvariant

\* No drag has begun.
LEMMA DragInitInvariant ==
  ASSUME Parameters, DragInit
  PROVE  DragInvariant
<1>1. PICK x : x = Now
  OBVIOUS
<1>2. /\ x.s = InitSeat /\ x.d = InitDrag /\ x.f = InitFinish
      /\ x.src = [n \in Drags |-> NewSource]
      /\ x.dev = [current |-> NoOffer, supported |-> {}, preferred |-> "none"]
      /\ x.o = [k \in Offers |-> [NewOffer EXCEPT !.held = FALSE]]
      /\ x.out = [t \in Toplevels |-> <<>>] /\ x.crashed = FALSE
  BY <1>1 DEF DragInit, Now, Offers
<1>3. InitSeat \in Seat /\ InitDrag \in DragState /\ InitFinish \in FinishState
  BY DEF InitSeat, Seat, InitDrag, DragState, InitFinish, FinishState, Actions
<1>4. NewSource \in Source /\ [NewOffer EXCEPT !.held = FALSE] \in Offer /\ NewPeer \in Peer
  <2>1. NewSource \in Source
    BY DEF NewSource, Source, Actions
  <2>2. [NewOffer EXCEPT !.held = FALSE] \in Offer
    BY DEF NewOffer, Offer, Actions
  <2>3. NewPeer \in Peer
    BY DEF NewPeer, Peer
  <2> QED
    BY <2>1, <2>2, <2>3
<1>5. x.dev \in Device
  BY <1>2 DEF Device, Actions
<1>6. x \in Working
  <2>1. x.src \in [Drags -> Source] /\ x.o \in [Offers -> Offer] /\ x.out \in [Toplevels -> Seq(Messages)]
    BY <1>2, <1>4
  <2> QED
    BY <1>1, <1>2, <1>3, <1>5, <2>1 DEF Working, Now
<1>7. ~x.s.dragging /\ x.s.source = NoSource /\ x.s.over = Nowhere
  BY <1>2 DEF InitSeat
<1>8. ~x.d.seat /\ x.d.top = Nowhere /\ x.d.flags = {}
  BY <1>2 DEF InitDrag
<1>9. x.f.source = NoSource /\ x.f.timers = {} /\ x.f.registered = {}
  BY <1>2 DEF InitFinish
<1>10. Steady(x)
  BY <1>2, <1>7, <1>8, <1>9 DEF Steady, Begun, Selected, Over, Watched, Agreed
<1>11. \A t \in Toplevels, i \in Nat : ~DropAt(x, t, i)
  BY <1>2 DEF DropAt
<1>12. Targeted(x, In(peers))
  <2>1. \A t \in Toplevels : Len(x.out[t]) = 0
    BY <1>2
  <2>2. AllInform(x, In(peers))
    BY <2>1 DEF AllInform, Informs
  <2> QED
    BY <1>8, <2>2 DEF Targeted
<1>13. \A k \in Offers : ~x.o[k].dropped
  BY <1>2 DEF NewOffer
<1>14. Counted(x)
  BY <1>9, <1>13 DEF Counted
<1>15. Told(x)
  <2>1. \A n \in Drags : x.src[n].ended = <<>>
    BY <1>2 DEF NewSource
  <2>2. \A n \in Drags : Alike(x, n)
    BY <2>1 DEF Alike
  <2> QED
    BY <1>9, <1>13, <2>2 DEF Told
<1>16. /\ peers \in [Toplevels -> Peer] /\ incoming = <<>>
       /\ \A t \in Toplevels : ~peers[t].confused /\ peers[t].state = "out"
  BY <1>4 DEF DragInit, NewPeer
<1>17. NoDrops(x, peers, incoming)
  BY <1>11, <1>16 DEF NoDrops, HeldAt, AnswerAt
<1>18. incoming \in Seq(Answers)
  BY <1>16
<1> QED
  BY <1>1, <1>6, <1>10, <1>12, <1>14, <1>15, <1>16, <1>17, <1>18, NoDropsAwaited DEF DragInvariant, Good, Single

\* Steps of the user.
LEMMA UserSteps ==
  ASSUME Parameters, ~Overlap, DragInvariant,
         \/ \E n \in Drags : StartDrag(n)
         \/ \E s \in Surfaces : MoveInside(s)
         \/ \E t \in Toplevels \cup {Nowhere} : MoveOutside(t)
         \/ Release \/ GrabBroken \/ ChangeModifiers \/ SurfaceDestroyed \/ SeatDestroyed
  PROVE  DragInvariant'
<1>1. PICK x : x = Now
  OBVIOUS
<1>2. x.s = seat /\ x.d = drag /\ x.f = finish /\ x.src = sources /\ x.o = offers /\ x.out = outgoing
  BY <1>1 DEF Now
<1>3. Good(x, peers, incoming)
  BY <1>1 DEF DragInvariant
<1>4. ASSUME NEW y, Fine(x, peers, incoming, y, peers, incoming), Become(y), UNCHANGED <<peers, incoming>>
      PROVE  DragInvariant'
  BY <1>1, <1>4, Becomes
<1>5. ASSUME NEW n \in Drags, StartDrag(n)
      PROVE  DragInvariant'
  <2>1. PICK y : y = XLSeatBeginDrag(x, n)
    OBVIOUS
  <2>2. Become(y) /\ UNCHANGED <<peers, incoming>>
    BY <1>1, <1>5, <2>1 DEF StartDrag
  <2>3. Fine(x, peers, incoming, y, peers, incoming)
    BY <1>2, <1>3, <1>5, <2>1, StartGood DEF StartDrag
  <2> QED
    BY <1>4, <2>2, <2>3
<1>6. ASSUME NEW s \in Surfaces, MoveInside(s)
      PROVE  DragInvariant'
  <2>1. PICK y : y = EnteredSurface(XLDoDragLeave(x), s)
    OBVIOUS
  <2>2. Become(y) /\ UNCHANGED <<peers, incoming>>
    BY <1>1, <1>6, <2>1 DEF MoveInside
  <2>3. x.s.dragging
    BY <1>2, <1>6 DEF MoveInside, Moving
  <2>4. Fine(x, peers, incoming, y, peers, incoming)
    BY <1>3, <2>1, <2>3, MoveInsideGood
  <2> QED
    BY <1>4, <2>2, <2>4
<1>7. ASSUME NEW t \in Toplevels \cup {Nowhere}, MoveOutside(t)
      PROVE  DragInvariant'
  <2>1. x.s.dragging /\ UNCHANGED <<peers, incoming>>
    BY <1>2, <1>7 DEF MoveOutside, Moving
  <2>2. CASE \E owns \in BOOLEAN, inside \in BOOLEAN :
               Become(XLDoDragMotion(EnteredSurface(x, Nowhere), t, owns, inside))
    <3>1. PICK owns \in BOOLEAN, inside \in BOOLEAN :
            Become(XLDoDragMotion(EnteredSurface(x, Nowhere), t, owns, inside))
      BY <2>2
    <3>2. PICK y : y = XLDoDragMotion(EnteredSurface(x, Nowhere), t, owns, inside)
      OBVIOUS
    <3>3. Fine(x, peers, incoming, y, peers, incoming)
      BY <1>3, <2>1, <3>2, MoveOutsideGood
    <3> QED
      BY <1>4, <2>1, <3>1, <3>2, <3>3
  <2>3. CASE Become(EnteredSurface(x, Nowhere))
    <3>1. PICK y : y = EnteredSurface(x, Nowhere)
      OBVIOUS
    <3>2. Fine(x, peers, incoming, y, peers, incoming)
      BY <1>3, <2>1, <3>1, SubpixelGood
    <3> QED
      BY <1>4, <2>1, <2>3, <3>1, <3>2
  <2> QED
    BY <1>1, <1>7, <2>2, <2>3 DEF MoveOutside
<1>8. ASSUME Release
      PROVE  DragInvariant'
  <2>1. PICK y : y = DragButton(x)
    OBVIOUS
  <2>2. Become(y) /\ UNCHANGED <<peers, incoming>>
    BY <1>1, <1>8, <2>1 DEF Release
  <2>3. x.s.dragging
    BY <1>2, <1>8 DEF Release
  <2>4. Fine(x, peers, incoming, y, peers, incoming)
    BY <1>3, <2>1, <2>3, ReleaseGood
  <2> QED
    BY <1>4, <2>2, <2>4
<1>9. ASSUME GrabBroken
      PROVE  DragInvariant'
  <2>1. PICK y : y = CancelDrag(x)
    OBVIOUS
  <2>2. Become(y) /\ UNCHANGED <<peers, incoming>>
    BY <1>1, <1>9, <2>1 DEF GrabBroken
  <2>3. x.s.dragging
    BY <1>2, <1>9 DEF GrabBroken
  <2>4. Fine(x, peers, incoming, y, peers, incoming)
    BY <1>3, <2>1, <2>3, GrabBrokenGood
  <2> QED
    BY <1>4, <2>2, <2>4
<1>10. ASSUME ChangeModifiers
       PROVE  DragInvariant'
  <2>1. PICK inside \in BOOLEAN : Become(SendUpdatedModifiers([x EXCEPT !.s.shift = ~@], inside))
    BY <1>1, <1>10 DEF ChangeModifiers
  <2>2. PICK y : y = SendUpdatedModifiers([x EXCEPT !.s.shift = ~@], inside)
    OBVIOUS
  <2>3. Become(y) /\ UNCHANGED <<peers, incoming>>
    BY <1>10, <2>1, <2>2 DEF ChangeModifiers
  <2>4. Fine(x, peers, incoming, y, peers, incoming)
    BY <1>3, <2>2, ModifiersGood
  <2> QED
    BY <1>4, <2>3, <2>4
<1>11. ASSUME SurfaceDestroyed
       PROVE  DragInvariant'
  <2>1. PICK s : s = [seat EXCEPT !.over = Nowhere]
    OBVIOUS
  <2>2. PICK y : y = SetSeat(x, s)
    OBVIOUS
  <2>3. x \in Working /\ x.s \in Seat
    BY <1>3 DEF Good, Working
  <2>4. s \in Seat /\ s.dragging = x.s.dragging /\ s.source = x.s.source /\ s.over = Nowhere
    BY <1>2, <2>1, <2>3 DEF Seat
  <2>5. Fine(x, peers, incoming, y, peers, incoming)
    BY <1>3, <2>2, <2>4, SeatChanged
  <2>6. SeatSet(x, y, s)
    BY <2>2, <2>3, <2>4, SetSeatIs
  <2>7. Become(y) /\ UNCHANGED <<peers, incoming>>
    BY <1>1, <1>11, <2>1, <2>6 DEF SurfaceDestroyed, Become, SeatSet, Now
  <2> QED
    BY <1>4, <2>5, <2>7
<1>12. ASSUME SeatDestroyed
       PROVE  DragInvariant'
  <2>1. PICK z : z = [x EXCEPT !.s.inert = TRUE]
    OBVIOUS
  <2>2. PICK y : y = SeatEnded(z)
    OBVIOUS
  <2>3. z.d.seat = drag.seat
    BY <1>1, <2>1 DEF Now
  <2>4. Become(y) /\ UNCHANGED <<peers, incoming>>
    BY <1>1, <1>12, <2>1, <2>2, <2>3 DEF SeatDestroyed, SeatEnded
  <2>5. Fine(x, peers, incoming, y, peers, incoming)
    BY <1>3, <2>1, <2>2, SeatDestroyedGood
  <2> QED
    BY <1>4, <2>4, <2>5
<1> QED
  BY <1>5, <1>6, <1>7, <1>8, <1>9, <1>10, <1>11, <1>12

\* Steps of the clients, and the timer.
LEMMA ClientSteps ==
  ASSUME Parameters, ~SourcesDie, DragInvariant,
         \/ \E k \in Drags \X Surfaces : Accept(k) \/ SetActions(k) \/ Finish(k)
         \/ \E n \in Drags : DestroySource(n) \/ FinishTimeout(n)
  PROVE  DragInvariant'
<1>1. PICK x : x = Now
  OBVIOUS
<1>2. x.s = seat /\ x.d = drag /\ x.f = finish /\ x.src = sources /\ x.o = offers /\ x.out = outgoing
  BY <1>1 DEF Now
<1>3. Good(x, peers, incoming)
  BY <1>1 DEF DragInvariant
<1>4. ASSUME NEW y, Fine(x, peers, incoming, y, peers, incoming), Become(y), UNCHANGED <<peers, incoming>>
      PROVE  DragInvariant'
  BY <1>1, <1>4, Becomes
<1>5. ASSUME NEW k \in Offers, Accept(k)
      PROVE  DragInvariant'
  <2>1. PICK accepts \in BOOLEAN : Become(AcceptOffer(x, k, accepts))
    BY <1>1, <1>5 DEF Accept
  <2>2. PICK y : y = AcceptOffer(x, k, accepts)
    OBVIOUS
  <2>3. Become(y) /\ UNCHANGED <<peers, incoming>>
    BY <1>5, <2>1, <2>2 DEF Accept
  <2>4. Fine(x, peers, incoming, y, peers, incoming)
    BY <1>3, <2>2, AcceptGood
  <2> QED
    BY <1>4, <2>3, <2>4
<1>6. ASSUME NEW k \in Offers, SetActions(k)
      PROVE  DragInvariant'
  <2>1. PICK a \in Preferred : Become(DataOfferSetActions(x, k, IF a = "none" THEN {} ELSE {a}, a))
    BY <1>1, <1>6 DEF SetActions
  <2>2. PICK y : y = DataOfferSetActions(x, k, IF a = "none" THEN {} ELSE {a}, a)
    OBVIOUS
  <2>3. Become(y) /\ UNCHANGED <<peers, incoming>>
    BY <1>6, <2>1, <2>2 DEF SetActions
  <2>4. Fine(x, peers, incoming, y, peers, incoming)
    BY <1>3, <2>2, SetActionsGood
  <2> QED
    BY <1>4, <2>3, <2>4
<1>7. ASSUME NEW k \in Offers, Finish(k)
      PROVE  DragInvariant'
  <2>1. PICK y : y = FinishOffer(x, k)
    OBVIOUS
  <2>2. Become(y) /\ UNCHANGED <<peers, incoming>>
    BY <1>1, <1>7, <2>1 DEF Finish
  <2>3. x.o[k].dropped
    BY <1>2, <1>7 DEF Finish
  <2>4. Fine(x, peers, incoming, y, peers, incoming)
    BY <1>3, <2>1, <2>3, FinishGood
  <2> QED
    BY <1>4, <2>2, <2>4
<1>8. ASSUME NEW n \in Drags, DestroySource(n)
      PROVE  DragInvariant'
  <2>1. PICK y : y = HandleSourceResourceDestroy(x, n)
    OBVIOUS
  <2>2. Become(y) /\ UNCHANGED <<peers, incoming>>
    BY <1>1, <1>8, <2>1 DEF DestroySource
  <2>3. x.src[n].ended # <<>>
    BY <1>2, <1>8 DEF DestroySource
  <2>4. Fine(x, peers, incoming, y, peers, incoming)
    BY <1>3, <2>1, <2>3, DestroyGood
  <2> QED
    BY <1>4, <2>2, <2>4
<1>9. ASSUME NEW n \in Drags, FinishTimeout(n)
      PROVE  DragInvariant'
  <2>1. PICK y : y = HandleTimerExpired(x, n)
    OBVIOUS
  <2>2. PICK r : r = IF LateAnswers THEN peers
                     ELSE [u \in Toplevels |-> IF peers[u].state = "dropped" THEN [peers[u] EXCEPT !.state = "out"]
                                               ELSE peers[u]]
    OBVIOUS
  <2>3. Become(y) /\ peers' = r /\ incoming' = incoming
    BY <1>1, <1>9, <2>1, <2>2 DEF FinishTimeout
  <2>4. n \in x.f.timers /\ (~LateAnswers => incoming = <<>> /\ \A u \in Toplevels : x.out[u] = <<>>)
    BY <1>2, <1>9 DEF FinishTimeout
  <2>5. Fine(x, peers, incoming, y, r, incoming)
    BY <1>3, <2>1, <2>2, <2>4, TimerGood
  <2> QED
    BY <1>1, <2>3, <2>5, Becomes
<1> QED
  BY <1>5, <1>6, <1>7, <1>8, <1>9 DEF Offers

\* Steps of the targets, and what is read of them.
LEMMA TargetSteps ==
  ASSUME Parameters, DragInvariant,
         \/ \E t \in Toplevels : ReadMessage(t) \/ AnswerDrop(t)
         \/ ProcessClientMessage
  PROVE  DragInvariant'
<1>1. PICK x : x = Now
  OBVIOUS
<1>2. /\ x.s = seat /\ x.d = drag /\ x.f = finish /\ x.src = sources /\ x.dev = device
      /\ x.o = offers /\ x.out = outgoing /\ x.crashed = crashed
  BY <1>1 DEF Now
<1>3. Good(x, peers, incoming)
  BY <1>1 DEF DragInvariant
<1>4. x \in Working /\ peers \in [Toplevels -> Peer] /\ incoming \in Seq(Answers)
  BY <1>3 DEF Good
<1>5. ASSUME NEW t \in Toplevels, ReadMessage(t)
      PROVE  DragInvariant'
  <2>1. PICK m : m = Head(outgoing[t])
    OBVIOUS
  <2>2. PICK c : c = outgoing[t]
    OBVIOUS
  <2>3. c \in Seq(Messages) /\ c # <<>>
    BY <1>2, <1>4, <1>5, <2>2 DEF Working, ReadMessage
  <2>4. m \in Messages
    BY <2>1, <2>2, <2>3
  <2>5. PICK a : a = peers[t]
    OBVIOUS
  <2>6. a \in Peer
    BY <1>4, <2>5
  <2>7. PICK b : b = [state |-> CASE m = "Enter" -> "in"
                                  [] m = "Leave" -> IF a.state = "dropped" THEN a.state ELSE "out"
                                  [] m = "Drop" -> "dropped"
                                  [] m \in {"Position", "LatePosition"} -> a.state,
                      confused |-> a.confused \/ (m \in {"Position", "Drop"} /\ a.state = "out"),
                      late |-> a.late \/ (m = "LatePosition" /\ a.state = "dropped")]
    OBVIOUS
  <2>8. Learned(a, b, m)
    <3>1. b.confused = (a.confused \/ (m \in {"Position", "Drop"} /\ a.state = "out"))
      BY <2>7
    <3>2. b.state = CASE m = "Enter" -> "in"
                      [] m = "Leave" -> IF a.state = "dropped" THEN a.state ELSE "out"
                      [] m = "Drop" -> "dropped"
                      [] m \in {"Position", "LatePosition"} -> a.state
      BY <2>7
    <3>3. b \in Peer
      BY <2>4, <2>6, <2>7 DEF Peer, Messages
    <3>4. b.state = "in" <=> m = "Enter" \/ (~Closes(m) /\ a.state = "in")
      BY <2>4, <3>2 DEF Closes, Messages
    <3>5. m = "Drop" => b.state = "dropped"
      BY <3>2
    <3>6. m # "Drop" /\ b.state = "dropped" => a.state = "dropped"
      BY <2>4, <3>2 DEF Messages
    <3> QED
      BY <3>1, <3>3, <3>4, <3>5, <3>6 DEF Learned
  <2>9. peers' = [peers EXCEPT ![t] = b]
    BY <1>5, <2>1, <2>5, <2>7 DEF ReadMessage
  <2>10. incoming' = incoming \/ \E e \in Answers : e.type = "Status" /\ incoming' = Append(incoming, e)
    <3>1. CASE m \in {"Position", "LatePosition"}
      <4>1. PICK accepts \in BOOLEAN, rect \in BOOLEAN :
              incoming' = Append(incoming, [type |-> "Status", top |-> t, accepts |-> accepts, rect |-> rect,
                                            action |-> IF accepts THEN "copy" ELSE "none"])
        BY <1>5, <2>1, <3>1 DEF ReadMessage
      <4>2. PICK e : e = [type |-> "Status", top |-> t, accepts |-> accepts, rect |-> rect,
                          action |-> IF accepts THEN "copy" ELSE "none"]
        OBVIOUS
      <4>3. e \in Answers /\ e.type = "Status"
        BY <4>2 DEF Answers
      <4> QED
        BY <4>1, <4>2, <4>3
    <3>2. CASE m \notin {"Position", "LatePosition"}
      BY <1>5, <2>1, <3>2 DEF ReadMessage
    <3> QED
      BY <3>1, <3>2
  <2>11. PICK y : y = [x EXCEPT !.out = [x.out EXCEPT ![t] = Tail(@)]]
    OBVIOUS
  <2>12. Become(y)
    BY <1>1, <1>5, <2>11 DEF ReadMessage, Become, Now
  <2>13. PICK r : r = peers'
    OBVIOUS
  <2>14. PICK s : s = incoming'
    OBVIOUS
  <2>15. r = [peers EXCEPT ![t] = b] /\ Learned(peers[t], b, Head(x.out[t])) /\ x.out[t] # <<>>
    BY <1>2, <2>1, <2>2, <2>3, <2>5, <2>8, <2>9, <2>13
  <2>16. s = incoming \/ \E e \in Answers : e.type = "Status" /\ s = Append(incoming, e)
    BY <2>10, <2>14
  <2>17. Fine(x, peers, incoming, y, r, s)
    BY <1>3, <2>11, <2>15, <2>16, ReadGood
  <2> QED
    BY <1>1, <2>12, <2>13, <2>14, <2>17, Becomes
<1>6. ASSUME NEW t \in Toplevels, AnswerDrop(t)
      PROVE  DragInvariant'
  <2>1. PICK odd \in BOOLEAN : incoming' = Append(incoming, [type |-> "Finished", top |-> t, odd |-> odd])
    BY <1>6 DEF AnswerDrop
  <2>2. PICK a : a = [type |-> "Finished", top |-> t, odd |-> odd]
    OBVIOUS
  <2>3. a \in Answers /\ a.type = "Finished"
    BY <2>2 DEF Answers
  <2>4. PICK r : r = [peers EXCEPT ![t].state = "out"]
    OBVIOUS
  <2>5. PICK s : s = Append(incoming, a)
    OBVIOUS
  <2>6. Become(x) /\ peers' = r /\ incoming' = s /\ peers[t].state = "dropped"
    BY <1>2, <1>6, <2>1, <2>2, <2>4, <2>5 DEF AnswerDrop, Become
  <2>7. Fine(x, peers, incoming, x, r, s)
    BY <1>3, <2>3, <2>4, <2>5, <2>6, AnswerGood
  <2> QED
    BY <1>1, <2>6, <2>7, Becomes
<1>7. ASSUME ProcessClientMessage
      PROVE  DragInvariant'
  <2>1. PICK m : m = Head(incoming)
    OBVIOUS
  <2>2. PICK s : s = Tail(incoming)
    OBVIOUS
  <2>3. incoming # <<>> /\ incoming' = s /\ UNCHANGED peers
    BY <1>7, <2>2 DEF ProcessClientMessage
  <2>4. PICK inside \in BOOLEAN :
          Become(CASE ~drag.seat -> x
                   [] drag.seat /\ m.type = "Status" -> HandleXdndStatus(x, m, inside)
                   [] drag.seat /\ m.type = "Finished" -> HandleXdndFinished(x, m))
    BY <1>1, <1>7, <2>1 DEF ProcessClientMessage
  <2>5. m.type = "Status" \/ m.type = "Finished"
    <3>1. m \in Answers
      BY <1>4, <2>1, <2>3
    <3> QED
      BY <3>1 DEF Answers
  <2>6. CASE ~drag.seat
    <3>1. Become(x)
      BY <2>4, <2>6
    <3>2. Fine(x, peers, incoming, x, peers, s)
      BY <1>3, <2>2, <2>3, AnswerRead
    <3> QED
      BY <1>1, <2>3, <3>1, <3>2, Becomes
  <2>7. CASE drag.seat /\ m.type = "Status"
    <3>1. PICK y : y = HandleXdndStatus(x, m, inside)
      OBVIOUS
    <3>2. Become(y)
      BY <2>4, <2>7, <3>1
    <3>3. Fine(x, peers, incoming, y, peers, s)
      BY <1>2, <1>3, <2>1, <2>2, <2>3, <2>7, <3>1, XdndStatusGood
    <3> QED
      BY <1>1, <2>3, <3>2, <3>3, Becomes
  <2>8. CASE drag.seat /\ m.type = "Finished"
    <3>1. PICK y : y = HandleXdndFinished(x, m)
      OBVIOUS
    <3>2. Become(y)
      BY <2>4, <2>8, <3>1
    <3>3. Fine(x, peers, incoming, y, peers, s)
      BY <1>3, <2>1, <2>2, <2>3, <2>8, <3>1, XdndFinishedGood
    <3> QED
      BY <1>1, <2>3, <3>2, <3>3, Becomes
  <2> QED
    BY <2>5, <2>6, <2>7, <2>8
<1> QED
  BY <1>5, <1>6, <1>7

\* The inductive step.
LEMMA DragStep ==
  ASSUME Parameters, ~Overlap, ~SourcesDie, DragInvariant, [DragNext]_dragVars
  PROVE  DragInvariant'
<1>1. CASE UNCHANGED dragVars
  <2>1. Now' = Now /\ peers' = peers /\ incoming' = incoming
    BY <1>1 DEF dragVars, Now
  <2> QED
    BY <2>1 DEF DragInvariant
<1>2. CASE DragNext
  BY <1>2, UserSteps, ClientSteps, TargetSteps DEF DragNext
<1> QED
  BY <1>1, <1>2

\* What the invariant says of the properties.
LEMMA InvariantSays ==
  ASSUME Parameters, DragInvariant
  PROVE  /\ DragTypeOK
         /\ FinishWatched /\ NothingLeftBehind /\ ActionAgreed /\ TargetInformed /\ ~crashed
         /\ ~LateAnswers => OneOutcome
<1>1. PICK x : x = Now
  OBVIOUS
<1>2. /\ x.s = seat /\ x.d = drag /\ x.f = finish /\ x.src = sources /\ x.dev = device
      /\ x.o = offers /\ x.crashed = crashed
  BY <1>1 DEF Now
<1>3. /\ x \in Working /\ Steady(x) /\ TargetInformed
      /\ ~LateAnswers => Told(x)
  BY <1>1 DEF DragInvariant, Good, Single, TargetInformed
<1>4. DragTypeOK
  <2>1. seat \in Seat /\ drag \in DragState /\ finish \in FinishState /\ device \in Device
    BY <1>2, <1>3 DEF Working
  <2> QED
    BY <2>1 DEF DragTypeOK, Seat, DragState, FinishState, Device, Flags, Offers
<1>5. FinishWatched
  BY <1>2, <1>3 DEF Steady, Watched, FinishWatched
<1>6. NothingLeftBehind
  BY <1>2, <1>3 DEF Steady, Begun, Selected, NothingLeftBehind
<1>7. ActionAgreed
  <2>1. PICK k : k = device.current
    OBVIOUS
  <2> QED
    BY <1>2, <1>3, <2>1 DEF Steady, Agreed, ActionAgreed
<1>8. ~crashed
  BY <1>2, <1>3 DEF Steady
<1>9. ~LateAnswers => OneOutcome
  BY <1>2, <1>3 DEF Told, Alike, OneOutcome
<1> QED
  BY <1>3, <1>4, <1>5, <1>6, <1>7, <1>8, <1>9

LEMMA InvariantHolds ==
  ASSUME Parameters, ~Overlap, ~SourcesDie
  PROVE  DragSpec => []DragInvariant
<1>1. DragInit => DragInvariant
  BY DragInitInvariant
<1>2. DragInvariant /\ [DragNext]_dragVars => DragInvariant'
  BY DragStep
<1> QED
  BY <1>1, <1>2, PTL DEF DragSpec

\* The drag, the timer, the callback, the flags and the offer that is current
\* are always of their kinds.
THEOREM DragTypesHold ==
  ASSUME Parameters, ~Overlap, ~SourcesDie
  PROVE  DragSpec => []DragTypeOK
<1>1. DragSpec => []DragInvariant
  BY InvariantHolds
<1>2. DragInvariant => DragTypeOK
  BY InvariantSays
<1> QED
  BY <1>1, <1>2, PTL

\* Whenever a target answers, in time or late: whoever drops outside is watched
\* by one timer and one callback, a drag leaves no target entered and no
\* selection owned, offer and source agree on the action, a target is told of
\* positions and drops only while it is entered, and nothing is used that is gone.
THEOREM DragsKept ==
  ASSUME Parameters, ~Overlap, ~SourcesDie
  PROVE  DragSpec => [](FinishWatched /\ NothingLeftBehind /\ ActionAgreed /\ TargetInformed /\ ~crashed)
<1>1. DragSpec => []DragInvariant
  BY InvariantHolds
<1>2. DragInvariant => FinishWatched /\ NothingLeftBehind /\ ActionAgreed /\ TargetInformed /\ ~crashed
  BY InvariantSays
<1> QED
  BY <1>1, <1>2, PTL

\* If targets answer before the timer, no source is told of both success and
\* failure either: DragSound, for any number of surfaces, targets and drags.
THEOREM DragsSound ==
  ASSUME Parameters, ~Overlap, ~SourcesDie, ~LateAnswers
  PROVE  DragSpec => []DragSound
<1>1. DragSpec => []DragInvariant
  BY InvariantHolds
<1>2. DragInvariant => DragSound
  BY InvariantSays DEF DragSound
<1> QED
  BY <1>1, <1>2, PTL

=============================================================================
