-------------------------- MODULE DndTargetProofs ---------------------------
(***************************************************************************)
(* Proofs about DndTarget: an X client that drags over the toplevel is     *)
(* answered, and told of success only if a Wayland client said so.         *)
(***************************************************************************)
EXTENDS DndTarget, TLAPS

Requests ==
  [type : {"Enter", "Leave", "Drop"}, session : Sessions]
  \cup [type : {"Position"}, session : Sessions, child : Children \cup {None}, actions : SUBSET Actions]

Replies ==
  [type : {"Status"}, session : Sessions, accepts : BOOLEAN]
  \cup [type : {"Finished"}, session : Sessions, accepts : BOOLEAN, asked : BOOLEAN]

Dnd ==
  [session : Sessions \cup {NoSession}, seat : BOOLEAN, surface : BOOLEAN,
   child : Children \cup {None}, serial : Nat, respond : BOOLEAN, resources : SUBSET Nat,
   sourceActions : SUBSET Actions, supported : SUBSET Actions, preferred : Actions \cup {None},
   used : Actions \cup {None}, accepted : BOOLEAN, finished : BOOLEAN, dropped : BOOLEAN,
   version : Nat]

Offer == [serial : Nat, child : Children, version : Nat \ {0}, held : BOOLEAN]

Working == [d : Dnd, o : Seq(Offer), r : Seq(Replies), c : BOOLEAN]

Source ==
  [session : 0 .. MaxSessions, state : {"idle", "entered", "dropped"}, waiting : BOOLEAN,
   positions : Nat, live : BOOLEAN, clean : BOOLEAN, undisturbed : BOOLEAN]

\* What the proofs need to know of the parameters.
Parameters ==
  /\ None \notin Children
  /\ OfferVersion \in [Children -> Nat \ {0}]
  /\ MaxSessions \in Nat

-----------------------------------------------------------------------------
(* The invariant.  x: the translator, q: the messages to it, s: the client. *)

\* A client of the drag has an offer.
Held(x) == \E i \in DOMAIN x.o : x.o[i].held /\ x.o[i].serial = x.d.serial

\* Offers are numbered by their drag; those of a drag that is not dropped are
\* kept, and the oldest of their versions is known.
Offered(x) ==
  /\ \A i \in DOMAIN x.o : x.o[i].serial <= x.d.serial
  /\ x.d.resources \subseteq DOMAIN x.o
  /\ \A i \in x.d.resources : x.o[i].serial = x.d.serial /\ x.o[i].child = x.d.child
  /\ x.d.session = NoSession => x.d.resources = {} /\ x.d.used = None
  /\ x.d.session # NoSession =>
       \A i \in DOMAIN x.o : x.o[i].serial = x.d.serial =>
         0 < x.d.version /\ x.d.version <= x.o[i].version
  /\ x.d.session # NoSession /\ x.d.respond /\ ~x.d.dropped => Held(x)

Honest(m) == m.type = "Finished" /\ m.accepts => m.asked

Reported(x) == \A i \in DOMAIN x.r : Honest(x.r[i])

\* While there always was a seat, the drag has it.
Seated(x, s) == s.live => ~x.c /\ (x.d.session # NoSession => x.d.seat)

\* Behind the enter of the last drag are its messages only, and before it none.
Entering(q, s) == InFlight(q, "Enter", s.session)

Behind(q, s, i) == q[i].session = s.session /\ q[i].type # "Enter"

EntersAt(q, s, j) ==
  /\ q[j].type = "Enter" /\ q[j].session = s.session
  /\ \A i \in 1 .. j - 1 : q[i].session < s.session
  /\ \A i \in j + 1 .. Len(q) : Behind(q, s, i)

Queued(x, q, s) ==
  /\ \A i \in DOMAIN q : q[i].session <= s.session
  /\ Entering(q, s) => (\E j \in DOMAIN q : EntersAt(q, s, j)) /\ x.d.session < s.session
  /\ ~Entering(q, s) => (\A i \in DOMAIN q : Behind(q, s, i)) /\ x.d.session <= s.session

\* The last message of a drag.
Closed(q, s) ==
  /\ s.waiting => s.state = "entered"
  /\ s.state # "idle" => s.session # NoSession
  /\ s.undisturbed => s.live
  /\ \A i \in DOMAIN q :
       q[i].session = s.session /\ q[i].type \in {"Leave", "Drop"} =>
         /\ i = Len(q) /\ s.state # "entered"
         /\ q[i].type = "Leave" => s.state = "idle"

\* The last drag is one the properties are about.
Regular(q, s) == s.undisturbed /\ (s.clean \/ Entering(q, s))

Open(x, q, s) ==
  Regular(q, s) /\ ~Entering(q, s) /\ (s.state = "entered" \/ InFlight(q, "Drop", s.session)) =>
    x.d.session = s.session /\ x.d.surface /\ x.d.seat /\ ~x.d.dropped

\* PositionAnswered and DropAnswered, of any state.
Answered(x, q, s) ==
  Regular(q, s) =>
    /\ s.waiting => InFlight(q, "Position", s.session) \/ InFlight(x.r, "Status", s.session)
    /\ s.state = "dropped" =>
         \/ InFlight(q, "Drop", s.session)
         \/ InFlight(x.r, "Finished", s.session)
         \/ x.d.session = s.session /\ x.d.dropped /\ Held(x)

Good(x, q, s) ==
  /\ x \in Working /\ s \in Source /\ q \in Seq(Requests)
  /\ Offered(x) /\ Reported(x) /\ Seated(x, s)
  /\ Queued(x, q, s) /\ Closed(q, s) /\ Open(x, q, s) /\ Answered(x, q, s)

TargetInvariant == Good(TargetState, requests, source)

-----------------------------------------------------------------------------
(* Queues.                                                                 *)

LEMMA AppendFlight ==
  ASSUME NEW S, NEW q \in Seq(S), NEW m \in S, NEW r, r = Append(q, m), NEW t, NEW n
  PROVE  InFlight(r, t, n) <=> InFlight(q, t, n) \/ (m.type = t /\ m.session = n)
<1>1. /\ Len(r) = Len(q) + 1 /\ Len(q) \in Nat /\ r[Len(q) + 1] = m
      /\ DOMAIN q = 1 .. Len(q) /\ DOMAIN r = 1 .. Len(q) + 1
      /\ \A i \in 1 .. Len(q) : r[i] = q[i]
  OBVIOUS
<1>2. InFlight(q, t, n) => InFlight(r, t, n)
  BY <1>1 DEF InFlight
<1>3. m.type = t /\ m.session = n => InFlight(r, t, n)
  BY <1>1 DEF InFlight
<1>4. InFlight(r, t, n) => InFlight(q, t, n) \/ (m.type = t /\ m.session = n)
  BY <1>1 DEF InFlight
<1> QED
  BY <1>2, <1>3, <1>4

LEMMA TailFlight ==
  ASSUME NEW S, NEW q \in Seq(S), q # <<>>, NEW r, r = Tail(q), NEW t, NEW n
  PROVE  InFlight(q, t, n) <=> InFlight(r, t, n) \/ (Head(q).type = t /\ Head(q).session = n)
<1>1. /\ Len(q) \in Nat /\ Len(r) = Len(q) - 1 /\ Head(q) = q[1] /\ Len(q) >= 1
      /\ DOMAIN q = 1 .. Len(q) /\ DOMAIN r = 1 .. Len(q) - 1
      /\ \A i \in 1 .. Len(q) - 1 : r[i] = q[i + 1]
  OBVIOUS
<1>2. InFlight(r, t, n) => InFlight(q, t, n)
  <2> SUFFICES ASSUME NEW i \in DOMAIN r, r[i].type = t, r[i].session = n
               PROVE  InFlight(q, t, n)
    BY DEF InFlight
  <2>1. i + 1 \in DOMAIN q /\ q[i + 1] = r[i]
    BY <1>1
  <2> QED
    BY <2>1 DEF InFlight
<1>3. Head(q).type = t /\ Head(q).session = n => InFlight(q, t, n)
  BY <1>1 DEF InFlight
<1>4. ASSUME InFlight(q, t, n), ~(Head(q).type = t /\ Head(q).session = n)
      PROVE  InFlight(r, t, n)
  <2>1. PICK i \in DOMAIN q : q[i].type = t /\ q[i].session = n
    BY <1>4 DEF InFlight
  <2>2. i # 1
    BY <1>1, <1>4, <2>1
  <2>3. i - 1 \in DOMAIN r /\ r[i - 1] = q[i]
    BY <1>1, <2>2
  <2> QED
    BY <2>1, <2>3 DEF InFlight
<1> QED
  BY <1>2, <1>3, <1>4

\* A message of the last drag is sent.
LEMMA QueuedMore ==
  ASSUME NEW x, NEW q \in Seq(Requests), NEW s \in Source, Queued(x, q, s), Parameters,
         NEW m \in Requests, m.session = s.session, m.type # "Enter",
         NEW r, r = Append(q, m), NEW u, u.session = s.session
  PROVE  Queued(x, r, u) /\ (Entering(r, u) <=> Entering(q, s))
<1>1. /\ Len(r) = Len(q) + 1 /\ Len(q) \in Nat /\ r[Len(q) + 1] = m
      /\ DOMAIN q = 1 .. Len(q) /\ DOMAIN r = 1 .. Len(q) + 1
      /\ \A i \in 1 .. Len(q) : r[i] = q[i]
  OBVIOUS
<1>2. Entering(r, u) <=> Entering(q, s)
  <2>1. InFlight(r, "Enter", s.session) <=>
          InFlight(q, "Enter", s.session) \/ (m.type = "Enter" /\ m.session = s.session)
    BY ONLY ZenonT(30), m \in Requests, q \in Seq(Requests), r = Append(q, m), AppendFlight
  <2> QED
    BY <2>1 DEF Entering
<1>3. s.session \in Nat
  BY DEF Source, Parameters
<1>4. \A i \in DOMAIN r : r[i].session <= u.session
  BY <1>1, <1>3 DEF Queued
<1>5. ASSUME Entering(q, s)
      PROVE  \E j \in DOMAIN r : EntersAt(r, u, j)
  <2>1. PICK j \in DOMAIN q : EntersAt(q, s, j)
    BY <1>5 DEF Queued
  <2>2. j \in 1 .. Len(q) /\ r[j] = q[j] /\ \A i \in 1 .. j - 1 : i \in 1 .. Len(q) /\ r[i] = q[i]
    BY <1>1, <2>1
  <2>3. r[j].type = "Enter" /\ r[j].session = u.session /\ \A i \in 1 .. j - 1 : r[i].session < u.session
    BY <2>1, <2>2 DEF EntersAt
  <2>4. \A i \in j + 1 .. Len(r) : i = Len(q) + 1 \/ (i \in j + 1 .. Len(q) /\ r[i] = q[i])
    BY <1>1, <2>2
  <2>5. \A i \in j + 1 .. Len(r) : Behind(r, u, i)
    BY <1>1, <2>1, <2>4 DEF EntersAt, Behind
  <2>6. EntersAt(r, u, j)
    BY <2>3, <2>5 DEF EntersAt
  <2> QED
    BY <1>1, <2>2, <2>6
<1>6. ASSUME ~Entering(q, s)
      PROVE  \A i \in DOMAIN r : Behind(r, u, i)
  BY <1>1, <1>6 DEF Queued, Behind
<1> QED
  BY <1>2, <1>4, <1>5, <1>6 DEF Queued

\* The next drag begins.
LEMMA QueuedNext ==
  ASSUME NEW x \in Working, NEW q \in Seq(Requests), NEW s \in Source, Queued(x, q, s), Parameters,
         NEW m \in Requests, m.session = s.session + 1, m.type = "Enter",
         NEW r, r = Append(q, m), NEW u, u.session = s.session + 1
  PROVE  Queued(x, r, u) /\ Entering(r, u)
<1>1. /\ Len(r) = Len(q) + 1 /\ Len(q) \in Nat /\ r[Len(q) + 1] = m
      /\ DOMAIN q = 1 .. Len(q) /\ DOMAIN r = 1 .. Len(q) + 1
      /\ \A i \in 1 .. Len(q) : r[i] = q[i]
  OBVIOUS
<1>2. Entering(r, u)
  BY ZenonT(30), AppendFlight DEF Entering
<1>3. s.session \in Nat /\ x.d.session \in Nat /\ x.d.session <= s.session
  BY DEF Source, Parameters, Working, Dnd, Sessions, NoSession, Queued
<1>4. \A i \in 1 .. Len(q) : q[i].session \in Nat /\ q[i].session <= s.session
  <2>1. \A i \in 1 .. Len(q) : q[i] \in Requests
    BY <1>1
  <2>2. \A k \in Requests : k.session \in Nat
    BY DEF Requests, Sessions, Parameters
  <2> QED
    BY <1>1, <2>1, <2>2 DEF Queued
<1>5. \A i \in DOMAIN r : r[i].session <= u.session
  BY <1>1, <1>3, <1>4
<1>6. EntersAt(r, u, Len(q) + 1)
  BY <1>1, <1>3, <1>4 DEF EntersAt
<1>7. x.d.session < u.session
  BY <1>3
<1> QED
  BY <1>1, <1>2, <1>5, <1>6, <1>7 DEF Queued

\* A message is read.
LEMMA QueuedLess ==
  ASSUME NEW x \in Working, NEW q \in Seq(Requests), NEW s \in Source, Queued(x, q, s), Parameters,
         q # <<>>, NEW r, r = Tail(q), NEW y, NEW u, u.session = s.session,
         (y.d.session = IF Head(q).type = "Enter" THEN Head(q).session ELSE x.d.session)
           \/ (Head(q).type # "Enter" /\ y.d.session = NoSession)
  PROVE  /\ Queued(y, r, u)
         /\ Entering(q, s) /\ ~(Head(q).type = "Enter" /\ Head(q).session = s.session) => Entering(r, u)
         /\ Entering(r, u) => Entering(q, s)
         /\ Head(q).type = "Enter" /\ Head(q).session = s.session => ~Entering(r, u)
         /\ Head(q).type = "Enter" => Entering(q, s)
<1>1. /\ Len(q) \in Nat /\ Len(r) = Len(q) - 1 /\ Head(q) = q[1] /\ Len(q) >= 1
      /\ DOMAIN q = 1 .. Len(q) /\ DOMAIN r = 1 .. Len(q) - 1
      /\ \A i \in 1 .. Len(q) - 1 : r[i] = q[i + 1]
      /\ \A i \in 1 .. Len(q) : q[i] \in Requests
  OBVIOUS
<1>2. \A k \in Requests : k.session \in Nat
  BY DEF Requests, Sessions, Parameters
<1>3. s.session \in Nat /\ x.d.session \in Nat /\ NoSession = 0 /\ Head(q).session \in Nat
  BY <1>1, <1>2 DEF Source, Parameters, Working, Dnd, Sessions, NoSession
<1>4. \A i \in 1 .. Len(q) - 1 : i + 1 \in DOMAIN q
  BY <1>1
<1>5. \A i \in DOMAIN r : r[i].session <= u.session
  BY <1>1, <1>4 DEF Queued
<1>6. /\ Entering(q, s) /\ ~(Head(q).type = "Enter" /\ Head(q).session = s.session) => Entering(r, u)
      /\ Entering(r, u) => Entering(q, s)
  BY ZenonT(30), TailFlight DEF Entering
<1>7. Head(q).type = "Enter" => Entering(q, s)
  BY <1>1 DEF Queued, Behind
<1>8. CASE ~Entering(q, s)
  <2>1. \A i \in DOMAIN r : Behind(r, u, i)
    BY <1>1, <1>4, <1>8 DEF Queued, Behind
  <2>2. y.d.session <= u.session
    BY <1>3, <1>7, <1>8 DEF Queued
  <2> QED
    BY <1>5, <1>6, <1>7, <1>8, <2>1, <2>2 DEF Queued
<1>9. CASE Entering(q, s)
  <2>1. PICK j \in DOMAIN q : EntersAt(q, s, j)
    BY <1>9 DEF Queued
  <2>2. CASE j = 1
    <3>1. \A i \in DOMAIN r : Behind(r, u, i)
      BY <1>1, <1>4, <2>1, <2>2 DEF EntersAt, Behind
    <3>2. ~Entering(r, u)
      BY <3>1 DEF Entering, InFlight, Behind
    <3>3. y.d.session <= u.session
      BY <1>1, <1>3, <2>1, <2>2 DEF EntersAt
    <3>4. Head(q).type = "Enter" /\ Head(q).session = s.session
      BY <1>1, <2>1, <2>2 DEF EntersAt
    <3> QED
      BY <1>5, <1>6, <1>7, <1>9, <3>1, <3>2, <3>3, <3>4 DEF Queued
  <2>3. CASE j # 1
    <3>1. Head(q).session < s.session
      BY <1>1, <2>1, <2>3 DEF EntersAt
    <3>2. j - 1 \in DOMAIN r /\ r[j - 1] = q[j]
      BY <1>1, <2>1, <2>3
    <3>3. \A i \in 1 .. (j - 1) - 1 : r[i].session < u.session
      BY <1>1, <1>4, <2>1, <2>3 DEF EntersAt
    <3>4. \A i \in (j - 1) + 1 .. Len(r) : Behind(r, u, i)
      BY <1>1, <1>4, <2>1, <2>3 DEF EntersAt, Behind
    <3>5. EntersAt(r, u, j - 1)
      BY <2>1, <3>2, <3>3, <3>4 DEF EntersAt
    <3>6. y.d.session < u.session
      BY <1>3, <1>9, <3>1 DEF Queued
    <3>7. ~(Head(q).type = "Enter" /\ Head(q).session = s.session)
      BY <1>3, <3>1
    <3> QED
      BY <1>5, <1>6, <1>7, <1>9, <3>2, <3>5, <3>6, <3>7 DEF Queued
  <2> QED
    BY <2>2, <2>3
<1> QED
  BY <1>8, <1>9

-----------------------------------------------------------------------------
(* What the functions of dnd.c do.                                         *)

Keeps(x, y) ==
  \A t \in {"Status", "Finished"}, n \in Sessions : InFlight(x.r, t, n) => InFlight(y.r, t, n)

\* Only replies were added, and true ones.
Replied(x, y) == Keeps(x, y) /\ (Reported(x) => Reported(y)) /\ y.c = x.c

SameDnd(x, y) ==
  /\ y.d.session = x.d.session /\ y.d.seat = x.d.seat /\ y.d.surface = x.d.surface
  /\ y.d.child = x.d.child /\ y.d.serial = x.d.serial /\ y.d.respond = x.d.respond
  /\ y.d.resources = x.d.resources /\ y.d.dropped = x.d.dropped /\ y.d.version = x.d.version
  /\ x.d.session = NoSession => y.d.used = x.d.used

LEMMA OfferedStill ==
  ASSUME NEW x, NEW y, SameDnd(x, y), y.o = x.o
  PROVE  (Offered(x) => Offered(y)) /\ (Held(x) <=> Held(y))
BY DEF SameDnd, Offered, Held

LEMMA RepliedTwice ==
  ASSUME NEW x, NEW y, NEW z, Replied(x, y), Replied(y, z)
  PROVE  Replied(x, z)
BY DEF Replied, Keeps

LEMMA ReplyIs ==
  ASSUME NEW x \in Working, NEW m \in Replies, Honest(m), NEW y, y = Reply(x, m)
  PROVE  /\ y \in Working /\ y.d = x.d /\ y.o = x.o /\ Replied(x, y)
         /\ InFlight(y.r, m.type, m.session)
<1>1. x.r \in Seq(Replies)
  BY DEF Working
<1> DEFINE r == Append(x.r, m)
<1>2. r \in Seq(Replies)
  BY <1>1
<1>3. y \in Working /\ y.d = x.d /\ y.o = x.o /\ y.c = x.c /\ y.r = r
  BY <1>2 DEF Reply, Working
<1>4. /\ Len(r) = Len(x.r) + 1 /\ Len(x.r) \in Nat /\ r[Len(x.r) + 1] = m
      /\ DOMAIN x.r = 1 .. Len(x.r) /\ DOMAIN r = 1 .. Len(x.r) + 1
      /\ \A i \in 1 .. Len(x.r) : r[i] = x.r[i]
  BY <1>1
<1> HIDE DEF r
<1>5. Keeps(x, y) /\ InFlight(y.r, m.type, m.session)
  BY <1>3, <1>4 DEF Keeps, InFlight
<1>6. Reported(x) => Reported(y)
  BY <1>3, <1>4 DEF Reported
<1> QED
  BY <1>3, <1>5, <1>6 DEF Replied

LEMMA SendStatusIs ==
  ASSUME NEW x \in Working, x.d.session # NoSession, NEW y, y = SendStatus(x)
  PROVE  /\ y \in Working /\ y.d = x.d /\ y.o = x.o /\ Replied(x, y)
         /\ ~x.d.dropped => InFlight(y.r, "Status", x.d.session)
<1>1. CASE x.d.dropped
  BY <1>1 DEF SendStatus, Replied, Keeps
<1>2. CASE ~x.d.dropped
  <2> DEFINE m == [type |-> "Status", session |-> x.d.session,
                   accepts |-> x.d.respond /\ x.d.used # None /\ x.d.accepted]
  <2>1. x.d.session \in Sessions /\ x.d.respond \in BOOLEAN /\ x.d.accepted \in BOOLEAN
    BY DEF Working, Dnd
  <2>2. m \in Replies
    BY <2>1 DEF Replies
  <2>3. m.type = "Status" /\ m.session = x.d.session
    OBVIOUS
  <2>4. Honest(m)
    BY DEF Honest
  <2>5. y = Reply(x, m)
    BY <1>2 DEF SendStatus
  <2> HIDE DEF m
  <2> QED
    BY <2>2, <2>3, <2>4, <2>5, ReplyIs
<1> QED
  BY <1>1, <1>2

LEMMA ChooseActionIs ==
  ASSUME NEW d \in Dnd
  PROVE  ChooseAction(d) \in Actions \cup {None}
BY DEF ChooseAction, Dnd

LEMMA UpdateUsedActionIs ==
  ASSUME NEW x \in Working, x.d.session # NoSession, NEW y, y = UpdateUsedAction(x)
  PROVE  y \in Working /\ SameDnd(x, y) /\ y.o = x.o /\ Replied(x, y)
<1> DEFINE a == ChooseAction(x.d)
<1>1. x.d \in Dnd /\ a \in Actions \cup {None}
  BY ChooseActionIs DEF Working
<1> HIDE DEF a
<1> DEFINE e == [x.d EXCEPT !.used = a]
           z == [x EXCEPT !.d = e]
<1>2. e \in Dnd /\ e.session = x.d.session /\ e.seat = x.d.seat /\ e.surface = x.d.surface
      /\ e.child = x.d.child /\ e.serial = x.d.serial /\ e.respond = x.d.respond
      /\ e.resources = x.d.resources /\ e.dropped = x.d.dropped /\ e.version = x.d.version
  BY <1>1 DEF Dnd
<1>3. y = SendStatus(z)
  BY DEF UpdateUsedAction, a
<1> HIDE DEF e
<1>4. z \in Working /\ z.d = e /\ z.o = x.o /\ z.r = x.r /\ z.c = x.c
  BY <1>2 DEF Working
<1> HIDE DEF z
<1>5. y \in Working /\ y.d = z.d /\ y.o = z.o /\ Replied(z, y)
  BY <1>2, <1>3, <1>4, SendStatusIs
<1> QED
  BY <1>2, <1>4, <1>5 DEF SameDnd, Replied, Keeps, Reported

\* The drag is over for the toplevel.
Ended(x, y) ==
  /\ y.d.session = NoSession /\ y.d.resources = {} /\ ~y.d.dropped /\ ~y.d.surface
  /\ y.d.serial = x.d.serial /\ y.d.used = None /\ y.o = x.o

LEMMA EndedOffered ==
  ASSUME NEW x, NEW y, Ended(x, y), Offered(x)
  PROVE  Offered(y)
BY DEF Ended, Offered

LEMMA FinishDndEntryIs ==
  ASSUME NEW x \in Working, NEW y, y = FinishDndEntry(x)
  PROVE  y \in Working /\ Ended(x, y) /\ y.r = x.r /\ y.c = x.c
<1> DEFINE e == [InitDnd EXCEPT !.serial = x.d.serial, !.respond = x.d.respond]
<1>1. x.d.serial \in Nat /\ x.d.respond \in BOOLEAN
  BY DEF Working, Dnd
<1>2. e \in Dnd /\ e.session = NoSession /\ e.resources = {} /\ ~e.dropped /\ ~e.surface
      /\ e.serial = x.d.serial /\ e.used = None
  BY <1>1 DEF InitDnd, Dnd
<1>3. y = [x EXCEPT !.d = e]
  BY DEF FinishDndEntry
<1> HIDE DEF e
<1> QED
  BY <1>2, <1>3 DEF Working, Ended

\* What is reported is what a client said, if it was asked.
Asked(x) ==
  x.d.used # None /\ x.d.accepted /\ x.d.seat /\ x.d.respond => x.d.finished \/ x.d.version <= 2

LEMMA RespondIs ==
  ASSUME NEW x \in Working, x.d.session # NoSession, Asked(x), NEW y, y = RespondToDndDrop(x)
  PROVE  /\ y \in Working /\ Ended(x, y) /\ Replied(x, y)
         /\ InFlight(y.r, "Finished", x.d.session)
<1> DEFINE m == [type |-> "Finished", session |-> x.d.session,
                 accepts |-> x.d.used # None /\ x.d.accepted /\ x.d.seat /\ x.d.respond,
                 asked |-> x.d.finished \/ x.d.version <= 2]
<1>1. /\ x.d.session \in Sessions /\ x.d.respond \in BOOLEAN /\ x.d.accepted \in BOOLEAN
      /\ x.d.seat \in BOOLEAN /\ x.d.finished \in BOOLEAN
  BY DEF Working, Dnd
<1>2. m \in Replies
  BY <1>1 DEF Replies
<1>3. m.type = "Finished" /\ m.session = x.d.session
  OBVIOUS
<1>4. Honest(m)
  BY DEF Honest, Asked
<1>5. y = FinishDndEntry(Reply(x, m))
  BY DEF RespondToDndDrop
<1> HIDE DEF m
<1> DEFINE z == Reply(x, m)
<1>6. /\ z \in Working /\ z.d = x.d /\ z.o = x.o /\ Replied(x, z)
      /\ InFlight(z.r, "Finished", x.d.session)
  BY <1>2, <1>3, <1>4, ReplyIs
<1> HIDE DEF z
<1>7. y \in Working /\ Ended(z, y) /\ y.r = z.r /\ y.c = z.c
  BY <1>5, <1>6, FinishDndEntryIs DEF z
<1> QED
  BY <1>6, <1>7 DEF Ended, Replied, Keeps, Reported

-----------------------------------------------------------------------------
(* Requests of the Wayland clients.                                        *)

\* The drag goes on, and who can end it still can.
Kept(x, y) ==
  /\ y.d.session = x.d.session /\ y.d.seat = x.d.seat /\ y.d.surface = x.d.surface
  /\ y.d.dropped = x.d.dropped
  /\ x.d.session # NoSession /\ Held(x) => Held(y)

\* A drop was answered.
Over(x, y) ==
  /\ x.d.session # NoSession /\ x.d.dropped /\ y.d.session = NoSession
  /\ InFlight(y.r, "Finished", x.d.session)

Quiet(x, y) ==
  y \in Working /\ Offered(y) /\ Replied(x, y) /\ (Kept(x, y) \/ Over(x, y))

LEMMA SameQuiet ==
  ASSUME NEW x, NEW y \in Working, Offered(x), SameDnd(x, y), y.o = x.o, Replied(x, y)
  PROVE  Quiet(x, y)
BY OfferedStill DEF SameDnd, Quiet, Kept

LEMMA EndedQuiet ==
  ASSUME NEW x, NEW y \in Working, Offered(x), Ended(x, y), Replied(x, y),
         x.d.session # NoSession, x.d.dropped, InFlight(y.r, "Finished", x.d.session)
  PROVE  Quiet(x, y)
<1>1. Offered(y)
  BY EndedOffered
<1> QED
  BY <1>1 DEF Ended, Quiet, Over

LEMMA AcceptDropOfferIs ==
  ASSUME NEW x \in Working, Offered(x), NEW i, NEW type \in BOOLEAN, NEW y, y = AcceptDropOffer(x, i, type)
  PROVE  Quiet(x, y)
<1>1. CASE ~Current(x, i) \/ x.o[i].version <= 2
  BY <1>1, SameQuiet DEF AcceptDropOffer, SameDnd, Replied, Keeps
<1>2. CASE ~(~Current(x, i) \/ x.o[i].version <= 2)
  <2> DEFINE z == IF x.d.accepted # type THEN SendStatus(x) ELSE x
  <2>1. x.d.session # NoSession
    BY <1>2 DEF Current
  <2>2. z \in Working /\ z.d = x.d /\ z.o = x.o /\ Replied(x, z)
    BY <2>1, SendStatusIs DEF Replied, Keeps
  <2>3. y = [z EXCEPT !.d = [@ EXCEPT !.accepted = type]]
    BY <1>2 DEF AcceptDropOffer
  <2> HIDE DEF z
  <2>4. z.d \in Dnd
    BY <2>2 DEF Working
  <2>5. [z.d EXCEPT !.accepted = type] \in Dnd
    BY <2>4 DEF Dnd
  <2>6. y \in Working /\ y.o = z.o /\ y.r = z.r /\ y.c = z.c /\ y.d = [z.d EXCEPT !.accepted = type]
    BY <2>2, <2>3, <2>5 DEF Working
  <2>7. SameDnd(x, y) /\ y.o = x.o /\ Replied(x, y)
    BY <2>2, <2>4, <2>6 DEF SameDnd, Replied, Keeps, Reported, Dnd
  <2> QED
    BY <2>6, <2>7, SameQuiet
<1> QED
  BY <1>1, <1>2

LEMMA SetDropOfferActionsIs ==
  ASSUME NEW x \in Working, Offered(x), NEW i, NEW action \in Actions \cup {None},
         NEW y, y = SetDropOfferActions(x, i, action)
  PROVE  Quiet(x, y)
<1>1. CASE ~Current(x, i)
  BY <1>1, SameQuiet DEF SetDropOfferActions, SameDnd, Replied, Keeps
<1>2. CASE Current(x, i)
  <2> DEFINE e == [x.d EXCEPT !.supported = {action} \ {None}, !.preferred = action]
             z == [x EXCEPT !.d = e]
  <2>1. x.d.session # NoSession /\ x.d \in Dnd /\ {action} \ {None} \in SUBSET Actions
    BY <1>2 DEF Current, Working
  <2>2. e \in Dnd /\ e.session = x.d.session /\ e.seat = x.d.seat /\ e.surface = x.d.surface
        /\ e.child = x.d.child /\ e.serial = x.d.serial /\ e.respond = x.d.respond
        /\ e.resources = x.d.resources /\ e.dropped = x.d.dropped /\ e.version = x.d.version
    BY <2>1 DEF Dnd
  <2>3. y = UpdateUsedAction(z)
    BY <1>2 DEF SetDropOfferActions
  <2> HIDE DEF e
  <2>4. z \in Working /\ z.d = e /\ z.o = x.o /\ z.r = x.r /\ z.c = x.c
    BY <2>2 DEF Working
  <2> HIDE DEF z
  <2>5. y \in Working /\ SameDnd(z, y) /\ y.o = z.o /\ Replied(z, y)
    BY <2>1, <2>2, <2>3, <2>4, UpdateUsedActionIs
  <2>6. SameDnd(x, y) /\ y.o = x.o /\ Replied(x, y)
    BY <2>1, <2>2, <2>4, <2>5 DEF SameDnd, Replied, Keeps, Reported
  <2> QED
    BY <2>5, <2>6, SameQuiet
<1> QED
  BY <1>1, <1>2

LEMMA FinishDropOfferIs ==
  ASSUME NEW x \in Working, Offered(x), NEW i \in DOMAIN x.o, MayFinish(x, i),
         NEW y, y = FinishDropOffer(x, i)
  PROVE  Quiet(x, y)
<1> DEFINE e == [x.d EXCEPT !.finished = TRUE]
           z == [x EXCEPT !.d = e]
<1>1. x.d \in Dnd /\ x.d.session # NoSession
  BY DEF Working, MayFinish, Offered
<1>2. e \in Dnd /\ e.session = x.d.session /\ e.seat = x.d.seat /\ e.surface = x.d.surface
      /\ e.child = x.d.child /\ e.serial = x.d.serial /\ e.respond = x.d.respond
      /\ e.resources = x.d.resources /\ e.dropped = x.d.dropped /\ e.version = x.d.version
      /\ e.finished
  BY <1>1 DEF Dnd
<1>3. y = IF x.d.dropped THEN RespondToDndDrop(z) ELSE z
  BY DEF FinishDropOffer
<1> HIDE DEF e
<1>4. z \in Working /\ z.d = e /\ z.o = x.o /\ z.r = x.r /\ z.c = x.c
  BY <1>2 DEF Working
<1> HIDE DEF z
<1>5. SameDnd(x, z) /\ Replied(x, z)
  BY <1>1, <1>2, <1>4 DEF SameDnd, Replied, Keeps, Reported
<1>6. CASE ~x.d.dropped
  BY <1>3, <1>4, <1>5, <1>6, SameQuiet
<1>7. CASE x.d.dropped
  <2>1. Asked(z) /\ z.d.session # NoSession
    BY <1>1, <1>2, <1>4, <1>7 DEF Asked
  <2>2. /\ y \in Working /\ Ended(z, y) /\ Replied(z, y)
        /\ InFlight(y.r, "Finished", z.d.session)
    BY <1>3, <1>4, <1>7, <2>1, RespondIs
  <2>3. Ended(x, y) /\ Replied(x, y)
    BY <1>2, <1>4, <1>5, <2>2, RepliedTwice DEF Ended
  <2> QED
    BY <1>2, <1>4, <1>7, <2>1, <2>2, <2>3, EndedQuiet
<1> QED
  BY <1>6, <1>7

\* The steps of HandleResourceDestroy.
Unaccepted(x, v) == IF v >= 3 THEN [x EXCEPT !.d.accepted = FALSE] ELSE x
Responded(x) == IF x.d.dropped THEN RespondToDndDrop(x) ELSE x
Removed(x, i) == [x EXCEPT !.d.resources = @ \ {i}]
Emptied(x) == IF x.d.resources = {} THEN FinishDndEntry(x) ELSE x

LEMMA HandleResourceDestroyIs ==
  ASSUME NEW x \in Working, Offered(x), NEW i \in DOMAIN x.o, Current(x, i) => x.d.dropped,
         NEW y, y = HandleResourceDestroy(x, i)
  PROVE  Quiet(x, y)
<1> DEFINE f == [x.o[i] EXCEPT !.held = FALSE]
           o == [x.o EXCEPT ![i] = f]
           gone == [x EXCEPT !.o = o]
<1>1. x.d \in Dnd /\ x.o \in Seq(Offer) /\ x.o[i] \in Offer
  BY DEF Working
<1>2. f \in Offer /\ f.serial = x.o[i].serial /\ f.child = x.o[i].child /\ f.version = x.o[i].version
  BY <1>1 DEF Offer
<1>3. o \in Seq(Offer) /\ DOMAIN o = DOMAIN x.o /\ o[i] = f /\ \A k \in DOMAIN x.o : k # i => o[k] = x.o[k]
  BY <1>1, <1>2
<1>4. gone \in Working /\ gone.d = x.d /\ gone.o = o /\ gone.r = x.r /\ gone.c = x.c
  BY <1>3 DEF Working
<1>5. gone = [x EXCEPT !.o[i].held = FALSE]
  OBVIOUS
<1> HIDE DEF f, o, gone
<1>6. CASE ~Current(x, i)
  <2>1. y = gone
    BY <1>5, <1>6 DEF HandleResourceDestroy
  <2>2. x.d.session # NoSession => x.o[i].serial # x.d.serial
    BY <1>1, <1>6 DEF Current, Dnd, Offer
  <2>3. x.d.session # NoSession /\ Held(x) => Held(gone)
    BY <1>3, <1>4, <2>2 DEF Held
  <2>4. \A k \in DOMAIN x.o : gone.o[k].serial = x.o[k].serial /\ gone.o[k].child = x.o[k].child
                              /\ gone.o[k].version = x.o[k].version
    BY <1>2, <1>3, <1>4
  <2>5. Offered(gone)
    BY <1>3, <1>4, <2>3, <2>4 DEF Offered
  <2>6. Replied(x, gone) /\ Kept(x, gone)
    BY <1>4, <2>3 DEF Replied, Keeps, Reported, Kept
  <2> QED
    BY <1>4, <2>1, <2>5, <2>6 DEF Quiet
<1>7. CASE Current(x, i)
  <2> DEFINE e == IF x.o[i].version >= 3 THEN [x.d EXCEPT !.accepted = FALSE] ELSE x.d
             g == [gone EXCEPT !.d = e]
             z == RespondToDndDrop(g)
             w == [z EXCEPT !.d = [z.d EXCEPT !.resources = @ \ {i}]]
  <2>1. /\ e \in Dnd /\ e.session = x.d.session /\ e.dropped = x.d.dropped /\ e.serial = x.d.serial
        /\ e.version = x.d.version /\ (x.o[i].version >= 3 => ~e.accepted)
    BY ZenonT(30), <1>1 DEF Dnd
  <2>2. x.d.session # NoSession /\ x.d.dropped /\ x.o[i].serial = x.d.serial
    BY <1>1, <1>7 DEF Current, Offered, Offer, Dnd
  <2>3. x.o[i].version >= 3 \/ e.version <= 2
    BY <1>1, <2>1, <2>2 DEF Offered, Offer, Dnd
  <2>4. y = IF w.d.resources = {} THEN FinishDndEntry(w) ELSE w
    <3>1. g = Unaccepted(gone, x.o[i].version)
      BY <1>4 DEF Working, Unaccepted
    <3>2. g.d.dropped
      BY <1>4, <2>1, <2>2 DEF Working
    <3>3. w = Removed(z, i)
      BY DEF Removed
    <3> HIDE DEF e, g
    <3>4. z = Responded(g)
      BY <3>2 DEF Responded
    <3> HIDE DEF z, w
    <3>5. y = Emptied(Removed(Responded(Unaccepted([x EXCEPT !.o[i].held = FALSE], x.o[i].version)), i))
      BY ZenonT(30), <1>7 DEF HandleResourceDestroy, Unaccepted, Responded, Removed, Emptied
    <3>6. y = Emptied(w)
      BY <1>5, <3>1, <3>3, <3>4, <3>5
    <3> QED
      BY <3>6 DEF Emptied
  <2> HIDE DEF e
  <2>5. g \in Working /\ g.d = e /\ g.o = o /\ g.r = x.r /\ g.c = x.c
    BY <1>4, <2>1 DEF Working
  <2> HIDE DEF g
  <2>6. Asked(g) /\ g.d.session = x.d.session
    BY <2>1, <2>3, <2>5 DEF Asked
  <2>7. z \in Working /\ Ended(g, z) /\ Replied(g, z) /\ InFlight(z.r, "Finished", x.d.session)
    BY <2>2, <2>5, <2>6, RespondIs
  <2> HIDE DEF z
  <2>8. z.d \in Dnd /\ [z.d EXCEPT !.resources = @ \ {i}] \in Dnd
        /\ [z.d EXCEPT !.resources = @ \ {i}].resources = {}
        /\ [z.d EXCEPT !.resources = @ \ {i}].serial = z.d.serial
    BY ZenonT(30), <2>7 DEF Working, Dnd, Ended
  <2>9. w \in Working /\ w.d.resources = {} /\ w.d.serial = z.d.serial /\ w.o = z.o /\ w.r = z.r /\ w.c = z.c
    BY <2>7, <2>8 DEF Working
  <2> HIDE DEF w
  <2>10. y \in Working /\ Ended(w, y) /\ y.r = w.r /\ y.c = w.c
    BY <2>4, <2>9, FinishDndEntryIs
  <2>11. Replied(x, y)
    BY <2>5, <2>7, <2>9, <2>10 DEF Replied, Keeps, Reported
  <2>12. y.o = o /\ y.d.serial = x.d.serial /\ y.d.session = NoSession /\ y.d.resources = {} /\ y.d.used = None
    BY <2>1, <2>5, <2>7, <2>9, <2>10 DEF Ended
  <2>13. Offered(y)
    <3>1. \A k \in DOMAIN o : o[k].serial <= x.d.serial
      BY <1>2, <1>3 DEF Offered
    <3> QED
      BY <2>12, <3>1 DEF Offered
  <2>14. Over(x, y)
    BY <2>2, <2>7, <2>9, <2>10, <2>12 DEF Over
  <2> QED
    BY <2>10, <2>11, <2>13, <2>14 DEF Quiet
<1> QED
  BY <1>6, <1>7

-----------------------------------------------------------------------------
(* Messages of the X client.                                               *)

\* The pointer moved, perhaps to another surface.
Moved(x, y) ==
  y \in Working /\ Offered(y) /\ Kept(x, y) /\ y.r = x.r /\ (x.d.seat => y.c = x.c)

LEMMA LeaveChildIs ==
  ASSUME NEW x \in Working, Offered(x), x.d.session # NoSession, NEW y, y = LeaveChild(x)
  PROVE  Moved(x, y) /\ y.d.child = None /\ y.d.resources = {} /\ y.d.seat = x.d.seat
<1> DEFINE old == x.d.version <= 2
           e == [x.d EXCEPT !.child = None, !.resources = {}, !.used = None, !.preferred = None,
                            !.supported = {}, !.accepted = old]
<1>1. x.d \in Dnd /\ old \in BOOLEAN
  BY DEF Working
<1>0. y = [x EXCEPT !.d = e]
  BY DEF LeaveChild
<1> HIDE DEF old
<1>2. /\ e \in Dnd /\ e.session = x.d.session /\ e.seat = x.d.seat /\ e.surface = x.d.surface
      /\ e.child = None /\ e.serial = x.d.serial /\ e.respond = x.d.respond
      /\ e.resources = {} /\ e.used = None /\ e.dropped = x.d.dropped /\ e.version = x.d.version
  BY <1>1 DEF Dnd
<1> HIDE DEF e
<1>4. y \in Working /\ y.d = e /\ y.o = x.o /\ y.r = x.r /\ y.c = x.c
  BY <1>0, <1>2 DEF Working
<1>5. Offered(y) /\ Kept(x, y)
  BY <1>2, <1>4 DEF Offered, Kept, Held
<1> QED
  BY <1>2, <1>4, <1>5 DEF Moved

\* On a state that has no offers, of a surface that was entered.
LEMMA CreateOfferIs ==
  ASSUME Parameters, NEW x \in Working, Offered(x), x.d.session # NoSession, x.d.resources = {},
         NEW s \in Children, x.d.child = s, NEW y, y = CreateOffer(x, s)
  PROVE  Moved(x, y) /\ Held(y) /\ y.d.resources # {}
<1> DEFINE i == Len(x.o) + 1
           v == OfferVersion[s]
           f == [serial |-> x.d.serial, child |-> s, version |-> v, held |-> TRUE]
           o == Append(x.o, f)
           any == x.d.accepted \/ v <= 2
           low == IF x.d.version = 0 \/ x.d.version > v THEN v ELSE x.d.version
           e == [x.d EXCEPT !.resources = {i}, !.accepted = any, !.version = low]
<1>1. /\ x.d \in Dnd /\ x.o \in Seq(Offer) /\ v \in Nat \ {0} /\ i \in Nat
      /\ any \in BOOLEAN /\ x.d.version \in Nat /\ x.d.serial \in Nat
  BY DEF Working, Dnd, Parameters
<1>2. f \in Offer /\ f.serial = x.d.serial /\ f.child = s /\ f.version = v /\ f.held
  BY <1>1 DEF Offer
<1>3. low \in Nat \ {0} /\ low <= v /\ (x.d.version # 0 => low <= x.d.version)
  BY <1>1
<1>4. y = [x EXCEPT !.d = e, !.o = o]
  <2>1. y = [x EXCEPT !.o = o, !.d = [x.d EXCEPT !.resources = @ \cup {i}, !.accepted = any, !.version = low]]
    BY <1>1 DEF CreateOffer, Working, Dnd
  <2>2. x.d.resources \cup {i} = {i}
    OBVIOUS
  <2> HIDE DEF o, i, any, low
  <2> QED
    BY <2>1, <2>2 DEF Working
<1> HIDE DEF f, any, low
<1>5. /\ e \in Dnd /\ e.session = x.d.session /\ e.seat = x.d.seat /\ e.surface = x.d.surface
      /\ e.child = s /\ e.serial = x.d.serial /\ e.respond = x.d.respond /\ e.resources = {i}
      /\ e.dropped = x.d.dropped /\ e.version = low
  BY <1>1, <1>3 DEF Dnd
<1> HIDE DEF e
<1>6. /\ o \in Seq(Offer) /\ Len(o) = i /\ DOMAIN o = 1 .. i /\ DOMAIN x.o = 1 .. i - 1 /\ o[i] = f
      /\ \A k \in 1 .. i - 1 : o[k] = x.o[k]
  BY <1>1, <1>2
<1>7. i \in 1 .. i
  BY <1>1
<1> HIDE DEF o, i, v
<1>8. y \in Working /\ y.d = e /\ y.o = o /\ y.r = x.r /\ y.c = x.c
  BY <1>4, <1>5, <1>6 DEF Working
<1>9. Held(y)
  BY <1>2, <1>5, <1>6, <1>7, <1>8 DEF Held
<1>10. \A k \in DOMAIN o : k = i \/ (k \in DOMAIN x.o /\ o[k] = x.o[k] /\ o[k] \in Offer)
  BY <1>1, <1>6
<1>11. ASSUME NEW k \in DOMAIN o
       PROVE  o[k].serial <= x.d.serial /\ (o[k].serial = x.d.serial => 0 < low /\ low <= o[k].version)
  <2>1. CASE k = i
    BY <1>1, <1>2, <1>3, <1>6, <2>1
  <2>2. CASE k # i
    <3>1. k \in DOMAIN x.o /\ o[k] = x.o[k] /\ o[k].version \in Nat
      BY <1>10, <2>2 DEF Offer
    <3>2. /\ o[k].serial <= x.d.serial
          /\ o[k].serial = x.d.serial => 0 < x.d.version /\ x.d.version <= o[k].version
      BY <3>1 DEF Offered
    <3> QED
      BY <1>1, <1>3, <3>1, <3>2
  <2> QED
    BY <2>1, <2>2
<1>12. Offered(y)
  BY <1>2, <1>5, <1>6, <1>7, <1>8, <1>9, <1>11 DEF Offered
<1> QED
  BY <1>5, <1>8, <1>9, <1>12 DEF Moved, Kept

LEMMA HandleMotionIs ==
  ASSUME Parameters, NEW x \in Working, Offered(x), x.d.session # NoSession,
         NEW child \in Children \cup {None}, NEW y, y = HandleMotion(x, child)
  PROVE  Moved(x, y)
<1> DEFINE left == IF x.d.child = None THEN x ELSE LeaveChild(x)
<1>1. Moved(x, left) /\ left.d.resources = {} /\ left.d.seat = x.d.seat /\ left.d.session = x.d.session
  <2>1. CASE x.d.child # None
    BY <2>1, LeaveChildIs DEF Moved, Kept
  <2>2. CASE x.d.child = None
    <3>1. ASSUME NEW i \in x.d.resources
          PROVE  FALSE
      <4>1. i \in DOMAIN x.o /\ x.o[i].child = None /\ x.o[i] \in Offer
        BY <2>2 DEF Offered, Working
      <4> QED
        BY <4>1 DEF Offer, Parameters
    <3> QED
      BY <2>2, <3>1 DEF Moved, Kept
  <2> QED
    BY <2>1, <2>2
<1> HIDE DEF left
<1>2. CASE child = None
  BY <1>1, <1>2 DEF HandleMotion, left
<1>3. CASE child # None /\ ~x.d.seat
  <2>1. y = [left EXCEPT !.c = TRUE]
    BY <1>3 DEF HandleMotion, left
  <2>2. y \in Working /\ y.d = left.d /\ y.o = left.o /\ y.r = left.r
    BY <1>1, <2>1 DEF Moved, Working
  <2> QED
    BY <1>1, <1>3, <2>2 DEF Moved, Kept, Offered, Held
<1>4. CASE child # None /\ x.d.seat
  <2> DEFINE on == [left EXCEPT !.d = [left.d EXCEPT !.child = child]]
             z == CreateOffer(on, child)
             may == z.d.resources # {}
  <2>1. left \in Working /\ left.d \in Dnd /\ Offered(left) /\ left.d.session # NoSession /\ child \in Children
    BY <1>1, <1>4 DEF Moved, Working
  <2>2. y = [z EXCEPT !.d.respond = may]
    BY <1>4 DEF HandleMotion, left
  <2>3. /\ on \in Working /\ on.d = [left.d EXCEPT !.child = child] /\ on.o = left.o /\ on.r = left.r
        /\ on.c = left.c
    BY <2>1 DEF Working, Dnd
  <2> HIDE DEF on
  <2>4. Offered(on) /\ Kept(left, on) /\ on.d.resources = {} /\ on.d.child = child /\ on.d.seat = left.d.seat
        /\ on.d.session = left.d.session
    BY <1>1, <2>1, <2>3 DEF Offered, Kept, Held, Dnd
  <2>5. Moved(on, z) /\ Held(z) /\ may
    BY <2>1, <2>3, <2>4, CreateOfferIs
  <2> HIDE DEF z
  <2>6. y = [z EXCEPT !.d = [z.d EXCEPT !.respond = TRUE]] /\ z \in Working /\ z.d \in Dnd
    BY <2>2, <2>5 DEF Moved, Working
  <2>7. [z.d EXCEPT !.respond = TRUE] \in Dnd
    BY <2>6 DEF Dnd
  <2>8. y \in Working /\ y.d = [z.d EXCEPT !.respond = TRUE] /\ y.o = z.o /\ y.r = z.r /\ y.c = z.c
    BY <2>6, <2>7 DEF Working
  <2>9. Offered(y) /\ Kept(z, y)
    BY <2>5, <2>6, <2>8 DEF Moved, Offered, Kept, Held, Dnd
  <2>10. Kept(x, left) /\ Kept(on, z)
    BY <1>1, <2>5 DEF Moved
  <2>11. Kept(x, y)
    BY <2>4, <2>9, <2>10 DEF Kept
  <2>12. y.r = x.r
    BY <1>1, <2>3, <2>5, <2>8 DEF Moved
  <2>13. y.c = x.c
    <3>1. left.c = x.c /\ on.d.seat
      BY <1>1, <1>4, <2>4 DEF Moved
    <3>2. z.c = on.c
      BY <2>5, <3>1 DEF Moved
    <3> QED
      BY <2>3, <2>8, <3>1, <3>2
  <2> QED
    BY <2>8, <2>9, <2>11, <2>12, <2>13 DEF Moved
<1> QED
  BY <1>2, <1>3, <1>4

\* A position of the drag is answered, unless it was dropped.
LEMMA HandleXdndPositionEventIs ==
  ASSUME Parameters, NEW x \in Working, Offered(x), NEW m \in Requests, m.type = "Position",
         NEW y, y = HandleXdndPositionEvent(x, m)
  PROVE  /\ y \in Working /\ Offered(y) /\ Kept(x, y) /\ Keeps(x, y) /\ (Reported(x) => Reported(y))
         /\ x.d.seat \/ x.d.session = NoSession => y.c = x.c
         /\ m.session = x.d.session /\ x.d.surface /\ ~x.d.dropped =>
              InFlight(y.r, "Status", x.d.session)
<1>1. CASE m.session # x.d.session \/ ~x.d.surface
  <2>1. y = x
    BY <1>1 DEF HandleXdndPositionEvent
  <2> QED
    BY <1>1, <2>1 DEF Kept, Keeps
<1>2. CASE m.session = x.d.session /\ x.d.surface
  <2> DEFINE actions == IF "ask" \notin m.actions THEN m.actions
                        ELSE m.actions \cup IF "ask" \in x.d.sourceActions THEN x.d.sourceActions ELSE Actions
             v == IF m.child # x.d.child THEN HandleMotion(x, m.child) ELSE x
             z == IF v.d.resources # {} /\ ~(m.child # x.d.child /\ m.child # None) /\ actions # v.d.sourceActions
                  THEN UpdateUsedAction(v) ELSE v
             w == [z EXCEPT !.d = [z.d EXCEPT !.sourceActions = actions]]
  <2>1. m.child \in Children \cup {None} /\ m.actions \subseteq Actions /\ m.session \in Sessions
    BY DEF Requests
  <2>2. x.d.session # NoSession /\ x.d.sourceActions \subseteq Actions
    BY <1>2, <2>1 DEF Sessions, NoSession, Working, Dnd
  <2>3. actions \in SUBSET Actions
    BY <2>1, <2>2
  <2>4. y = SendStatus(w)
    BY <1>2 DEF HandleXdndPositionEvent
  <2> HIDE DEF actions
  <2>5. Moved(x, v)
    BY <2>1, <2>2, HandleMotionIs DEF Moved, Kept
  <2> HIDE DEF v
  <2>6. v \in Working /\ Offered(v) /\ v.d.session # NoSession
    BY <2>2, <2>5 DEF Moved, Kept
  <2>7. z \in Working /\ SameDnd(v, z) /\ z.o = v.o /\ Replied(v, z)
    BY <2>6, UpdateUsedActionIs DEF SameDnd, Replied, Keeps
  <2> HIDE DEF z
  <2>8. z.d \in Dnd /\ [z.d EXCEPT !.sourceActions = actions] \in Dnd
    BY <2>3, <2>7 DEF Working, Dnd
  <2>9. w \in Working /\ SameDnd(z, w) /\ w.o = z.o /\ w.r = z.r /\ w.c = z.c
    BY <2>7, <2>8 DEF Working, Dnd, SameDnd
  <2> HIDE DEF w
  <2>10. w.d.session = x.d.session /\ w.d.dropped = x.d.dropped
    BY <2>5, <2>7, <2>9 DEF Moved, Kept, SameDnd
  <2>11. /\ y \in Working /\ y.d = w.d /\ y.o = w.o /\ Replied(w, y)
         /\ ~w.d.dropped => InFlight(y.r, "Status", w.d.session)
    BY <2>2, <2>4, <2>9, <2>10, SendStatusIs
  <2>12. Offered(y) /\ (Held(v) <=> Held(y))
    <3>1. SameDnd(v, y) /\ y.o = v.o
      BY <2>7, <2>9, <2>11 DEF SameDnd
    <3> QED
      BY <2>6, <3>1, OfferedStill
  <2>13. Kept(x, y)
    BY <2>5, <2>7, <2>9, <2>11, <2>12 DEF Moved, Kept, SameDnd
  <2>14. Keeps(x, y) /\ (Reported(x) => Reported(y)) /\ (x.d.seat => y.c = x.c)
    BY <2>5, <2>7, <2>9, <2>11 DEF Moved, Replied, Keeps, Reported
  <2> QED
    BY <1>2, <2>2, <2>10, <2>11, <2>12, <2>13, <2>14
<1> QED
  BY <1>1, <1>2

LEMMA HandleDndEntryIs ==
  ASSUME Parameters, NEW x \in Working, Offered(x), NEW session \in Sessions, NEW seat \in BOOLEAN,
         NEW y, y = HandleDndEntry(x, session, seat)
  PROVE  /\ y \in Working /\ Offered(y) /\ y.o = x.o /\ y.r = x.r /\ y.c = x.c
         /\ y.d.session = session /\ y.d.surface /\ y.d.seat = seat
<1> DEFINE z == IF x.d.session # NoSession THEN FinishDndEntry(x) ELSE x
           next == z.d.serial + 1
           e == [z.d EXCEPT !.session = session, !.surface = TRUE, !.seat = seat, !.respond = FALSE,
                            !.serial = next]
<1>1. y = [z EXCEPT !.d = e]
  BY DEF HandleDndEntry
<1>2. z \in Working /\ Offered(z) /\ z.d.session = NoSession /\ z.o = x.o /\ z.r = x.r /\ z.c = x.c
  BY FinishDndEntryIs, EndedOffered DEF Ended
<1> HIDE DEF z
<1>3. z.d \in Dnd /\ z.o \in Seq(Offer) /\ z.d.serial \in Nat /\ next \in Nat /\ z.d.serial < next
      /\ z.d.resources = {} /\ \A i \in DOMAIN z.o : z.o[i].serial <= z.d.serial /\ z.o[i] \in Offer
  BY <1>2 DEF Working, Dnd, Offered
<1> HIDE DEF next
<1>4. e \in Dnd /\ e.session = session /\ e.surface /\ e.seat = seat /\ ~e.respond
      /\ e.serial = next /\ e.resources = {}
  BY ZenonT(30), <1>3 DEF Dnd
<1> HIDE DEF e
<1>5. y \in Working /\ y.d = e /\ y.o = z.o /\ y.r = z.r /\ y.c = z.c
  BY <1>1, <1>2, <1>4 DEF Working
<1>6. \A i \in DOMAIN y.o : y.o[i].serial < y.d.serial /\ y.o[i].serial \in Nat /\ y.d.serial \in Nat
  <2>1. \A i \in DOMAIN z.o : z.o[i].serial \in Nat
    BY <1>3 DEF Offer
  <2> QED
    BY <1>3, <1>4, <1>5, <2>1
<1>7. session # NoSession
  BY DEF Sessions, NoSession
<1>8. Offered(y)
  BY <1>4, <1>5, <1>6, <1>7 DEF Offered
<1> QED
  BY <1>2, <1>4, <1>5, <1>8

\* The drop of the drag is answered, or a client can answer it.
LEMMA HandleXdndDropEventIs ==
  ASSUME NEW x \in Working, Offered(x), NEW m \in Requests, NEW y, y = HandleXdndDropEvent(x, m)
  PROVE  /\ y \in Working /\ Offered(y) /\ Keeps(x, y) /\ (Reported(x) => Reported(y))
         /\ (y.d.session = x.d.session /\ y.d.seat = x.d.seat) \/ y.d.session = NoSession
         /\ x.d.seat \/ x.d.session = NoSession => y.c = x.c
         /\ m.session = x.d.session /\ x.d.surface /\ x.d.seat /\ ~x.d.dropped =>
              \/ InFlight(y.r, "Finished", x.d.session)
              \/ y.d.session = x.d.session /\ y.d.dropped /\ Held(y)
<1>1. CASE m.session # x.d.session \/ ~x.d.surface
  <2>1. y = x
    BY <1>1 DEF HandleXdndDropEvent
  <2> QED
    BY <1>1, <2>1 DEF Keeps
<1>2. ASSUME m.session = x.d.session, x.d.surface
      PROVE  x.d.session # NoSession
  BY <1>2 DEF Requests, Sessions, NoSession
<1>3. CASE m.session = x.d.session /\ x.d.surface /\ ~x.d.seat
  <2>1. y = [x EXCEPT !.c = TRUE]
    BY <1>3 DEF HandleXdndDropEvent
  <2>2. y \in Working /\ y.d = x.d /\ y.o = x.o /\ y.r = x.r
    BY <2>1 DEF Working
  <2> QED
    BY <1>2, <1>3, <2>2 DEF Keeps, Offered, Held, Reported
<1>4. CASE m.session = x.d.session /\ x.d.surface /\ x.d.seat
  <2> DEFINE answered == x.d.finished \/ ~x.d.respond \/ ~x.d.seat \/ x.d.version <= 2
             z == IF answered THEN RespondToDndDrop(x) ELSE x
             e == [z.d EXCEPT !.dropped = TRUE]
  <2>1. y = [z EXCEPT !.d = e]
    BY <1>4 DEF HandleXdndDropEvent
  <2>2. answered => Asked(x)
    BY DEF Asked
  <2>3. ~answered => x.d.respond
    BY DEF Working, Dnd
  <2> HIDE DEF answered
  <2>4. answered => z \in Working /\ Ended(x, z) /\ Replied(x, z) /\ InFlight(z.r, "Finished", x.d.session)
    BY <1>2, <1>4, <2>2, RespondIs
  <2>5. ~answered => z = x
    OBVIOUS
  <2> HIDE DEF z
  <2>6. z \in Working /\ z.d \in Dnd /\ Offered(z) /\ z.c = x.c /\ Keeps(x, z) /\ (Reported(x) => Reported(z))
    <3>1. CASE answered
      BY <2>4, <3>1, EndedOffered DEF Replied, Working
    <3>2. CASE ~answered
      BY <2>5, <3>2 DEF Keeps, Working
    <3> QED
      BY <3>1, <3>2
  <2>7. /\ e \in Dnd /\ e.dropped /\ e.session = z.d.session /\ e.seat = z.d.seat /\ e.resources = z.d.resources
        /\ e.serial = z.d.serial /\ e.child = z.d.child /\ e.used = z.d.used /\ e.version = z.d.version
        /\ e.respond = z.d.respond
    BY <2>6 DEF Dnd
  <2> HIDE DEF e
  <2>8. y \in Working /\ y.d = e /\ y.o = z.o /\ y.r = z.r /\ y.c = z.c
    BY <2>1, <2>6, <2>7 DEF Working
  <2>9. Offered(y) /\ (Held(z) => Held(y))
    BY <2>6, <2>7, <2>8 DEF Offered, Held
  <2>10. Keeps(x, y) /\ (Reported(x) => Reported(y))
    BY <2>6, <2>8 DEF Keeps, Reported
  <2>11. answered => y.d.session = NoSession /\ InFlight(y.r, "Finished", x.d.session)
    BY <2>4, <2>7, <2>8 DEF Ended
  <2>12. ~answered => /\ y.d.session = x.d.session /\ y.d.seat = x.d.seat /\ y.d.dropped
                      /\ (~x.d.dropped => Held(y))
    <3>1. ~answered /\ ~x.d.dropped => Held(x)
      BY <1>2, <1>4, <2>3 DEF Offered
    <3> QED
      BY <2>5, <2>7, <2>8, <2>9, <3>1
  <2> QED
    BY <2>6, <2>8, <2>9, <2>10, <2>11, <2>12
<1> QED
  BY <1>1, <1>3, <1>4

-----------------------------------------------------------------------------
(* The steps of the translator preserve the invariant.                     *)

LEMMA QuietStep ==
  ASSUME Parameters, NEW x, NEW q, NEW s, Good(x, q, s), NEW y, Quiet(x, y)
  PROVE  Good(y, q, s)
<1>1. x \in Working /\ y \in Working /\ s \in Source
  BY DEF Good, Quiet
<1>2. x.d.session \in Nat /\ s.session \in Nat /\ NoSession = 0 /\ (s.session # NoSession => s.session \in Sessions)
  BY SMTT(30), <1>1 DEF Working, Dnd, Source, Sessions, NoSession, Parameters
<1>3. Offered(y) /\ Reported(y)
  BY DEF Good, Quiet, Replied
<1>4. CASE Kept(x, y)
  <2>1. Seated(y, s) /\ Queued(y, q, s) /\ Open(y, q, s)
    BY <1>4 DEF Good, Quiet, Replied, Kept, Seated, Queued, Open
  <2>2. Answered(y, q, s)
    <3>1. s.waiting \/ s.state = "dropped" => s.session \in Sessions
      BY <1>2 DEF Good, Closed
    <3>2. s.session \in Sessions /\ x.d.session = s.session => x.d.session # NoSession
      BY DEF Sessions, NoSession
    <3> QED
      BY <1>4, <3>1, <3>2 DEF Good, Quiet, Replied, Kept, Keeps, Answered
  <2> QED
    BY <1>1, <1>3, <2>1, <2>2 DEF Good
<1>5. CASE Over(x, y)
  <2>1. Seated(y, s)
    BY <1>5 DEF Good, Quiet, Replied, Over, Seated
  <2>2. Queued(y, q, s)
    BY <1>2, <1>5 DEF Good, Over, Queued
  <2>3. Open(y, q, s)
    BY <1>5 DEF Good, Over, Open
  <2>4. Answered(y, q, s)
    <3>1. s.waiting \/ s.state = "dropped" => s.session \in Sessions
      BY <1>2 DEF Good, Closed
    <3> QED
      BY <1>5, <3>1 DEF Good, Quiet, Replied, Over, Keeps, Answered
  <2> QED
    BY <1>1, <1>3, <2>1, <2>2, <2>3, <2>4 DEF Good
<1> QED
  BY <1>4, <1>5 DEF Quiet

LEMMA ClosedLess ==
  ASSUME NEW q \in Seq(Requests), NEW s, Closed(q, s), q # <<>>, NEW r, r = Tail(q),
         NEW u, u.waiting = s.waiting, u.state = s.state, u.session = s.session,
         u.undisturbed = s.undisturbed, u.live = s.live
  PROVE  Closed(r, u)
<1>1. /\ Len(q) \in Nat /\ Len(r) = Len(q) - 1 /\ Len(q) >= 1
      /\ DOMAIN q = 1 .. Len(q) /\ DOMAIN r = 1 .. Len(q) - 1
      /\ \A i \in 1 .. Len(q) - 1 : r[i] = q[i + 1] /\ i + 1 \in 1 .. Len(q)
  OBVIOUS
<1>2. ASSUME NEW i \in DOMAIN r, r[i].session = u.session, r[i].type \in {"Leave", "Drop"}
      PROVE  /\ i = Len(r) /\ u.state # "entered"
             /\ r[i].type = "Leave" => u.state = "idle"
  <2>1. i + 1 \in DOMAIN q /\ q[i + 1] = r[i]
    BY <1>1
  <2>2. /\ i + 1 = Len(q) /\ s.state # "entered"
        /\ q[i + 1].type = "Leave" => s.state = "idle"
    BY <1>2, <2>1 DEF Closed
  <2> QED
    BY <1>1, <2>1, <2>2
<1> QED
  BY <1>2 DEF Closed

\* The message that is read is of the last drag, unless its enter was not read.
LEMMA QueuedFirst ==
  ASSUME NEW x, NEW q \in Seq(Requests), NEW s, Queued(x, q, s), q # <<>>, Head(q).type # "Enter", Parameters,
         s.session \in Nat
  PROVE  /\ Entering(q, s) => Head(q).session # s.session
         /\ ~Entering(q, s) => Head(q).session = s.session
<1>1. Len(q) \in Nat /\ Len(q) >= 1 /\ DOMAIN q = 1 .. Len(q) /\ Head(q) = q[1] /\ 1 \in DOMAIN q
  OBVIOUS
<1>2. ASSUME Entering(q, s)
      PROVE  Head(q).session # s.session
  <2>1. PICK j \in DOMAIN q : EntersAt(q, s, j)
    BY <1>2 DEF Queued
  <2>2. j # 1
    BY <1>1, <2>1 DEF EntersAt
  <2>3. q[1].session < s.session
    BY <1>1, <2>1, <2>2 DEF EntersAt
  <2>4. q[1] \in Requests
    BY <1>1
  <2>5. q[1].session \in Nat
    BY <2>4 DEF Requests, Sessions, Parameters
  <2> QED
    BY <1>1, <2>3, <2>5
<1>3. ASSUME ~Entering(q, s)
      PROVE  Head(q).session = s.session
  BY <1>1, <1>3 DEF Queued, Behind
<1> QED
  BY <1>2, <1>3

\* What reading a message of another kind than an enter leaves of the rest.
Read(x, q, s, y, r) ==
  /\ r \in Seq(Requests) /\ y \in Working /\ Offered(y) /\ Reported(y) /\ Seated(y, s)
  /\ Queued(y, r, s) /\ Closed(r, s) /\ Keeps(x, y)
  /\ Entering(r, s) <=> Entering(q, s)
  /\ \A t \in {"Position", "Drop"} :
       /\ InFlight(r, t, s.session) => InFlight(q, t, s.session)
       /\ InFlight(q, t, s.session) => InFlight(r, t, s.session) \/ (Head(q).type = t /\ ~Entering(q, s))
  /\ s.session \in Nat /\ (s.waiting \/ s.state = "dropped" => s.session \in Sessions)
  /\ s.session \in Sessions /\ x.d.session = s.session => x.d.session # NoSession

LEMMA ReadIs ==
  ASSUME Parameters, NEW x, NEW q, NEW s, Good(x, q, s), q # <<>>, Head(q).type # "Enter",
         NEW r, r = Tail(q), NEW y \in Working, Offered(y), Keeps(x, y), Reported(x) => Reported(y),
         (y.d.session = x.d.session /\ y.d.seat = x.d.seat) \/ y.d.session = NoSession,
         x.d.seat \/ x.d.session = NoSession => y.c = x.c
  PROVE  Read(x, q, s, y, r)
<1>1. x \in Working /\ s \in Source /\ q \in Seq(Requests) /\ r \in Seq(Requests) /\ Queued(x, q, s)
      /\ Closed(q, s) /\ Seated(x, s) /\ Reported(x)
  BY DEF Good
<1>2. s.session \in Nat /\ s.session \in 0 .. MaxSessions
  BY <1>1 DEF Source, Parameters
<1>3. Seated(y, s)
  BY <1>1 DEF Seated
<1>4. Queued(y, r, s) /\ (Entering(r, s) <=> Entering(q, s))
  BY <1>1, QueuedLess
<1>5. Closed(r, s)
  BY <1>1, ClosedLess
<1>6. /\ Entering(q, s) => Head(q).session # s.session
      /\ ~Entering(q, s) => Head(q).session = s.session
  BY <1>1, <1>2, QueuedFirst
<1>7. ASSUME NEW t
      PROVE  InFlight(q, t, s.session) <=>
               InFlight(r, t, s.session) \/ (Head(q).type = t /\ Head(q).session = s.session)
  BY <1>1, TailFlight
<1>8. s.waiting \/ s.state = "dropped" => s.session \in Sessions
  BY <1>1, <1>2 DEF Closed, Sessions, NoSession, Parameters
<1>9. s.session \in Sessions /\ x.d.session = s.session => x.d.session # NoSession
  BY DEF Sessions, NoSession
<1> QED
  BY <1>1, <1>2, <1>3, <1>4, <1>5, <1>6, <1>7, <1>8, <1>9 DEF Read

LEMMA ReadPositionStep ==
  ASSUME Parameters, NEW x, NEW q, NEW s, Good(x, q, s), q # <<>>, Head(q).type = "Position",
         NEW r, r = Tail(q), NEW y, y = HandleXdndPositionEvent(x, Head(q))
  PROVE  Good(y, r, s)
<1>1. x \in Working /\ Offered(x) /\ s \in Source /\ Head(q) \in Requests /\ q \in Seq(Requests) /\ Queued(x, q, s)
  <2>1. q \in Seq(Requests)
    BY DEF Good
  <2> QED
    BY <2>1 DEF Good
<1>2. /\ y \in Working /\ Offered(y) /\ Kept(x, y) /\ Keeps(x, y) /\ (Reported(x) => Reported(y))
      /\ x.d.seat \/ x.d.session = NoSession => y.c = x.c
      /\ Head(q).session = x.d.session /\ x.d.surface /\ ~x.d.dropped =>
           InFlight(y.r, "Status", x.d.session)
  BY <1>1, HandleXdndPositionEventIs
<1>3. Read(x, q, s, y, r)
  BY <1>2, ReadIs DEF Kept
<1>4. Open(y, r, s)
  BY <1>2, <1>3 DEF Read, Good, Open, Regular, Kept
<1>5. ~Entering(q, s) => Head(q).session = s.session
  BY <1>1, <1>3, QueuedFirst DEF Read
<1>6. ASSUME Regular(r, s), s.waiting
      PROVE  InFlight(r, "Position", s.session) \/ InFlight(y.r, "Status", s.session)
  <2>1. Regular(q, s) /\ s.state = "entered" /\ s.session \in Sessions
    BY <1>3, <1>6 DEF Read, Regular, Good, Closed
  <2>2. InFlight(q, "Position", s.session) \/ InFlight(x.r, "Status", s.session)
    BY <1>6, <2>1 DEF Good, Answered
  <2>3. ~Entering(q, s) => x.d.session = s.session /\ x.d.surface /\ ~x.d.dropped
    BY <2>1 DEF Good, Open
  <2> QED
    BY <1>2, <1>3, <1>5, <2>1, <2>2, <2>3 DEF Read, Keeps
<1>7. ASSUME Regular(r, s), s.state = "dropped"
      PROVE  \/ InFlight(r, "Drop", s.session)
             \/ InFlight(y.r, "Finished", s.session)
             \/ y.d.session = s.session /\ y.d.dropped /\ Held(y)
  <2>1. Regular(q, s) /\ s.session \in Sessions
    BY <1>3, <1>7 DEF Read, Regular
  <2>2. \/ InFlight(q, "Drop", s.session)
        \/ InFlight(x.r, "Finished", s.session)
        \/ x.d.session = s.session /\ x.d.dropped /\ Held(x)
    BY <1>7, <2>1 DEF Good, Answered
  <2> QED
    BY <1>2, <1>3, <2>1, <2>2 DEF Read, Keeps, Kept
<1>8. Answered(y, r, s)
  BY <1>6, <1>7 DEF Answered
<1> QED
  BY <1>1, <1>3, <1>4, <1>8 DEF Read, Good

LEMMA ReadLastStep ==
  ASSUME Parameters, NEW x, NEW q, NEW s, Good(x, q, s), q # <<>>, Head(q).type \in {"Leave", "Drop"},
         NEW y, NEW r, r = Tail(q), Read(x, q, s, y, r),
         Head(q).type = "Drop" /\ Regular(q, s) /\ ~Entering(q, s) /\ s.state = "dropped" =>
           InFlight(y.r, "Finished", s.session) \/ (y.d.session = s.session /\ y.d.dropped /\ Held(y))
  PROVE  Good(y, r, s)
<1>1. s \in Source /\ q \in Seq(Requests) /\ Queued(x, q, s) /\ Closed(q, s)
  BY DEF Good
<1>2. Len(q) \in Nat /\ Len(q) >= 1 /\ DOMAIN q = 1 .. Len(q) /\ Head(q) = q[1] /\ 1 \in DOMAIN q
      /\ Len(r) = Len(q) - 1 /\ DOMAIN r = 1 .. Len(r)
  BY <1>1
<1>3. ASSUME ~Entering(q, s)
      PROVE  /\ Len(q) = 1 /\ s.state # "entered" /\ (Head(q).type = "Leave" => s.state = "idle")
             /\ ~InFlight(r, "Drop", s.session)
  <2>1. Head(q).session = s.session
    BY <1>1, <1>3, QueuedFirst DEF Read
  <2>2. Len(q) = 1 /\ s.state # "entered" /\ (Head(q).type = "Leave" => s.state = "idle")
    BY <1>1, <1>2, <2>1 DEF Closed
  <2>3. DOMAIN r = {}
    <3>1. Len(r) = 0 /\ DOMAIN r = 1 .. Len(r)
      BY <1>2, <2>2
    <3> QED
      BY ONLY <3>1
  <2> QED
    BY <2>2, <2>3 DEF InFlight
<1>4. Open(y, r, s)
  BY <1>3 DEF Read, Open
<1>5. ASSUME Regular(r, s), s.waiting
      PROVE  InFlight(r, "Position", s.session) \/ InFlight(y.r, "Status", s.session)
  <2>1. Regular(q, s) /\ s.state = "entered" /\ s.session \in Sessions
    BY <1>1, <1>5 DEF Read, Regular, Closed
  <2>2. InFlight(q, "Position", s.session) \/ InFlight(x.r, "Status", s.session)
    BY <1>5, <2>1 DEF Good, Answered
  <2> QED
    BY <2>1, <2>2 DEF Read, Keeps
<1>6. ASSUME Regular(r, s), s.state = "dropped"
      PROVE  \/ InFlight(r, "Drop", s.session)
             \/ InFlight(y.r, "Finished", s.session)
             \/ y.d.session = s.session /\ y.d.dropped /\ Held(y)
  <2>1. Regular(q, s) /\ s.session \in Sessions
    BY <1>6 DEF Read, Regular
  <2>2. \/ InFlight(q, "Drop", s.session)
        \/ InFlight(x.r, "Finished", s.session)
        \/ x.d.session = s.session /\ x.d.dropped /\ Held(x)
    BY <1>6, <2>1 DEF Good, Answered
  <2>3. CASE Entering(q, s)
    <3>1. x.d.session # s.session
      BY <2>3 DEF Read, Good, Queued, Working, Dnd
    <3> QED
      BY <2>1, <2>2, <2>3, <3>1 DEF Read, Keeps
  <2>4. CASE ~Entering(q, s)
    BY <1>3, <1>6, <2>1, <2>4
  <2> QED
    BY <2>3, <2>4
<1>7. Answered(y, r, s)
  BY <1>5, <1>6 DEF Answered
<1> QED
  BY <1>1, <1>4, <1>7 DEF Read, Good

LEMMA ReadLeaveStep ==
  ASSUME Parameters, NEW x, NEW q, NEW s, Good(x, q, s), q # <<>>, Head(q).type = "Leave",
         NEW r, r = Tail(q), NEW y, y = HandleXdndLeaveEvent(x, Head(q))
  PROVE  Good(y, r, s)
<1>1. x \in Working /\ Offered(x)
  BY DEF Good
<1>2. y \in Working /\ Offered(y) /\ y.r = x.r /\ y.c = x.c /\ (y = x \/ y.d.session = NoSession)
  BY <1>1, FinishDndEntryIs, EndedOffered DEF HandleXdndLeaveEvent, Ended
<1>3. Keeps(x, y) /\ (Reported(x) => Reported(y))
  BY <1>2 DEF Keeps, Reported
<1>4. Read(x, q, s, y, r)
  BY <1>2, <1>3, ReadIs
<1> QED
  BY <1>4, ReadLastStep

LEMMA ReadDropStep ==
  ASSUME Parameters, NEW x, NEW q, NEW s, Good(x, q, s), q # <<>>, Head(q).type = "Drop",
         NEW r, r = Tail(q), NEW y, y = HandleXdndDropEvent(x, Head(q))
  PROVE  Good(y, r, s)
<1>1. x \in Working /\ Offered(x) /\ Head(q) \in Requests /\ q \in Seq(Requests) /\ Queued(x, q, s)
  <2>1. q \in Seq(Requests)
    BY DEF Good
  <2> QED
    BY <2>1 DEF Good
<1>2. /\ y \in Working /\ Offered(y) /\ Keeps(x, y) /\ (Reported(x) => Reported(y))
      /\ (y.d.session = x.d.session /\ y.d.seat = x.d.seat) \/ y.d.session = NoSession
      /\ x.d.seat \/ x.d.session = NoSession => y.c = x.c
      /\ Head(q).session = x.d.session /\ x.d.surface /\ x.d.seat /\ ~x.d.dropped =>
           \/ InFlight(y.r, "Finished", x.d.session)
           \/ y.d.session = x.d.session /\ y.d.dropped /\ Held(y)
  BY <1>1, HandleXdndDropEventIs
<1>3. Read(x, q, s, y, r)
  BY <1>2, ReadIs
<1>4. ASSUME Regular(q, s), ~Entering(q, s), s.state = "dropped"
      PROVE  InFlight(y.r, "Finished", s.session) \/ (y.d.session = s.session /\ y.d.dropped /\ Held(y))
  <2>1. Head(q).session = s.session
    BY <1>1, <1>3, <1>4, QueuedFirst DEF Read
  <2>2. InFlight(q, "Drop", s.session)
    <3>1. 1 \in DOMAIN q /\ Head(q) = q[1]
      BY <1>1
    <3> QED
      BY <2>1, <3>1 DEF InFlight
  <2>3. x.d.session = s.session /\ x.d.surface /\ x.d.seat /\ ~x.d.dropped
    BY <1>4, <2>2 DEF Good, Open
  <2> QED
    BY <1>2, <2>1, <2>3
<1> QED
  BY <1>3, <1>4, ReadLastStep

LEMMA ReadEnterStep ==
  ASSUME Parameters, NEW x, NEW q, NEW s, Good(x, q, s), q # <<>>, Head(q).type = "Enter",
         NEW r, r = Tail(q), NEW y, y = HandleDndEntry(x, Head(q).session, s.live),
         NEW u, u = [s EXCEPT !.clean = ~HandleDndEntry(x, Head(q).session, TRUE).d.dropped]
  PROVE  Good(y, r, u)
<1> DEFINE v == HandleDndEntry(x, Head(q).session, TRUE)
<1>1. x \in Working /\ s \in Source /\ q \in Seq(Requests) /\ r \in Seq(Requests) /\ Queued(x, q, s)
      /\ Closed(q, s) /\ Seated(x, s) /\ Reported(x) /\ Offered(x)
  BY DEF Good
<1>2. Head(q) \in Requests
  BY <1>1
<1>3. Head(q).session \in Sessions /\ s.live \in BOOLEAN
  BY <1>1, <1>2 DEF Requests, Source
<1>4. /\ y \in Working /\ Offered(y) /\ y.o = x.o /\ y.r = x.r /\ y.c = x.c
      /\ y.d.session = Head(q).session /\ y.d.surface /\ y.d.seat = s.live
  BY <1>1, <1>3, HandleDndEntryIs
<1>5. v \in Working /\ v.d.dropped = y.d.dropped
  <2>1. v \in Working
    BY <1>1, <1>3, HandleDndEntryIs
  <2> DEFINE z == IF x.d.session # NoSession THEN FinishDndEntry(x) ELSE x
  <2>2. z \in Working
    BY <1>1, FinishDndEntryIs
  <2>3. ASSUME NEW b \in BOOLEAN
        PROVE  HandleDndEntry(x, Head(q).session, b).d.dropped = z.d.dropped
    <3> DEFINE e == [z.d EXCEPT !.session = Head(q).session, !.surface = TRUE, !.seat = b,
                                !.respond = FALSE, !.serial = @ + 1]
    <3>1. z.d \in Dnd
      BY <2>2 DEF Working
    <3>2. e.dropped = z.d.dropped
      BY <3>1 DEF Dnd
    <3>3. HandleDndEntry(x, Head(q).session, b) = [z EXCEPT !.d = e]
      BY DEF HandleDndEntry
    <3> HIDE DEF e, z
    <3>4. [z EXCEPT !.d = e].d = e
      BY <2>2 DEF Working
    <3> QED
      BY <3>2, <3>3, <3>4
  <2> QED
    BY <1>3, <2>1, <2>3
<1>6. v.d.dropped \in BOOLEAN
  BY <1>5 DEF Working, Dnd
<1> HIDE DEF v
<1>7. /\ u \in Source /\ u.session = s.session /\ u.state = s.state /\ u.waiting = s.waiting /\ u.live = s.live
      /\ u.undisturbed = s.undisturbed /\ u.clean = ~v.d.dropped
  BY <1>1, <1>6 DEF Source, v
<1>8. Seated(y, u)
  BY <1>1, <1>4, <1>7 DEF Seated
<1>9. /\ Queued(y, r, u) /\ (Entering(r, u) => Entering(q, s)) /\ Entering(q, s)
      /\ ~(Head(q).session = s.session) => Entering(r, u)
  <2>1. y.d.session = IF Head(q).type = "Enter" THEN Head(q).session ELSE x.d.session
    BY <1>4
  <2>2. u.session = s.session
    BY <1>7
  <2>3. (y.d.session = IF Head(q).type = "Enter" THEN Head(q).session ELSE x.d.session)
          \/ (Head(q).type # "Enter" /\ y.d.session = NoSession)
    BY <2>1
  <2>4. /\ Queued(y, r, u)
        /\ Entering(q, s) /\ ~(Head(q).type = "Enter" /\ Head(q).session = s.session) => Entering(r, u)
        /\ Entering(r, u) => Entering(q, s)
        /\ Head(q).type = "Enter" /\ Head(q).session = s.session => ~Entering(r, u)
        /\ Head(q).type = "Enter" => Entering(q, s)
    BY ONLY ZenonT(30), <1>1, <2>2, <2>3, Parameters, q # <<>>, r = Tail(q), QueuedLess
  <2> QED
    BY <2>4
<1>10. Closed(r, u)
  BY <1>1, <1>7, ClosedLess
<1>11. Open(y, r, u)
  BY <1>1, <1>4, <1>5, <1>7, <1>9 DEF Open, Regular, Closed
<1>12. ASSUME NEW t, t # "Enter", InFlight(q, t, s.session)
       PROVE  InFlight(r, t, u.session)
  BY <1>1, <1>7, <1>12, TailFlight
<1>13. x.d.session # s.session
  BY <1>1, <1>9 DEF Queued, Working, Dnd, Source, Sessions, NoSession, Parameters
<1>14. Regular(r, u) => Regular(q, s)
  BY <1>7, <1>9 DEF Regular
<1>15. Answered(y, r, u)
  BY <1>4, <1>7, <1>12, <1>13, <1>14 DEF Good, Answered
<1>16. Reported(y)
  BY <1>1, <1>4 DEF Reported
<1> QED
  BY <1>1, <1>4, <1>7, <1>8, <1>9, <1>10, <1>11, <1>15, <1>16 DEF Good

\* The seat or the toplevel goes: no promise is left of the drag.
LEMMA DisturbedStep ==
  ASSUME Parameters, NEW x, NEW q, NEW s, Good(x, q, s), NEW y \in Working, Offered(y), y.r = x.r, y.c = x.c,
         y.d.session \in {x.d.session, NoSession},
         NEW u \in Source, u.session = s.session, u.state = s.state, u.waiting = s.waiting, ~u.undisturbed,
         u.live => s.live /\ y.d.seat = x.d.seat
  PROVE  Good(y, q, u)
<1>1. /\ x \in Working /\ s \in Source /\ q \in Seq(Requests) /\ Queued(x, q, s) /\ Closed(q, s) /\ Seated(x, s)
      /\ Reported(x)
  BY DEF Good
<1>2. x.d.session \in Nat /\ s.session \in Nat /\ NoSession = 0
  BY SMTT(30), <1>1 DEF Working, Dnd, Source, Sessions, NoSession, Parameters
<1>3. (Entering(q, u) <=> Entering(q, s)) /\ (\A j : EntersAt(q, u, j) <=> EntersAt(q, s, j))
  BY DEF Entering, EntersAt, Behind
<1>4. Queued(y, q, u)
  BY <1>1, <1>2, <1>3 DEF Queued, Behind
<1>5. Closed(q, u) /\ Seated(y, u) /\ Open(y, q, u) /\ Answered(y, q, u) /\ Reported(y)
  BY <1>1 DEF Closed, Seated, Open, Answered, Regular, Reported
<1> QED
  BY <1>1, <1>4, <1>5 DEF Good

-----------------------------------------------------------------------------
(* The steps of the X client preserve it. *)

LEMMA SourceEntersStep ==
  ASSUME Parameters, NEW x, NEW q, NEW s, Good(x, q, s), s.session < MaxSessions, ~s.waiting,
         NEW m, m = [type |-> "Enter", session |-> s.session + 1],
         NEW r, r = Append(q, m),
         NEW u, u = [s EXCEPT !.session = @ + 1, !.state = "entered", !.undisturbed = s.live]
  PROVE  Good(x, r, u)
<1>1. /\ x \in Working /\ s \in Source /\ q \in Seq(Requests) /\ Queued(x, q, s) /\ Closed(q, s) /\ Seated(x, s)
      /\ Reported(x) /\ Offered(x)
  BY DEF Good
<1>2. s.session \in Nat /\ MaxSessions \in Nat /\ s.session + 1 \in Sessions /\ s.session + 1 \in 0 .. MaxSessions
  BY <1>1 DEF Source, Parameters, Sessions
<1>3. m \in Requests /\ m.session = s.session + 1 /\ m.type = "Enter"
  BY <1>2 DEF Requests
<1>4. /\ u \in Source /\ u.session = s.session + 1 /\ u.state = "entered" /\ ~u.waiting /\ u.live = s.live
      /\ u.undisturbed = s.live
  BY <1>1, <1>2 DEF Source
<1>5. r \in Seq(Requests) /\ Queued(x, r, u) /\ Entering(r, u)
  <2>1. u.session = s.session + 1
    BY <1>4
  <2>2. Queued(x, r, u) /\ Entering(r, u)
    BY ONLY <1>1, <1>3, <2>1, Parameters, r = Append(q, m), QueuedNext
  <2> QED
    BY <1>1, <1>3, <2>2
<1>6. /\ Len(q) \in Nat /\ r[Len(q) + 1] = m /\ DOMAIN q = 1 .. Len(q) /\ DOMAIN r = 1 .. Len(q) + 1
      /\ \A i \in 1 .. Len(q) : r[i] = q[i]
  BY <1>1, <1>3
<1>7. ASSUME NEW i \in DOMAIN r, r[i].session = u.session, r[i].type \in {"Leave", "Drop"}
      PROVE  FALSE
  <2>1. CASE i = Len(q) + 1
    BY <1>3, <1>6, <1>7, <2>1
  <2>2. CASE i # Len(q) + 1
    <3>1. i \in DOMAIN q /\ r[i] = q[i]
      BY <1>6, <2>2
    <3>2. q[i].session <= s.session
      BY <1>1, <3>1 DEF Queued
    <3> QED
      BY <1>2, <1>4, <1>7, <3>1, <3>2
  <2> QED
    BY <2>1, <2>2
<1>8. Closed(r, u)
  BY <1>2, <1>4, <1>7 DEF Closed, NoSession
<1>9. Seated(x, u) /\ Open(x, r, u) /\ Answered(x, r, u)
  BY <1>1, <1>4, <1>5 DEF Seated, Open, Answered
<1> QED
  BY <1>1, <1>4, <1>5, <1>8, <1>9 DEF Good

\* A position, a leave or a drop is sent.
LEMMA SourceSendsStep ==
  ASSUME Parameters, NEW x, NEW q, NEW s, Good(x, q, s), s.state = "entered",
         NEW m \in Requests, m.session = s.session, m.type \in {"Position", "Leave", "Drop"},
         NEW r, r = Append(q, m),
         NEW u \in Source, u.session = s.session, u.live = s.live, u.clean = s.clean,
         u.undisturbed = s.undisturbed,
         u.state = (CASE m.type = "Position" -> "entered" [] m.type = "Leave" -> "idle" [] m.type = "Drop" -> "dropped"),
         u.waiting <=> m.type = "Position"
  PROVE  Good(x, r, u)
<1>1. /\ x \in Working /\ s \in Source /\ q \in Seq(Requests) /\ Queued(x, q, s) /\ Closed(q, s) /\ Seated(x, s)
      /\ Reported(x) /\ Offered(x) /\ Open(x, q, s)
  BY DEF Good
<1>2. r \in Seq(Requests) /\ Queued(x, r, u) /\ (Entering(r, u) <=> Entering(q, s))
  <2>1. m.type # "Enter"
    OBVIOUS
  <2>2. Queued(x, r, u) /\ (Entering(r, u) <=> Entering(q, s))
    BY ONLY <1>1, <2>1, m \in Requests, m.session = s.session, u.session = s.session,
            Parameters, r = Append(q, m), QueuedMore
  <2> QED
    BY <1>1, <2>2
<1>3. /\ Len(q) \in Nat /\ Len(r) = Len(q) + 1 /\ r[Len(q) + 1] = m
      /\ DOMAIN q = 1 .. Len(q) /\ DOMAIN r = 1 .. Len(q) + 1
      /\ \A i \in 1 .. Len(q) : r[i] = q[i]
  BY <1>1
<1>4. ASSUME NEW i \in DOMAIN r, r[i].session = u.session, r[i].type \in {"Leave", "Drop"}
      PROVE  i = Len(r) /\ u.state # "entered" /\ (r[i].type = "Leave" => u.state = "idle")
  <2>1. CASE i = Len(q) + 1
    BY <1>3, <1>4, <2>1
  <2>2. CASE i # Len(q) + 1
    <3>1. i \in DOMAIN q /\ r[i] = q[i]
      BY <1>3, <2>2
    <3> QED
      BY <1>1, <1>4, <3>1 DEF Closed
  <2> QED
    BY <2>1, <2>2
<1>5. Closed(r, u)
  BY <1>1, <1>4 DEF Closed
<1>6. Regular(r, u) => Regular(q, s)
  BY <1>2 DEF Regular
<1>7. Open(x, r, u)
  BY <1>1, <1>2, <1>6 DEF Open
<1>8. InFlight(r, m.type, u.session)
  BY <1>3 DEF InFlight
<1>9. Answered(x, r, u)
  BY <1>8 DEF Answered
<1>10. Seated(x, u)
  BY <1>1 DEF Seated
<1> QED
  BY <1>1, <1>2, <1>5, <1>7, <1>9, <1>10 DEF Good

\* An answer is read.
LEMMA ReadReplyStep ==
  ASSUME Parameters, NEW x, NEW q, NEW s, Good(x, q, s), x.r # <<>>,
         NEW y, y = [x EXCEPT !.r = Tail(x.r)],
         NEW u, u = IF Head(x.r).session # s.session THEN s
                    ELSE IF Head(x.r).type = "Status" THEN [s EXCEPT !.waiting = FALSE]
                    ELSE [s EXCEPT !.state = IF s.state = "dropped" THEN "idle" ELSE s.state]
  PROVE  Good(y, q, u)
<1> DEFINE h == Head(x.r)
           p == Tail(x.r)
<1>1. /\ x \in Working /\ s \in Source /\ q \in Seq(Requests) /\ Queued(x, q, s) /\ Closed(q, s) /\ Seated(x, s)
      /\ Reported(x) /\ Offered(x) /\ Open(x, q, s) /\ Answered(x, q, s)
  BY DEF Good
<1>2. x.r \in Seq(Replies) /\ p \in Seq(Replies) /\ h \in Replies
  BY <1>1 DEF Working
<1>3. \A i \in DOMAIN p : i + 1 \in DOMAIN x.r /\ p[i] = x.r[i + 1]
  BY <1>2
<1>4. y \in Working /\ y.d = x.d /\ y.o = x.o /\ y.c = x.c /\ y.r = p
  BY <1>1, <1>2 DEF Working
<1>5. h.type \in {"Status", "Finished"}
  BY <1>2 DEF Replies
<1>6. /\ u \in Source /\ u.session = s.session /\ u.live = s.live /\ u.clean = s.clean
      /\ u.undisturbed = s.undisturbed
      /\ u.waiting => s.waiting /\ ~(h.session = s.session /\ h.type = "Status")
      /\ u.state = s.state \/ (s.state = "dropped" /\ u.state = "idle")
      /\ u.state = "dropped" => ~(h.session = s.session /\ h.type = "Finished")
  <2>1. CASE h.session # s.session
    BY <1>1, <2>1 DEF Source
  <2>2. CASE h.session = s.session /\ h.type = "Status"
    BY <1>1, <2>2 DEF Source
  <2>3. CASE h.session = s.session /\ h.type = "Finished"
    BY <1>1, <2>3 DEF Source
  <2> QED
    BY <1>5, <2>1, <2>2, <2>3
<1>7. ASSUME NEW t, InFlight(x.r, t, s.session), ~(h.session = s.session /\ h.type = t)
      PROVE  InFlight(p, t, s.session)
  <2>1. InFlight(x.r, t, s.session) <=> InFlight(p, t, s.session) \/ (h.type = t /\ h.session = s.session)
    BY ONLY <1>2, x.r # <<>>, TailFlight
  <2> QED
    BY <1>7, <2>1
<1> HIDE DEF h, p
<1>8. Reported(y) /\ Offered(y)
  BY <1>1, <1>3, <1>4 DEF Reported, Offered, Held
<1>9. (Entering(q, u) <=> Entering(q, s)) /\ (\A j : EntersAt(q, u, j) <=> EntersAt(q, s, j))
  BY <1>6 DEF Entering, EntersAt, Behind
<1>10. Queued(y, q, u)
  BY <1>1, <1>4, <1>6, <1>9 DEF Queued, Behind
<1>11. Closed(q, u) /\ Seated(y, u)
  BY <1>1, <1>4, <1>6 DEF Closed, Seated
<1>12. Regular(q, u) <=> Regular(q, s)
  BY <1>6, <1>9 DEF Regular
<1>13. Open(y, q, u)
  BY <1>1, <1>4, <1>6, <1>9, <1>12 DEF Open
<1>14. Answered(y, q, u)
  <2>1. Held(y) <=> Held(x)
    BY <1>4 DEF Held
  <2>2. Regular(q, u) /\ u.waiting => InFlight(q, "Position", u.session) \/ InFlight(y.r, "Status", u.session)
    BY <1>1, <1>4, <1>6, <1>7, <1>12 DEF Answered
  <2>3. Regular(q, u) /\ u.state = "dropped" =>
          \/ InFlight(q, "Drop", u.session)
          \/ InFlight(y.r, "Finished", u.session)
          \/ (y.d.session = u.session /\ y.d.dropped /\ Held(y))
    BY <1>1, <1>4, <1>6, <1>7, <1>12, <2>1 DEF Answered
  <2> QED
    BY <2>2, <2>3 DEF Answered
<1> QED
  BY <1>1, <1>4, <1>6, <1>8, <1>10, <1>11, <1>13, <1>14 DEF Good

-----------------------------------------------------------------------------
(* The steps of the others preserve it. *)

LEMMA SeatStep ==
  ASSUME Parameters, NEW x, NEW q, NEW s, Good(x, q, s), NEW y, y = FinishDndEntry(x),
         NEW u, u = [s EXCEPT !.undisturbed = FALSE, !.live = FALSE]
  PROVE  Good(y, q, u)
<1>1. x \in Working /\ s \in Source /\ Offered(x)
  BY DEF Good
<1>2. y \in Working /\ Ended(x, y) /\ y.r = x.r /\ y.c = x.c
  BY <1>1, FinishDndEntryIs
<1>3. Offered(y) /\ y.d.session = NoSession
  BY <1>1, <1>2, EndedOffered DEF Ended
<1>4. u \in Source /\ u.session = s.session /\ u.state = s.state /\ u.waiting = s.waiting /\ ~u.undisturbed /\ ~u.live
  BY <1>1 DEF Source
<1> QED
  BY ONLY <1>2, <1>3, <1>4, Parameters, Good(x, q, s), DisturbedStep

LEMMA SurfaceStep ==
  ASSUME Parameters, NEW x, NEW q, NEW s, Good(x, q, s), NEW y, y = [x EXCEPT !.d = [x.d EXCEPT !.surface = FALSE]],
         NEW u, u = [s EXCEPT !.undisturbed = FALSE]
  PROVE  Good(y, q, u)
<1> DEFINE e == [x.d EXCEPT !.surface = FALSE]
<1>1. x \in Working /\ s \in Source /\ Offered(x) /\ x.d \in Dnd
  BY DEF Good, Working
<1>2. /\ e \in Dnd /\ e.session = x.d.session /\ e.seat = x.d.seat /\ e.child = x.d.child
      /\ e.serial = x.d.serial /\ e.respond = x.d.respond /\ e.used = x.d.used
      /\ e.resources = x.d.resources /\ e.dropped = x.d.dropped /\ e.version = x.d.version
  BY <1>1 DEF Dnd
<1> HIDE DEF e
<1>3. y \in Working /\ y.d = e /\ y.o = x.o /\ y.r = x.r /\ y.c = x.c
  BY <1>1, <1>2 DEF Working, e
<1>4. Offered(y) /\ y.d.session \in {x.d.session, NoSession} /\ y.d.seat = x.d.seat
  BY ZenonT(30), <1>1, <1>2, <1>3 DEF Offered, Held
<1>5. u \in Source /\ u.session = s.session /\ u.state = s.state /\ u.waiting = s.waiting /\ ~u.undisturbed
      /\ u.live = s.live
  BY <1>1 DEF Source
<1> QED
  BY ONLY <1>3, <1>4, <1>5, Parameters, Good(x, q, s), DisturbedStep

LEMMA UnmapStep ==
  ASSUME Parameters, NEW x, NEW q, NEW s, Good(x, q, s), NEW y, y = HandleChildUnmap(x)
  PROVE  Good(y, q, s)
<1> DEFINE e == [x.d EXCEPT !.child = None, !.resources = {}]
<1>1. x \in Working /\ Offered(x) /\ x.d \in Dnd
  BY DEF Good, Working
<1>2. /\ e \in Dnd /\ e.session = x.d.session /\ e.seat = x.d.seat /\ e.surface = x.d.surface
      /\ e.serial = x.d.serial /\ e.respond = x.d.respond /\ e.used = x.d.used
      /\ e.resources = {} /\ e.dropped = x.d.dropped /\ e.version = x.d.version
  BY <1>1 DEF Dnd
<1>3. y = [x EXCEPT !.d = e]
  BY <1>1 DEF HandleChildUnmap
<1> HIDE DEF e
<1>4. y \in Working /\ y.d = e /\ y.o = x.o /\ y.r = x.r /\ y.c = x.c
  BY <1>1, <1>2, <1>3 DEF Working
<1>5. Offered(y) /\ Kept(x, y) /\ Replied(x, y)
  BY <1>1, <1>2, <1>4 DEF Offered, Held, Kept, Replied, Keeps, Reported
<1>6. Quiet(x, y)
  BY <1>4, <1>5 DEF Quiet
<1> QED
  BY ONLY <1>6, Parameters, Good(x, q, s), QuietStep

-----------------------------------------------------------------------------
(* The specification. *)

LEMMA TargetStateBecomes ==
  ASSUME NEW y \in Working, Set(y)
  PROVE  TargetState' = y
BY DEF Working, Set, TargetState

LEMMA Becomes ==
  ASSUME NEW y, NEW r, NEW u, Good(y, r, u), Set(y), requests' = r, source' = u
  PROVE  TargetInvariant'
<1>1. TargetState' = y
  BY TargetStateBecomes DEF Good
<1> QED
  BY <1>1 DEF TargetInvariant

\* No drag has come.
LEMMA TargetInitInvariant ==
  ASSUME Parameters, TargetInit
  PROVE  TargetInvariant
<1>1. PICK x : x = TargetState
  OBVIOUS
<1>2. PICK s : s = InitSource
  OBVIOUS
<1>3. x.d = InitDnd /\ x.o = <<>> /\ x.r = <<>> /\ x.c = FALSE
  BY <1>1 DEF TargetInit, TargetState
<1>4. InitDnd \in Dnd
  BY DEF InitDnd, Dnd
<1>5. x \in Working
  <2>1. dnd \in Dnd /\ crash \in BOOLEAN
    BY <1>4 DEF TargetInit
  <2>2. <<>> \in Seq(Offer) /\ <<>> \in Seq(Replies)
    OBVIOUS
  <2>3. dropOffers \in Seq(Offer) /\ replies \in Seq(Replies)
    BY <2>2 DEF TargetInit
  <2> QED
    BY <1>1, <2>1, <2>3 DEF TargetState, Working
<1>6. s \in Source /\ s.session = 0 /\ s.state = "idle" /\ ~s.waiting
  BY <1>2 DEF InitSource, Source, Parameters
<1>7. x.d.session = NoSession /\ x.d.resources = {} /\ x.d.used = None /\ x.d.serial = 0
  BY <1>3 DEF InitDnd
<1>8. Offered(x) /\ Reported(x) /\ Seated(x, s)
  BY <1>3, <1>7 DEF Offered, Reported, Seated
<1>9. ~Entering(<<>>, s)
  BY DEF Entering, InFlight
<1>10. Queued(x, <<>>, s)
  BY <1>6, <1>7, <1>9 DEF Queued, NoSession
<1>11. s.undisturbed => s.live
  BY <1>2 DEF InitSource
<1>12. Closed(<<>>, s) /\ Open(x, <<>>, s) /\ Answered(x, <<>>, s)
  BY <1>6, <1>11 DEF Closed, Open, Answered, InFlight
<1>13. Good(x, <<>>, s)
  BY <1>5, <1>6, <1>8, <1>10, <1>12 DEF Good
<1> QED
  BY <1>1, <1>2, <1>13 DEF TargetInvariant, TargetInit

\* Steps of the translator.
LEMMA TranslatorSteps ==
  ASSUME Parameters, TargetInvariant,
         ReadEnter \/ ReadRequest \/ HandleSeatDestroy \/ HandleSurfaceDestroy \/ UnmapChild
  PROVE  TargetInvariant'
<1>1. PICK x : x = TargetState
  OBVIOUS
<1>2. PICK q : q = requests
  OBVIOUS
<1>3. PICK s : s = source
  OBVIOUS
<1>4. Good(x, q, s) /\ x.d = dnd /\ x.o = dropOffers /\ x.r = replies /\ x.c = crash
  BY <1>1, <1>2, <1>3 DEF TargetInvariant, TargetState
<1>5. CASE ReadEnter
  <2>1. PICK y : y = HandleDndEntry(x, Head(q).session, s.live)
    OBVIOUS
  <2>2. PICK u : u = [s EXCEPT !.clean = ~HandleDndEntry(x, Head(q).session, TRUE).d.dropped]
    OBVIOUS
  <2>3. PICK r : r = Tail(q)
    OBVIOUS
  <2>4. q # <<>> /\ Head(q).type = "Enter" /\ Set(y) /\ requests' = r /\ source' = u
    BY <1>1, <1>2, <1>3, <1>5, <2>1, <2>2, <2>3 DEF ReadEnter
  <2>5. Good(y, r, u)
    BY ONLY Parameters, <1>4, <2>1, <2>2, <2>3, <2>4, ReadEnterStep
  <2> QED
    BY <2>4, <2>5, Becomes
<1>6. CASE ReadRequest
  <2>1. PICK r : r = Tail(q)
    OBVIOUS
  <2>2. q # <<>> /\ Head(q).type # "Enter" /\ requests' = r /\ source' = s
    BY <1>2, <1>3, <1>6, <2>1 DEF ReadRequest
  <2>3. Head(q).type \in {"Position", "Leave", "Drop"}
    <3>1. Head(q) \in Requests
      BY <1>4, <2>2 DEF Good
    <3> QED
      BY <2>2, <3>1 DEF Requests
  <2>4. CASE Head(q).type = "Position"
    <3>1. PICK y : y = HandleXdndPositionEvent(x, Head(q))
      OBVIOUS
    <3>2. Set(y)
      BY <1>1, <1>2, <1>6, <2>4, <3>1 DEF ReadRequest
    <3>3. Good(y, r, s)
      BY ONLY Parameters, <1>4, <2>1, <2>2, <2>4, <3>1, ReadPositionStep
    <3> QED
      BY <2>2, <3>2, <3>3, Becomes
  <2>5. CASE Head(q).type = "Leave"
    <3>1. PICK y : y = HandleXdndLeaveEvent(x, Head(q))
      OBVIOUS
    <3>2. Set(y)
      BY <1>1, <1>2, <1>6, <2>5, <3>1 DEF ReadRequest
    <3>3. Good(y, r, s)
      BY ONLY Parameters, <1>4, <2>1, <2>2, <2>5, <3>1, ReadLeaveStep
    <3> QED
      BY <2>2, <3>2, <3>3, Becomes
  <2>6. CASE Head(q).type = "Drop"
    <3>1. PICK y : y = HandleXdndDropEvent(x, Head(q))
      OBVIOUS
    <3>2. Set(y)
      BY <1>1, <1>2, <1>6, <2>6, <3>1 DEF ReadRequest
    <3>3. Good(y, r, s)
      BY ONLY Parameters, <1>4, <2>1, <2>2, <2>6, <3>1, ReadDropStep
    <3> QED
      BY <2>2, <3>2, <3>3, Becomes
  <2> QED
    BY <2>3, <2>4, <2>5, <2>6
<1>7. CASE HandleSeatDestroy
  <2>1. PICK y : y = FinishDndEntry(x)
    OBVIOUS
  <2>2. PICK u : u = [s EXCEPT !.undisturbed = FALSE, !.live = FALSE]
    OBVIOUS
  <2>3. Set(y) /\ requests' = q /\ source' = u
    BY <1>1, <1>2, <1>3, <1>7, <2>1, <2>2 DEF HandleSeatDestroy
  <2>4. Good(y, q, u)
    BY ONLY ZenonT(30), Parameters, <1>4, <2>1, <2>2, SeatStep
  <2> QED
    BY <2>3, <2>4, Becomes
<1>8. CASE HandleSurfaceDestroy
  <2>1. PICK y : y = [x EXCEPT !.d = [x.d EXCEPT !.surface = FALSE]]
    OBVIOUS
  <2>2. PICK u : u = [s EXCEPT !.undisturbed = FALSE]
    OBVIOUS
  <2>3. Set(y)
    BY <1>1, <1>8, <2>1 DEF HandleSurfaceDestroy, Set, TargetState
  <2>4. requests' = q /\ source' = u
    BY <1>2, <1>3, <1>8, <2>2 DEF HandleSurfaceDestroy
  <2>5. Good(y, q, u)
    BY ONLY Parameters, <1>4, <2>1, <2>2, SurfaceStep
  <2> QED
    BY <2>3, <2>4, <2>5, Becomes
<1>9. CASE UnmapChild
  <2>1. PICK y : y = HandleChildUnmap(x)
    OBVIOUS
  <2>2. Set(y) /\ requests' = q /\ source' = s
    BY <1>1, <1>2, <1>3, <1>9, <2>1 DEF UnmapChild
  <2>3. Good(y, q, s)
    BY ONLY Parameters, <1>4, <2>1, UnmapStep
  <2> QED
    BY <2>2, <2>3, Becomes
<1> QED
  BY <1>5, <1>6, <1>7, <1>8, <1>9

\* Steps of the Wayland clients.
LEMMA ClientSteps ==
  ASSUME Parameters, ~StaleDestroys, TargetInvariant, NEW i \in DOMAIN dropOffers,
         ClientAccepts(i) \/ ClientSetsActions(i) \/ ClientFinishes(i) \/ ClientDestroys(i)
  PROVE  TargetInvariant'
<1>1. PICK x : x = TargetState
  OBVIOUS
<1>2. PICK q : q = requests
  OBVIOUS
<1>3. PICK s : s = source
  OBVIOUS
<1>4. Good(x, q, s) /\ x.d = dnd /\ x.o = dropOffers /\ x.r = replies /\ x.c = crash
  BY <1>1, <1>2, <1>3 DEF TargetInvariant, TargetState
<1>5. x \in Working /\ Offered(x) /\ i \in DOMAIN x.o
  BY <1>4 DEF Good
<1>6. requests' = q /\ source' = s
  BY <1>2, <1>3 DEF ClientAccepts, ClientSetsActions, ClientFinishes, ClientDestroys
<1>7. ASSUME NEW y, Set(y), Quiet(x, y)
      PROVE  TargetInvariant'
  <2>1. Good(y, q, s)
    BY ONLY Parameters, <1>4, <1>7, QuietStep
  <2> QED
    BY <1>6, <1>7, <2>1, Becomes
<1>8. CASE ClientAccepts(i)
  <2>1. PICK type \in BOOLEAN : Set(AcceptDropOffer(x, i, type))
    BY <1>1, <1>8 DEF ClientAccepts
  <2>2. PICK y : y = AcceptDropOffer(x, i, type)
    OBVIOUS
  <2>3. Quiet(x, y)
    BY ONLY <1>5, <2>1, <2>2, type \in BOOLEAN, AcceptDropOfferIs
  <2> QED
    BY <1>7, <2>1, <2>2, <2>3
<1>9. CASE ClientSetsActions(i)
  <2>1. PICK action \in Actions \cup {None} : Set(SetDropOfferActions(x, i, action))
    BY <1>1, <1>9 DEF ClientSetsActions
  <2>2. PICK y : y = SetDropOfferActions(x, i, action)
    OBVIOUS
  <2>3. Quiet(x, y)
    BY ONLY <1>5, <2>1, <2>2, action \in Actions \cup {None}, SetDropOfferActionsIs
  <2> QED
    BY <1>7, <2>1, <2>2, <2>3
<1>10. CASE ClientFinishes(i)
  <2>1. PICK y : y = FinishDropOffer(x, i)
    OBVIOUS
  <2>2. Set(y) /\ MayFinish(x, i)
    BY <1>1, <1>10, <2>1 DEF ClientFinishes
  <2>3. Quiet(x, y)
    BY ONLY <1>5, <2>1, <2>2, FinishDropOfferIs
  <2> QED
    BY <1>7, <2>2, <2>3
<1>11. CASE ClientDestroys(i)
  <2>1. PICK y : y = HandleResourceDestroy(x, i)
    OBVIOUS
  <2>2. Set(y) /\ (Current(x, i) => x.d.dropped)
    BY <1>1, <1>4, <1>11, <2>1 DEF ClientDestroys
  <2>3. Quiet(x, y)
    BY ONLY <1>5, <2>1, <2>2, HandleResourceDestroyIs
  <2> QED
    BY <1>7, <2>2, <2>3
<1> QED
  BY <1>8, <1>9, <1>10, <1>11

\* Steps of the X client.
LEMMA SourceSteps ==
  ASSUME Parameters, TargetInvariant, SourceEnters \/ SourceMoves \/ SourceLeaves \/ SourceDrops \/ ReadReply
  PROVE  TargetInvariant'
<1>1. PICK x : x = TargetState
  OBVIOUS
<1>2. PICK q : q = requests
  OBVIOUS
<1>3. PICK s : s = source
  OBVIOUS
<1>4. Good(x, q, s) /\ x.d = dnd /\ x.o = dropOffers /\ x.r = replies /\ x.c = crash
  BY <1>1, <1>2, <1>3 DEF TargetInvariant, TargetState
<1>5. s \in Source /\ Closed(q, s) /\ x \in Working
  BY <1>4 DEF Good
<1>6. ASSUME NEW y, y.d = x.d, y.o = x.o, y.c = x.c, y \in Working,
             dnd' = y.d, dropOffers' = y.o, replies' = y.r, crash' = y.c
      PROVE  Set(y)
  BY <1>6 DEF Set
<1>7. CASE SourceEnters
  <2>1. PICK m : m = [type |-> "Enter", session |-> s.session + 1]
    OBVIOUS
  <2>2. PICK r : r = Append(q, m)
    OBVIOUS
  <2>3. PICK u : u = [s EXCEPT !.session = @ + 1, !.state = "entered", !.undisturbed = s.live]
    OBVIOUS
  <2>4. requests' = r /\ source' = u /\ s.session < MaxSessions /\ ~s.waiting
    BY <1>2, <1>3, <1>7, <2>1, <2>2, <2>3 DEF SourceEnters, Request
  <2>5. Set(x)
    BY <1>4, <1>7 DEF SourceEnters, Set
  <2>6. Good(x, r, u)
    BY ONLY ZenonT(30), Parameters, <1>4, <2>1, <2>2, <2>3, <2>4, SourceEntersStep
  <2> QED
    BY <2>4, <2>5, <2>6, Becomes
<1>8. ASSUME s.state = "entered"
      PROVE  s.session \in Sessions
  <2>1. s.session \in 0 .. MaxSessions /\ s.session # NoSession
    BY <1>5, <1>8 DEF Source, Closed
  <2> QED
    BY <2>1 DEF Sessions, NoSession, Parameters
<1>9. CASE SourceMoves
  <2>1. PICK child \in Children \cup {None}, action \in Actions :
          requests' = Append(q, [type |-> "Position", session |-> s.session, child |-> child, actions |-> {action}])
    BY <1>2, <1>3, <1>9 DEF SourceMoves, Request
  <2>2. PICK m : m = [type |-> "Position", session |-> s.session, child |-> child, actions |-> {action}]
    OBVIOUS
  <2>3. PICK r : r = Append(q, m)
    OBVIOUS
  <2>4. PICK u : u = [s EXCEPT !.waiting = TRUE, !.positions = @ + 1]
    OBVIOUS
  <2>5. requests' = r /\ source' = u /\ s.state = "entered"
    BY <1>2, <1>3, <1>9, <2>1, <2>2, <2>3, <2>4 DEF SourceMoves
  <2>6. Set(x)
    BY <1>4, <1>9 DEF SourceMoves, Set
  <2>7. m \in Requests /\ m.session = s.session /\ m.type = "Position"
    BY <1>8, <2>2, <2>5 DEF Requests
  <2>8. /\ u \in Source /\ u.session = s.session /\ u.live = s.live /\ u.clean = s.clean
        /\ u.undisturbed = s.undisturbed /\ u.state = s.state /\ u.waiting
    <3> DEFINE n == s.positions + 1
    <3>1. n \in Nat
      BY <1>5 DEF Source
    <3>2. u = [s EXCEPT !.waiting = TRUE, !.positions = n]
      BY <1>5, <2>4 DEF Source
    <3> HIDE DEF n
    <3> QED
      BY <1>5, <3>1, <3>2 DEF Source
  <2>9. u.state = (CASE m.type = "Position" -> "entered" [] m.type = "Leave" -> "idle" [] m.type = "Drop" -> "dropped")
    BY <2>5, <2>7, <2>8
  <2>10. (u.waiting <=> m.type = "Position") /\ m.type \in {"Position", "Leave", "Drop"}
    BY <2>7, <2>8
  <2>11. Good(x, r, u)
    BY ONLY Parameters, <1>4, <2>3, <2>5, <2>7, <2>8, <2>9, <2>10, SourceSendsStep
  <2> QED
    BY <2>5, <2>6, <2>11, Becomes
<1>10. CASE SourceLeaves
  <2>2. PICK m : m = [type |-> "Leave", session |-> s.session]
    OBVIOUS
  <2>3. PICK r : r = Append(q, m)
    OBVIOUS
  <2>4. PICK u : u = [s EXCEPT !.state = "idle", !.waiting = FALSE]
    OBVIOUS
  <2>5. requests' = r /\ source' = u /\ s.state = "entered"
    BY <1>2, <1>3, <1>10, <2>2, <2>3, <2>4 DEF SourceLeaves, Request
  <2>6. Set(x)
    BY <1>4, <1>10 DEF SourceLeaves, Set
  <2>7. m \in Requests /\ m.session = s.session /\ m.type = "Leave"
    BY <1>8, <2>2, <2>5 DEF Requests
  <2>8. /\ u \in Source /\ u.session = s.session /\ u.live = s.live /\ u.clean = s.clean
        /\ u.undisturbed = s.undisturbed /\ u.state = "idle" /\ ~u.waiting
    BY <1>5, <2>4 DEF Source
  <2>9. u.state = (CASE m.type = "Position" -> "entered" [] m.type = "Leave" -> "idle" [] m.type = "Drop" -> "dropped")
    BY <2>7, <2>8
  <2>10. (u.waiting <=> m.type = "Position") /\ m.type \in {"Position", "Leave", "Drop"}
    BY <2>7, <2>8
  <2>11. Good(x, r, u)
    BY ONLY Parameters, <1>4, <2>3, <2>5, <2>7, <2>8, <2>9, <2>10, SourceSendsStep
  <2> QED
    BY <2>5, <2>6, <2>11, Becomes
<1>11. CASE SourceDrops
  <2>2. PICK m : m = [type |-> "Drop", session |-> s.session]
    OBVIOUS
  <2>3. PICK r : r = Append(q, m)
    OBVIOUS
  <2>4. PICK u : u = [s EXCEPT !.state = "dropped"]
    OBVIOUS
  <2>5. requests' = r /\ source' = u /\ s.state = "entered" /\ ~s.waiting
    BY <1>2, <1>3, <1>11, <2>2, <2>3, <2>4 DEF SourceDrops, Request
  <2>6. Set(x)
    BY <1>4, <1>11 DEF SourceDrops, Set
  <2>7. m \in Requests /\ m.session = s.session /\ m.type = "Drop"
    BY <1>8, <2>2, <2>5 DEF Requests
  <2>8. /\ u \in Source /\ u.session = s.session /\ u.live = s.live /\ u.clean = s.clean
        /\ u.undisturbed = s.undisturbed /\ u.state = "dropped" /\ ~u.waiting
    BY <1>5, <2>4, <2>5 DEF Source
  <2>9. u.state = (CASE m.type = "Position" -> "entered" [] m.type = "Leave" -> "idle" [] m.type = "Drop" -> "dropped")
    BY <2>7, <2>8
  <2>10. (u.waiting <=> m.type = "Position") /\ m.type \in {"Position", "Leave", "Drop"}
    BY <2>7, <2>8
  <2>11. Good(x, r, u)
    BY ONLY Parameters, <1>4, <2>3, <2>5, <2>7, <2>8, <2>9, <2>10, SourceSendsStep
  <2> QED
    BY <2>5, <2>6, <2>11, Becomes
<1>12. CASE ReadReply
  <2>1. PICK y : y = [x EXCEPT !.r = Tail(x.r)]
    OBVIOUS
  <2>2. PICK u : u = IF Head(x.r).session # s.session THEN s
                     ELSE IF Head(x.r).type = "Status" THEN [s EXCEPT !.waiting = FALSE]
                     ELSE [s EXCEPT !.state = IF s.state = "dropped" THEN "idle" ELSE s.state]
    OBVIOUS
  <2>3. x.r # <<>> /\ requests' = q
    BY <1>2, <1>4, <1>12 DEF ReadReply
  <2>4. source' = u
    BY <1>3, <1>4, <1>12, <2>2 DEF ReadReply
  <2>5. Set(y)
    BY <1>4, <1>5, <1>12, <2>1 DEF ReadReply, Set, Working
  <2>6. Good(y, q, u)
    BY ONLY Parameters, <1>4, <2>1, <2>2, <2>3, ReadReplyStep
  <2> QED
    BY <2>3, <2>4, <2>5, <2>6, Becomes
<1> QED
  BY <1>7, <1>9, <1>10, <1>11, <1>12

LEMMA TargetStep ==
  ASSUME Parameters, ~StaleDestroys, TargetInvariant, [TargetNext]_targetVars
  PROVE  TargetInvariant'
<1>1. CASE UNCHANGED targetVars
  <2>1. TargetState' = TargetState /\ requests' = requests /\ source' = source
    BY <1>1 DEF targetVars, TargetState
  <2> QED
    BY <2>1 DEF TargetInvariant
<1>2. CASE TargetNext
  BY <1>2, TranslatorSteps, ClientSteps, SourceSteps DEF TargetNext
<1> QED
  BY <1>1, <1>2

LEMMA InvariantHolds ==
  ASSUME Parameters, ~StaleDestroys
  PROVE  TargetSpec => []TargetInvariant
<1>1. TargetInit => TargetInvariant
  BY TargetInitInvariant
<1>2. TargetInvariant /\ [TargetNext]_targetVars => TargetInvariant'
  BY TargetStep
<1> QED
  BY <1>1, <1>2, PTL DEF TargetSpec

\* What the invariant says of the properties.
LEMMA InvariantSays ==
  ASSUME TargetInvariant
  PROVE  TargetTypeOK /\ TargetAnswers
<1>1. PICK x : x = TargetState
  OBVIOUS
<1>2. Good(x, requests, source) /\ x.d = dnd /\ x.o = dropOffers /\ x.r = replies /\ x.c = crash
  BY <1>1 DEF TargetInvariant, TargetState
<1>3. x.d \in Dnd /\ source \in Source
  BY <1>2 DEF Good, Working
<1>4. TargetTypeOK
  BY <1>2, <1>3 DEF TargetTypeOK, Dnd, Source, Good, Offered
<1>5. source.clean => PositionAnswered /\ DropAnswered
  <2>1. source.clean /\ source.undisturbed => Regular(requests, source)
    BY DEF Regular
  <2>2. Answered(x, requests, source)
    BY <1>2 DEF Good
  <2>3. source.clean => PositionAnswered
    BY <1>2, <2>1, <2>2 DEF Answered, PositionAnswered
  <2>4. source.clean => DropAnswered
    BY <1>2, <2>1, <2>2 DEF Answered, DropAnswered, Held
  <2> QED
    BY <2>3, <2>4
<1>6. OnlyFinishedAccepted
  BY <1>2 DEF Good, Reported, Honest, OnlyFinishedAccepted
<1>7. OffersCurrent
  BY <1>2 DEF Good, Offered, OffersCurrent
<1>8. source.live => ~crash
  BY <1>2 DEF Good, Seated
<1> QED
  BY <1>4, <1>5, <1>6, <1>7, <1>8 DEF TargetAnswers

\* The drag, its offers and the X client are always of their kinds.
THEOREM TargetTypesHold ==
  ASSUME Parameters, ~StaleDestroys
  PROVE  TargetSpec => []TargetTypeOK
<1>1. TargetSpec => []TargetInvariant
  BY InvariantHolds
<1>2. TargetInvariant => TargetTypeOK
  BY InvariantSays
<1> QED
  BY <1>1, <1>2, PTL

\* For any number of surfaces, offers and drags: an X client that drags over a
\* toplevel that stays is answered every position and every drop, or a client
\* still has the offer that will; success is reported only where a client said
\* so; no offer of an earlier drag is taken for one of this; and with a seat
\* nothing is called without one.
THEOREM TargetAnswered ==
  ASSUME Parameters, ~StaleDestroys
  PROVE  TargetSpec => []TargetAnswers
<1>1. TargetSpec => []TargetInvariant
  BY InvariantHolds
<1>2. TargetInvariant => TargetAnswers
  BY InvariantSays
<1> QED
  BY <1>1, <1>2, PTL

=============================================================================
