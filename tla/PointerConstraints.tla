------------------------- MODULE PointerConstraints -------------------------
(***************************************************************************)
(* Locked and confined pointers (pointer_constraints.c).  A client asks    *)
(* for a constraint on a surface and a seat; it becomes active when the    *)
(* pointer of the seat is in the part of the surface it covers, and while  *)
(* it is active X pointer barriers hold the pointer back.  They are drawn  *)
(* in root window coordinates, so they have to follow the window.          *)
(*                                                                         *)
(* A surface is a set of places, which its input region and the region of  *)
(* a constraint are subsets of (no region stands for all of them); where   *)
(* its window is on the screen is an element of Origins.  The barriers     *)
(* themselves are the subject of Barriers; here they are the area they     *)
(* enclose and the origin it was drawn for.                                *)
(***************************************************************************)
EXTENDS Naturals, Sequences, FiniteSets, SequencesExt

CONSTANTS
  Constraints,   \* the resources a client may ask for
  Surfaces, Seats, Places, Origins,
  Regions,       \* the regions clients use, sets of places
  HasChildren,   \* the surfaces that have a subsurface
  SurfacesDie,   \* whether a surface may go while a constraint on it is active
  MaxChanges     \* bound on commits, window moves and new constraints

VARIABLES
  constraints,   \* what the server keeps for each resource
  confinements,  \* the constraints of each surface, the last one first
  mouse,         \* of a seat: the surface the pointer was last seen in, where
                 \* in it, and where on the screen (seat.c)
  locked,        \* IsPointerLocked of each seat: motion is not reported
  surface,       \* of a surface: alive, its input region, its origin, and
                 \* whether a ConfigureNotify about that is still to come
  hung,          \* whether the server is in a loop that never ends
  changes

constraintVars ==
  <<constraints, confinements, mouse, locked, surface, hung, changes>>

None == "none"

Nowhere == 0   \* no place, no origin

\* activations counts up to 2, which is one too many for a one shot.
NoConstraint ==
  [made |-> FALSE, surface |-> None, seat |-> None, lock |-> FALSE,
   oneShot |-> FALSE, active |-> FALSE, dead |-> FALSE,
   region |-> Places, pending |-> Places, pendingRegion |-> FALSE,
   callback |-> FALSE, hint |-> Nowhere, pendingHint |-> Nowhere,
   applied |-> Nowhere, lines |-> {}, lastCursor |-> Nowhere,
   activations |-> 0]

ConstraintTypeOK ==
  /\ \A c \in Constraints :
       LET r == constraints[c] IN
       /\ r.surface \in Surfaces \cup {None} /\ r.seat \in Seats \cup {None}
       /\ \A f \in {"made", "lock", "oneShot", "active", "dead",
                    "pendingRegion", "callback"} : r[f] \in BOOLEAN
       /\ r.region \subseteq Places /\ Cardinality(r.lines) <= 1
  /\ confinements \in [Surfaces -> Seq(Constraints)]
  /\ locked \in [Seats -> BOOLEAN] /\ hung \in BOOLEAN

ConstraintInit ==
  /\ constraints = [c \in Constraints |-> NoConstraint]
  /\ confinements = [s \in Surfaces |-> <<>>]
  /\ mouse = [m \in Seats |-> [in |-> None, x |-> Nowhere, root |-> Nowhere]]
  /\ locked = [m \in Seats |-> FALSE]
  /\ \E origin \in Origins :
       surface = [s \in Surfaces |->
                    [alive |-> TRUE, input |-> Places, origin |-> origin,
                     moved |-> FALSE]]
  /\ hung = FALSE
  /\ changes = 0

-----------------------------------------------------------------------------
(* The steps of the handlers, as functions of the state they share: the    *)
(* constraints, the locked seats and whether the server hangs.             *)

State == [c |-> constraints, locked |-> locked, hung |-> hung, s |-> surface]

Hang(st) == [st EXCEPT !.hung = TRUE]

Then(st, F(_)) == IF st.hung THEN st ELSE F(st)

\* The walk never goes past the first constraint of the list.
FindConfinement(st, s, m) ==
  LET list == confinements[s]
  IN  IF list = <<>> THEN None
      ELSE IF st.c[list[1]].seat = m THEN list[1]
      ELSE "never"

WrongDeactivateConfinement(st, c) ==
  [st EXCEPT !.c[c].active = FALSE, !.c[c].applied = Nowhere, !.c[c].lines = {},
             !.c[c].dead = @ \/ st.c[c].oneShot]

\* The hint becomes the goal of a warp, which comes back as a motion event.
DeactivateConfinement(st, c) ==
  [st EXCEPT !.c[c].active = FALSE,
             !.c[c].applied = Nowhere,
             !.c[c].lines = {},
             !.c[c].dead = @ \/ st.c[c].oneShot,
             !.locked = [m \in Seats |->
                           IF m = st.c[c].seat THEN FALSE ELSE @[m]]]

\* The part of surface s a constraint covers.
Area(st, region, s) == region \cap st.s[s].input

WrongDrawPointerBarriers(st, c, s) ==
  [st EXCEPT !.c[c].lines = @ \cup {Area(st, st.c[c].region, s)},
             !.c[c].applied = st.s[s].origin]

DrawPointerBarriers(st, c, s) ==
  [st EXCEPT !.c[c].lines = {Area(st, st.c[c].region, s)},
             !.c[c].applied = st.s[s].origin]

\* Barriers around one point of the screen, remembered as the origin that
\* point stands for.
DrawLock(st, c, root) ==
  [st EXCEPT !.c[c].applied = root.origin,
             !.c[c].lastCursor = root.x]

CheckConfinement(st, c, s, x, root) ==
  LET r == st.c[c]
      on == [st EXCEPT !.c[c].active = TRUE,
                       !.c[c].activations = Min({@ + 1, 2})]
  IN  IF r.dead
      THEN st
      ELSE IF x \in Area(st, r.region, s)
      THEN IF ~r.active
           THEN IF r.lock
                THEN DrawLock([on EXCEPT !.locked[r.seat] = TRUE], c,
                              [origin |-> root, x |-> x])
                ELSE DrawPointerBarriers(on, c, s)
           ELSE IF r.lock /\ <<root, x>> # <<r.applied, r.lastCursor>>
           THEN DrawLock(st, c, [origin |-> root, x |-> x])
           ELSE st
      ELSE IF r.active THEN DeactivateConfinement(st, c) ELSE st

XLPointerBarrierCheck(st, m, s, x, root) ==
  LET c == FindConfinement(st, s, m)
  IN  CASE c = None    -> st
        [] c = "never" -> Hang(st)
        [] OTHER       -> CheckConfinement(st, c, s, x, root)

XLPointerBarrierLeft(st, m, s) ==
  LET c == FindConfinement(st, s, m)
  IN  CASE c = None        -> st
        [] c = "never"     -> Hang(st)
        [] st.c[c].active  -> DeactivateConfinement(st, c)
        [] OTHER           -> st

RecheckPointerConfinement(st, c) ==
  LET at == mouse[st.c[c].seat]
  IN  IF at.in = st.c[c].surface
      THEN XLPointerBarrierCheck(st, st.c[c].seat, at.in, at.x, at.root)
      ELSE IF at.in = None /\ st.c[c].active
      THEN DeactivateConfinement(st, c)
      ELSE st

\* XLPointerConstraintsReconfineSurface and SubsurfaceMoved: the barriers of
\* the active constraints of s are drawn again.
RewarpPointer(st, c, s) ==
  DrawLock(st, c, [origin |-> st.s[s].origin, x |-> st.c[c].lastCursor])

Again(st, s, Redraw(_, _)) ==
  FoldLeft(LAMBDA t, c : IF t.c[c].active THEN Redraw(t, c) ELSE t,
           st, confinements[s])

Reconfine(st, s) ==
  Again(st, s, LAMBDA t, c : IF t.c[c].lock THEN RewarpPointer(t, c, s)
                             ELSE DrawPointerBarriers(t, c, s))

\* Both walks over the subsurfaces call themselves with the surface itself.
Descend(st, s) ==
  IF confinements[s] # <<>> /\ s \in HasChildren THEN Hang(st) ELSE st

\* XLPointerConstraintsSurfaceMovedTo: the lines are kept as they are and
\* moved to the place the event tells.
XLPointerConstraintsSurfaceMovedTo(st, s) ==
  Descend(Again(st, s, LAMBDA t, c :
                         IF t.c[c].lock
                         THEN RewarpPointer(t, c, s)
                         ELSE [t EXCEPT !.c[c].applied = t.s[s].origin]), s)

HandleSurfaceCommit(st, c) ==
  LET r       == st.c[c]
      renewed == [st EXCEPT !.c[c].region = r.pending,
                            !.c[c].pending = Places]
      checked == IF r.seat # None
                 THEN RecheckPointerConfinement(renewed, c) ELSE renewed
      done    == IF r.pendingRegion
                 THEN [checked EXCEPT !.c[c].pendingRegion = FALSE] ELSE st
  IN  IF done.hung \/ r.pendingHint = Nowhere
      THEN done
      ELSE [done EXCEPT !.c[c].hint = r.pendingHint,
                        !.c[c].pendingHint = Nowhere]

Become(st) ==
  /\ constraints' = st.c
  /\ locked' = st.locked
  /\ hung' = st.hung

-----------------------------------------------------------------------------
(* Requests of clients.                                                    *)

Changes == ~hung /\ changes < MaxChanges /\ changes' = changes + 1

\* LockPointer and ConfinePointer do the same but for the kind of constraint.
\* A second constraint of a seat on a surface is an error.
Constrain(c, s, m, lock, oneShot, region) ==
  LET found == FindConfinement(State, s, m)
      made  == [State EXCEPT !.c[c] =
                  [NoConstraint EXCEPT
                     !.made = TRUE, !.surface = s, !.seat = m, !.lock = lock,
                     !.oneShot = oneShot, !.region = region]]
      at    == mouse[m]
  IN  /\ Changes
      /\ ~constraints[c].made /\ constraints[c].activations = 0
      /\ surface[s].alive
      /\ found \in {None, "never"}
      /\ IF found = "never"
         THEN Become(Hang(State)) /\ UNCHANGED confinements
         ELSE /\ confinements' = [confinements EXCEPT ![s] = <<c>> \o @]
              /\ Become(IF at.in = s
                        THEN CheckConfinement(made, c, s, at.x, at.root)
                        ELSE made)
      /\ UNCHANGED <<mouse, surface>>

LockPointer(c, s, m, oneShot, region) ==
  Constrain(c, s, m, TRUE, oneShot, region)

ConfinePointer(c, s, m, oneShot, region) ==
  Constrain(c, s, m, FALSE, oneShot, region)

\* The pending values wait for a commit of the surface; with the surface
\* gone they are set all the same, and nothing applies them.
Pend(c, r) ==
  /\ Changes
  /\ constraints[c].made
  /\ constraints' = [constraints EXCEPT ![c] =
                       [r EXCEPT !.callback = @ \/ r.surface # None]]
  /\ UNCHANGED <<confinements, mouse, locked, surface, hung>>

SetRegion(c, region) ==
  Pend(c, [constraints[c] EXCEPT !.pending = region, !.pendingRegion = TRUE])

SetCursorPositionHint(c, x) ==
  /\ constraints[c].lock
  /\ Pend(c, [constraints[c] EXCEPT !.pendingHint = x])

Detach(c) ==
  confinements' = [s \in Surfaces |->
    IF s = constraints[c].surface
    THEN SelectSeq(confinements[s], LAMBDA d : d # c) ELSE confinements[s]]

Released(c) ==
  IF constraints[c].active THEN DeactivateConfinement(State, c) ELSE State

HandleResourceDestroy(c) ==
  /\ ~hung /\ constraints[c].made
  /\ Detach(c)
  /\ Become([Released(c) EXCEPT
               !.c[c] = [NoConstraint EXCEPT
                           !.activations = 1]])
  /\ UNCHANGED <<mouse, surface, changes>>

\* A commit of the surface, perhaps with another input region: that is
\* applied first, and the barriers drawn again for it; then the commit
\* callbacks run, in the order they were attached.
CommitSurface(s, input) ==
  LET known   == SetToSeq({ c \in Constraints :
                              constraints[c].surface = s
                                /\ constraints[c].callback })
      changed == [State EXCEPT !.s[s].input = input]
      applied == IF input # surface[s].input
                 THEN Reconfine(changed, s) ELSE State
      end     == FoldLeft(LAMBDA t, c : Then(t, LAMBDA u :
                                               HandleSurfaceCommit(u, c)),
                          applied, known)
  IN  /\ Changes
      /\ surface[s].alive
      /\ Become(end)
      /\ surface' = end.s
      /\ UNCHANGED <<confinements, mouse>>

-----------------------------------------------------------------------------
(* What the X server reports.                                              *)

\* EnteredSurface and CheckPointerBarrier of a motion event in surface s.
Motion(m, s, x) ==
  LET at   == mouse[m]
      left == IF at.in \notin {None, s}
              THEN XLPointerBarrierLeft(State, m, at.in) ELSE State
  IN  /\ ~hung /\ surface[s].alive
      /\ mouse' = [mouse EXCEPT ![m] =
                     [in |-> s, x |-> x, root |-> surface[s].origin]]
      /\ Become(Then(left, LAMBDA t :
                  XLPointerBarrierCheck(t, m, s, x, surface[s].origin)))
      /\ UNCHANGED <<confinements, surface, changes>>

\* The pointer leaves to where no surface is.
Leave(m) ==
  /\ ~hung /\ mouse[m].in # None
  /\ mouse' = [mouse EXCEPT ![m] = [in |-> None, x |-> Nowhere, root |-> Nowhere]]
  /\ Become(XLPointerBarrierLeft(State, m, mouse[m].in))
  /\ UNCHANGED <<confinements, surface, changes>>

MoveWindow(s, origin) ==
  /\ Changes
  /\ surface[s].alive /\ origin # surface[s].origin
  /\ surface' = [surface EXCEPT ![s].origin = origin, ![s].moved = TRUE]
  /\ UNCHANGED <<constraints, confinements, mouse, locked, hung>>

HandleConfigure(s) ==
  /\ ~hung /\ surface[s].moved
  /\ surface' = [surface EXCEPT ![s].moved = FALSE]
  /\ Become(XLPointerConstraintsSurfaceMovedTo(State, s))
  /\ UNCHANGED <<confinements, mouse, changes>>

\* ClearLastSeenSurface does not tell the constraints, and the record of the
\* surface is freed without ending them.
SurfaceDestroyed(s) ==
  /\ ~hung /\ surface[s].alive
  /\ ~SurfacesDie => \A c \in Constraints :
                       constraints[c].surface = s => ~constraints[c].active
  /\ surface' = [surface EXCEPT ![s].alive = FALSE, ![s].moved = FALSE]
  /\ constraints' = [c \in Constraints |->
       IF constraints[c].surface = s
       THEN [constraints[c] EXCEPT !.surface = None, !.callback = FALSE]
       ELSE constraints[c]]
  /\ confinements' = [confinements EXCEPT ![s] = <<>>]
  /\ mouse' = [m \in Seats |->
                 IF mouse[m].in = s
                 THEN [in |-> None, x |-> Nowhere, root |-> Nowhere] ELSE mouse[m]]
  /\ UNCHANGED <<locked, hung, changes>>

HandleSeatDestroyed(m) ==
  LET gone    == { c \in Constraints : constraints[c].seat = m }
      ended   == FoldLeft(LAMBDA t, c : IF t.c[c].active
                                        THEN DeactivateConfinement(t, c)
                                        ELSE t, State, SetToSeq(gone))
  IN  /\ ~hung /\ gone # {}
      /\ Become([ended EXCEPT !.c = [c \in Constraints |->
           IF c \in gone
           THEN [ended.c[c] EXCEPT !.surface = None, !.seat = None,
                                   !.callback = FALSE]
           ELSE ended.c[c]]])
      /\ confinements' = [s \in Surfaces |->
           SelectSeq(confinements[s], LAMBDA d : d \notin gone)]
      /\ UNCHANGED <<mouse, surface, changes>>

ConstraintNext ==
  \/ \E c \in Constraints, s \in Surfaces, m \in Seats,
        oneShot \in BOOLEAN, region \in Regions \cup {Places} :
       LockPointer(c, s, m, oneShot, region)
         \/ ConfinePointer(c, s, m, oneShot, region)
  \/ \E c \in Constraints, region \in Regions \cup {Places} :
       SetRegion(c, region)
  \/ \E c \in Constraints, x \in Places : SetCursorPositionHint(c, x)
  \/ \E c \in Constraints : HandleResourceDestroy(c)
  \/ \E s \in Surfaces, input \in Regions \cup {Places} :
       CommitSurface(s, input)
  \/ \E m \in Seats, s \in Surfaces, x \in Places : Motion(m, s, x)
  \/ \E m \in Seats : Leave(m)
  \/ \E s \in Surfaces, origin \in Origins : MoveWindow(s, origin)
  \/ \E s \in Surfaces : HandleConfigure(s) \/ SurfaceDestroyed(s)
  \/ \E m \in Seats : HandleSeatDestroyed(m)

ConstraintSpec == ConstraintInit /\ [][ConstraintNext]_constraintVars

-----------------------------------------------------------------------------
(* Correctness.                                                            *)

\* Motion is withheld from clients only while a lock of that seat is active
\* on the surface the pointer is in.
LockHolds ==
  \A m \in Seats :
    locked[m] => \E c \in Constraints :
                   /\ constraints[c].active /\ constraints[c].lock
                   /\ constraints[c].seat = m
                   /\ constraints[c].surface = mouse[m].in

ActiveInside ==
  \A c \in Constraints :
    LET r == constraints[c] IN
    r.active /\ r.surface # None =>
      /\ mouse[r.seat].in = r.surface
      /\ mouse[r.seat].x \in r.region
      /\ r.lock => locked[r.seat]

\* Barriers are there for active constraints only, and where the window is
\* once the server has heard of its last move; a lock may be where the
\* pointer was last seen instead.
BarriersFollow ==
  \A c \in Constraints :
    LET r == constraints[c] IN
    /\ r.active <=> r.applied # Nowhere
    /\ r.active /\ ~r.lock <=> r.lines # {}
    /\ r.active /\ r.surface # None =>
         \/ surface[r.surface].moved
         \/ r.applied = surface[r.surface].origin
         \/ r.lock /\ r.applied = mouse[r.seat].root

OneShotsEnd ==
  \A c \in Constraints :
    LET r == constraints[c] IN
    r.oneShot => r.activations <= 1 /\ (r.dead => ~r.active)

\* The constraints, the barriers and the seats agree with each other across
\* commits, motion, moving windows and whatever goes away
\* (pointer_constraints.c, seat.c SendMotion).
ConstraintsSound ==
  LockHolds /\ ActiveInside /\ BarriersFollow /\ OneShotsEnd /\ ~hung

\* The region an active confinement is drawn for is the one the client has
\* committed: a commit that changes only the region of the confinement
\* leaves the barriers of the old one (pointer_constraints.c,
\* HandleSurfaceCommit and XLPointerBarrierCheck).
RegionTakesEffect ==
  \A c \in Constraints :
    LET r == constraints[c] IN
    r.active /\ ~r.lock /\ r.surface # None =>
      r.lines = {Area(State, r.region, r.surface)}
=============================================================================
