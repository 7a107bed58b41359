------------------------------- MODULE Surface -------------------------------
(***************************************************************************)
(* The surfaces of one window: surface.c and subsurface.c.  Every surface  *)
(* has a pending, a cached and a current state; a client fills the first,  *)
(* a commit moves it into the second if the surface is a synchronous       *)
(* subsurface and into the third otherwise, and the commit of a parent     *)
(* applies the cached states below it.  Around them the X server, that     *)
(* reads a buffer for some time after it was drawn, and the release of     *)
(* buffers through the role of the root (xdg_surface.c, buffer_release.c). *)
(*                                                                         *)
(* Abstracted: of a State only its buffer and PendingBuffer; regions,      *)
(* scales, viewports, damage and frame callbacks take the same path.  The  *)
(* root keeps its role.  No buffer is given to two surfaces.  The renderer *)
(* is the picture renderer, that never copies a buffer: BufferAlreadyRe-   *)
(* leased is never set.                                                    *)
(*                                                                         *)
(* An operator named Wrong... is a deliberate bug in the operator that     *)
(* follows it; PROJECT.json names the property that each of them breaks.   *)
(***************************************************************************)
EXTENDS Naturals, Sequences, FiniteSets, SequencesExt

CONSTANTS
  Surfaces,      \* the surfaces of the window
  Root,          \* the one with the xdg_surface role
  Parents,       \* whose subsurface a surface may become: [Surfaces -> SUBSET Surfaces]
  BuffersOf,     \* the buffers its client draws it with: a function of Surfaces
  none, nothing, \* no buffer or no surface; no commit
  AttachAlways,  \* clients attach something before every commit
  Destroys,      \* the subsurfaces that clients destroy, by the state of their last
                 \* commit: subset of {"applied", "cached"}
  DetachedDesync, \* clients send set_desync to children of a surface that lost its role
  MaxRoles       \* bound: roles given

ASSUME SurfacesAssumption ==
  /\ Root \in Surfaces
  /\ Parents \in [Surfaces \ {Root} -> SUBSET Surfaces]
  /\ \A s, t \in Surfaces : s # t => BuffersOf[s] \cap BuffersOf[t] = {}
  /\ none \notin Surfaces \cup UNION {BuffersOf[s] : s \in Surfaces}
  /\ nothing \notin {none} \cup UNION {BuffersOf[s] : s \in Surfaces}

Buffers == UNION {BuffersOf[s] : s \in Surfaces}
NonRoot == Surfaces \ {Root}

VARIABLES
  surface, \* [Surfaces -> struct _Surface and struct _Subsurface]
  busy,    \* buffers committed and not yet released to the client
  waiting, \* buffers with a record of the release helper
  reading, \* buffers that the X server may still read
  frame,   \* what the last step drew of each surface, or nothing
  roles,   \* roles given so far
  crashed  \* the role of a surface that has none was used

vars == <<surface, busy, waiting, reading, frame, roles, crashed>>

State == [buffer : Buffers \cup {none}, attached : BOOLEAN]

SurfaceState ==
  [alive : BOOLEAN, role : BOOLEAN, typed : BOOLEAN,
   pending : State, cached : State, current : Buffers \cup {none},
   parent : Surfaces \cup {none}, children : Seq(Surfaces),
   synchronous : BOOLEAN, should_be_desync : BOOLEAN,
   pending_commit : BOOLEAN, uninserted : BOOLEAN]

InitState == [buffer |-> none, attached |-> FALSE]

InitSurface(s) ==
  [alive |-> TRUE, role |-> s = Root, typed |-> s = Root,
   pending |-> InitState, cached |-> InitState, current |-> none,
   parent |-> none, children |-> <<>>,
   synchronous |-> FALSE, should_be_desync |-> FALSE,
   pending_commit |-> FALSE, uninserted |-> FALSE]

\* What a step works on: "draw" says that the frame clock lets the next
\* update draw at once.
Work(draw) == [surface |-> surface, busy |-> busy, waiting |-> waiting,
               reading |-> reading, frame |-> nothing, draw |-> draw]

Finish(x) ==
  /\ surface' = x.surface
  /\ busy' = x.busy
  /\ waiting' = x.waiting
  /\ reading' = x.reading
  /\ frame' = x.frame

-----------------------------------------------------------------------------
(* The tree. *)

Children(x, s) == ToSet(x.surface[s].children)

\* The least set that has s and, with every t, next[t].
Reach(next, s) ==
  LET Linked == {s} \cup UNION {next[t] : t \in Surfaces}
      Closed == {S \in SUBSET Linked : s \in S /\ \A t \in S : next[t] \subseteq S}
  IN {t \in Linked : \A S \in Closed : t \in S}

\* s and everything below it.
Below(x, s) == Reach([t \in Surfaces |-> Children(x, t)], s)

\* s, and below it what asked to be desynchronized, without a break.
Desynchronized(x, s) ==
  Reach([t \in Surfaces |-> {c \in Children(x, t) : x.surface[c].should_be_desync}], s)

\* Every surface from s up to the root has its role.
Rooted(x, s) ==
  LET rooted[t \in Surfaces] ==
        t = Root \/ (/\ x.surface[t].role
                     /\ x.surface[t].parent # none
                     /\ rooted[x.surface[t].parent])
  IN rooted[s]

\* The views of s are in the subcompositor.
Inserted(x, s) ==
  LET inserted[t \in Surfaces] ==
        t = Root \/ (/\ x.surface[t].role
                     /\ ~x.surface[t].uninserted
                     /\ x.surface[t].parent # none
                     /\ inserted[x.surface[t].parent])
  IN inserted[s]

\* What a frame shows of each surface: a view without a buffer is unmapped,
\* and hides those below it.
Shown(surfaces) ==
  LET visible[t \in Surfaces] ==
        /\ surfaces[t].current # none
        /\ t = Root \/ (/\ surfaces[t].role
                        /\ ~surfaces[t].uninserted
                        /\ surfaces[t].parent # none
                        /\ visible[surfaces[t].parent])
  IN [t \in Surfaces |-> IF visible[t] THEN surfaces[t].current ELSE none]

-----------------------------------------------------------------------------
(* Drawing, and the release of buffers. *)

Draw(x) ==
  [x EXCEPT !.draw = FALSE,
            !.frame = Shown(x.surface),
            !.reading = @ \cup ({Shown(x.surface)[t] : t \in Surfaces} \ {none})]

\* The role of the root starts a frame, or waits for the end of one.
SubsurfaceUpdate(x, s) == IF x.draw /\ Rooted(x, s) THEN Draw(x) ELSE x

\* XLReleaseBuffer, unless the role of the root must wait until the server
\* has read the buffer.
DoRelease(x, s, b) ==
  IF Rooted(x, s) /\ b \in x.reading
  THEN [x EXCEPT !.waiting = @ \cup {b}]
  ELSE [x EXCEPT !.busy = @ \ {b}]

-----------------------------------------------------------------------------
(* Commits. *)

WrongSavePendingState(x, s) ==
  [x EXCEPT !.surface[s].cached =
              IF x.surface[s].pending.attached THEN x.surface[s].pending ELSE @,
            !.surface[s].pending = InitState]

SavePendingState(x, s) ==
  LET pending == x.surface[s].pending
      cached == x.surface[s].cached
      replaced == /\ pending.attached
                  /\ cached.buffer \notin {none, pending.buffer, x.surface[s].current}
      released == IF replaced THEN DoRelease(x, s, cached.buffer) ELSE x
  IN [released EXCEPT !.surface[s].cached = IF pending.attached THEN pending ELSE cached,
                      !.surface[s].pending = InitState]

\* InternalCommit1: merge a state ("pending" or "cached") into the current one.
Merge(x, s, from) ==
  LET state == x.surface[s][from]
      old == x.surface[s].current
      released == IF old \notin {none, state.buffer} THEN DoRelease(x, s, old) ELSE x
  IN IF state.attached
     THEN [released EXCEPT !.surface[s].current = state.buffer,
                           !.surface[s][from].buffer = none]
     ELSE x

\* The rest of InternalCommit, after the commit callbacks: the commit hook
\* of the role, then the state is marked empty.
RoleCommit(x, s, from) ==
  LET update == s = Root \/ (Inserted(x, s) /\ ~x.surface[s].synchronous)
  IN [(IF update THEN SubsurfaceUpdate(x, s) ELSE x) EXCEPT !.surface[s][from].attached = FALSE]

WrongCommitOrder(x, top, from) ==
  LET order[s \in Surfaces] ==
        LET own == IF s = top THEN from ELSE "cached"
        IN <<[do |-> "merge", s |-> s, from |-> own], [do |-> "role", s |-> s, from |-> own]>>
           \o FlattenSeq([i \in 1 .. Len(x.surface[s].children) |->
                LET c == x.surface[s].children[i]
                IN <<[do |-> "insert", s |-> c, from |-> "cached"]>>
                   \o (IF x.surface[c].pending_commit THEN order[c] ELSE <<>>)
                   \o <<[do |-> "applied", s |-> c, from |-> "cached"]>>])
  IN order[top]

\* The order in which InternalCommit works: the surface, what its commit
\* callbacks do to each subsurface in the order of their creation, the role.
CommitOrder(x, top, from) ==
  LET order[s \in Surfaces] ==
        LET own == IF s = top THEN from ELSE "cached"
        IN <<[do |-> "merge", s |-> s, from |-> own]>>
           \o FlattenSeq([i \in 1 .. Len(x.surface[s].children) |->
                LET c == x.surface[s].children[i]
                IN <<[do |-> "insert", s |-> c, from |-> "cached"]>>
                   \o (IF x.surface[c].pending_commit THEN order[c] ELSE <<>>)
                   \o <<[do |-> "applied", s |-> c, from |-> "cached"]>>])
           \o <<[do |-> "role", s |-> s, from |-> own]>>
  IN order[top]

Do(x, e) ==
  CASE e.do = "merge"   -> Merge(x, e.s, e.from)
    [] e.do = "insert"  -> [x EXCEPT !.surface[e.s].uninserted = FALSE]
    [] e.do = "applied" -> [x EXCEPT !.surface[e.s].pending_commit = FALSE]
    [] e.do = "role"    -> RoleCommit(x, e.s, e.from)

InternalCommit(x, s, from) == FoldLeft(Do, x, CommitOrder(x, s, from))

\* What EarlyCommit of a subsurface leaves to InternalCommit: a cached state
\* that was not applied when the subsurface became desynchronous goes first.
MergeCachedState(x, s) ==
  IF x.surface[s].role /\ x.surface[s].pending_commit
  THEN [Merge(x, s, "cached") EXCEPT !.surface[s].pending_commit = FALSE]
  ELSE x

WrongEarlyCommit(x, s) ==
  IF x.surface[s].synchronous
  THEN [SavePendingState(x, s) EXCEPT !.surface[s].pending_commit = TRUE]
  ELSE InternalCommit(x, s, "pending")

Commit(x, s) ==
  IF x.surface[s].role /\ x.surface[s].synchronous
  THEN [SavePendingState(x, s) EXCEPT !.surface[s].pending_commit = TRUE]
  ELSE InternalCommit(MergeCachedState(x, s), s, "pending")

-----------------------------------------------------------------------------
(* Synchronization. *)

WrongSetSync1(x, s) ==
  [x EXCEPT !.surface = [t \in Surfaces |->
     IF t = s THEN [x.surface[t] EXCEPT !.synchronous = TRUE] ELSE x.surface[t]]]

SetSync1(x, s) ==
  LET below == Below(x, s)
  IN [x EXCEPT !.surface = [t \in Surfaces |->
        IF t \in below THEN [x.surface[t] EXCEPT !.synchronous = TRUE] ELSE x.surface[t]]]

\* NoteSubsurfaceTeardown, and NoteSubsurfaceDesynchronous without applying.
SetDesync1(x, s) ==
  LET desynchronized == Desynchronized(x, s)
  IN [x EXCEPT !.surface = [t \in Surfaces |->
        IF t \in desynchronized
        THEN [x.surface[t] EXCEPT !.synchronous = FALSE] ELSE x.surface[t]]]

NoteSubsurfaceDesynchronous(x, s) ==
  LET desync == [x EXCEPT !.surface[s].synchronous = FALSE]
      applied == IF x.surface[s].pending_commit
                 THEN [InternalCommit(desync, s, "cached")
                         EXCEPT !.surface[s].pending_commit = FALSE]
                 ELSE desync
  IN SetDesync1(applied, s)

\* role_type outlives the role, that IsParentSynchronous then takes for granted.
ParentRoleMissing(s) ==
  LET parent == surface[s].parent
  IN parent # none /\ surface[parent].typed /\ ~surface[parent].role

IsParentSynchronous(x, s) ==
  x.surface[s].parent # none /\ x.surface[x.surface[s].parent].synchronous

Uninserted(x, s) == [x EXCEPT !.surface[s].uninserted = TRUE]
Unlisted(x, s, parent) == [x EXCEPT !.surface[parent].children = RemoveFirst(@, s)]
Ended(x, s) ==
  [x EXCEPT !.surface[s].role = FALSE,
            !.surface[s].parent = none,
            !.surface[s].synchronous = FALSE,
            !.surface[s].should_be_desync = FALSE,
            !.surface[s].pending_commit = FALSE,
            !.surface[s].uninserted = FALSE]

UpdatedIf(shown, x, s) == IF shown THEN SubsurfaceUpdate(x, s) ELSE x

WrongTeardown(x, s) == Ended(UpdatedIf(Inserted(x, s), SetDesync1(x, s), s), s)

Teardown(x, s) ==
  LET gone == Uninserted(SetDesync1(x, s), s)
      parent == x.surface[s].parent
      removed == IF parent = none THEN gone ELSE Unlisted(gone, s, parent)
  IN Ended(UpdatedIf(Inserted(x, s), removed, s), s)

-----------------------------------------------------------------------------
(* The requests of clients. *)

\* The contents that the last commit of s asked for.
Committed(s) ==
  IF surface[s].role /\ surface[s].pending_commit /\ surface[s].cached.attached
  THEN surface[s].cached.buffer
  ELSE surface[s].current

\* Clients attach what they own, or what they committed last; the window
\* stays mapped.
Attach(s) ==
  /\ ~crashed /\ surface[s].alive
  /\ \E b \in (BuffersOf[s] \ busy) \cup {none, Committed(s)} :
       /\ s = Root => b # none
       /\ surface' = [surface EXCEPT ![s].pending = [buffer |-> b, attached |-> TRUE]]
  /\ frame' = nothing
  /\ UNCHANGED <<busy, waiting, reading, roles, crashed>>

ClientCommit(s) ==
  /\ ~crashed /\ surface[s].alive
  /\ AttachAlways => surface[s].pending.attached
  /\ \E draw \in BOOLEAN :
       Finish(Commit([Work(draw) EXCEPT !.busy = @ \cup ({surface[s].pending.buffer} \ {none})], s))
  /\ UNCHANGED <<roles, crashed>>

GetSubsurface(s, parent) ==
  /\ ~crashed /\ roles < MaxRoles
  /\ surface[s].alive /\ surface[parent].alive
  /\ ~surface[s].role
  /\ parent \notin Below(Work(FALSE), s)
  /\ Finish(SetSync1([Work(FALSE) EXCEPT
                        !.surface[s].role = TRUE,
                        !.surface[s].typed = TRUE,
                        !.surface[s].parent = parent,
                        !.surface[s].uninserted = TRUE,
                        !.surface[parent].children = Append(@, s)], s))
  /\ roles' = roles + 1
  /\ UNCHANGED crashed

DestroySubsurface(s) ==
  /\ ~crashed
  /\ s # Root /\ surface[s].role
  /\ (IF surface[s].pending_commit THEN "cached" ELSE "applied") \in Destroys
  /\ \E draw \in BOOLEAN : Finish(Teardown(Work(draw), s))
  /\ UNCHANGED <<roles, crashed>>

\* Buffers that were not released are only dereferenced.
DestroySurface(s) ==
  /\ ~crashed
  /\ s # Root /\ surface[s].alive /\ Destroys # {}
  /\ \E draw \in BOOLEAN :
       LET x == IF surface[s].role THEN Teardown(Work(draw), s) ELSE Work(draw)
       IN Finish([x EXCEPT !.surface = [t \in Surfaces |->
                    IF t = s THEN [InitSurface(t) EXCEPT !.alive = FALSE]
                    ELSE IF x.surface[t].parent = s
                         THEN [x.surface[t] EXCEPT !.parent = none]
                         ELSE x.surface[t]]])
  /\ UNCHANGED <<roles, crashed>>

SetSync(s) ==
  /\ ~crashed
  /\ s # Root /\ surface[s].role
  /\ Finish(SetSync1([Work(FALSE) EXCEPT !.surface[s].should_be_desync = FALSE], s))
  /\ UNCHANGED <<roles, crashed>>

SetDesync(s) ==
  /\ ~crashed
  /\ s # Root /\ surface[s].role
  /\ DetachedDesync \/ ~ParentRoleMissing(s)
  /\ \E draw \in BOOLEAN :
       LET x == [Work(draw) EXCEPT !.surface[s].should_be_desync = TRUE]
       IN Finish(IF ParentRoleMissing(s) \/ IsParentSynchronous(x, s) THEN x
                 ELSE NoteSubsurfaceDesynchronous(x, s))
  /\ crashed' = ParentRoleMissing(s)
  /\ UNCHANGED roles

-----------------------------------------------------------------------------
(* The frame clock and the X server. *)

\* The end of a frame draws what could not be drawn before.
FrameEnds ==
  /\ ~crashed
  /\ Finish(Draw(Work(FALSE)))
  /\ UNCHANGED <<roles, crashed>>

BufferIdleCallback(b) ==
  /\ ~crashed
  /\ b \in reading
  /\ reading' = reading \ {b}
  /\ waiting' = waiting \ {b}
  /\ busy' = IF b \in waiting THEN busy \ {b} ELSE busy
  /\ frame' = nothing
  /\ UNCHANGED <<surface, roles, crashed>>

-----------------------------------------------------------------------------

Init ==
  /\ surface = [s \in Surfaces |-> InitSurface(s)]
  /\ busy = {}
  /\ waiting = {}
  /\ reading = {}
  /\ frame = nothing
  /\ roles = 0
  /\ crashed = FALSE

Next ==
  \/ FrameEnds
  \/ \E b \in Buffers : BufferIdleCallback(b)
  \/ \E s \in Surfaces :
       \/ Attach(s) \/ ClientCommit(s)
       \/ DestroySubsurface(s) \/ DestroySurface(s)
       \/ SetSync(s) \/ SetDesync(s)
  \/ \E s \in NonRoot : \E parent \in Parents[s] : GetSubsurface(s, parent)

Spec == Init /\ [][Next]_vars

-----------------------------------------------------------------------------
(* Properties. *)

TypeOK ==
  /\ surface \in [Surfaces -> SurfaceState]
  /\ waiting \subseteq reading /\ reading \subseteq Buffers /\ busy \subseteq Buffers
  /\ frame \in [Surfaces -> Buffers \cup {none}] \cup {nothing}
  /\ \A s \in Surfaces :
       /\ IsInjective(surface[s].children)
       /\ ToSet(surface[s].children) = {t \in Surfaces : surface[t].parent = s}

\* Whether a subsurface is synchronous is kept in a flag of every subsurface,
\* updated along the tree by six requests (SetSync1, NoteSubsurfaceDesynchronous,
\* NoteSubsurfaceTeardown); it always says what the protocol defines: the
\* subsurface did not ask to be desynchronous, or its parent is synchronous.
SyncConsistent ==
  \A s \in Surfaces :
    surface[s].synchronous <=>
      /\ s # Root /\ surface[s].role
      /\ \/ ~surface[s].should_be_desync
         \/ surface[s].parent # none /\ surface[surface[s].parent].synchronous

\* The tree of surfaces implements what AtomicSurfaces promises its client:
\* nothing that was committed shows before the parent it is synchronized
\* with is applied, everything that was shows with it, and nothing else changes.
Promised ==
  INSTANCE AtomicSurfaces WITH
    Contents <- Buffers,
    shown    <- [s \in Surfaces |-> surface[s].current],
    waiting  <- [s \in Surfaces |-> IF s # Root /\ surface[s].role /\ surface[s].pending_commit
                                    THEN Committed(s) ELSE nothing],
    parent   <- [s \in Surfaces |-> surface[s].parent],
    role     <- [s \in Surfaces |-> s # Root /\ surface[s].role],
    desync   <- [s \in Surfaces |-> surface[s].should_be_desync]

AtomicCommits == Promised!Spec

\* A subsurface that a request to its parent desynchronized keeps its cached state
\* (NoteSubsurfaceDesynchronous: "avoid applying their pending state") until its
\* parent commits; it then draws, before the parent goes on to the next of its
\* subsurfaces.
DrawsBefore(c, d) ==
  /\ surface[c].pending_commit /\ ~surface[c].synchronous
  /\ surface[d].pending_commit \/ surface[d].uninserted

DrawsTooEarly ==
  \E s \in Surfaces : \E i, j \in DOMAIN surface[s].children :
    i < j /\ DrawsBefore(surface[s].children[i], surface[s].children[j])

\* A frame never shows part of an update: whatever a step draws, at whatever
\* point of a commit that applies several surfaces one after the other, is
\* what the window contained before the step or what it contains after it;
\* except in the case above.
AtomicScreen ==
  [][frame' # nothing /\ ~DrawsTooEarly => frame' \in {Shown(surface), Shown(surface')}]_vars

\* The same without an exception, which the code does not keep.
AtomicScreenAlways ==
  [][frame' # nothing => frame' \in {Shown(surface), Shown(surface')}]_vars

\* A buffer that its client committed and did not get back is held by the
\* cached or current state of its surface, or by a record of the release
\* helper: the client is not left waiting for a buffer nobody will release.
BusyBufferHeld ==
  \A s \in {t \in Surfaces : surface[t].alive} :
    \A b \in BuffersOf[s] \cap busy :
      b \in waiting \cup {surface[s].cached.buffer, surface[s].current}

\* A buffer that is displayed, or will be when the cached state is applied,
\* has not been given back to the client to draw into.
DisplayedNotReleased ==
  \A s \in Surfaces : {surface[s].current, Committed(s)} \subseteq busy \cup {none}

\* No buffer is lost, and none is given back early.
BuffersAccounted == BusyBufferHeld /\ DisplayedNotReleased

\* What a client committed last is either displayed or cached until it
\* commits again, or the role that would have applied it is destroyed.
CommitsKept ==
  [][\A s \in Surfaces :
       \/ Committed(s)' = Committed(s)
       \/ surface[s].pending.attached /\ Committed(s)' = surface[s].pending.buffer
       \/ ~surface'[s].role]_vars

=============================================================================
