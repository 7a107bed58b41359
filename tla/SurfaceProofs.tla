---------------------------- MODULE SurfaceProofs ----------------------------
(***************************************************************************)
(* Proofs about Surface: what each request does to the tree and to the     *)
(* buffers, the theorems that follow, and that it implements               *)
(* AtomicSurfaces.                                                         *)
(***************************************************************************)
EXTENDS SurfaceLemmas

-----------------------------------------------------------------------------
(* Synchronization. *)

\* What is below a surface, and what is desynchronized with it.
LEMMA BelowIs ==
  ASSUME NEW x, x.surface \in [Surfaces -> SurfaceState], Listed(x.surface), NEW s \in Surfaces
  PROVE  /\ s \in Below(x, s) /\ Below(x, s) \subseteq Surfaces
         /\ \A t \in Surfaces : t # s => (t \in Below(x, s) <=> x.surface[t].parent \in Below(x, s))
<1> DEFINE next == [t \in Surfaces |-> Children(x, t)]
<1>1. next \in [Surfaces -> SUBSET Surfaces]
  BY ChildrenAre
<1>2. \A u \in Surfaces : next[u] = {c \in Surfaces : x.surface[c].parent = u}
  BY ChildrenAre
<1>3. Below(x, s) = Reach(next, s)
  BY DEF Below
<1> HIDE DEF next
<1>4. s \in Reach(next, s) /\ Reach(next, s) \subseteq Surfaces
  BY <1>1, ReachLeast
<1>5. ASSUME NEW t \in Reach(next, s), t # s
      PROVE  x.surface[t].parent \in Reach(next, s)
  <2>1. PICK u \in Reach(next, s) : t \in next[u]
    BY <1>1, <1>5, ReachFrom
  <2> QED
    BY <1>2, <1>4, <2>1
<1>6. ASSUME NEW t \in Surfaces, x.surface[t].parent \in Reach(next, s)
      PROVE  t \in Reach(next, s)
  <2>1. t \in next[x.surface[t].parent]
    BY <1>2, <1>4, <1>6
  <2> QED
    BY <1>1, <1>6, <2>1, ReachLeast
<1> QED
  BY <1>3, <1>4, <1>5, <1>6

LEMMA DesynchronizedIs ==
  ASSUME NEW x, x.surface \in [Surfaces -> SurfaceState], Listed(x.surface), NEW s \in Surfaces
  PROVE  /\ s \in Desynchronized(x, s) /\ Desynchronized(x, s) \subseteq Surfaces
         /\ \A t \in Surfaces :
              t # s => (t \in Desynchronized(x, s) <=>
                          x.surface[t].parent \in Desynchronized(x, s) /\ x.surface[t].should_be_desync)
<1> DEFINE next == [t \in Surfaces |-> {c \in Children(x, t) : x.surface[c].should_be_desync}]
<1>1. next \in [Surfaces -> SUBSET Surfaces]
  BY ChildrenAre
<1>2. \A u \in Surfaces : next[u] = {c \in Surfaces : x.surface[c].parent = u /\ x.surface[c].should_be_desync}
  BY ChildrenAre
<1>3. Desynchronized(x, s) = Reach(next, s)
  BY DEF Desynchronized
<1> HIDE DEF next
<1>4. s \in Reach(next, s) /\ Reach(next, s) \subseteq Surfaces
  BY <1>1, ReachLeast
<1>5. ASSUME NEW t \in Reach(next, s), t # s
      PROVE  x.surface[t].parent \in Reach(next, s) /\ x.surface[t].should_be_desync
  <2>1. PICK u \in Reach(next, s) : t \in next[u]
    BY <1>1, <1>5, ReachFrom
  <2> QED
    BY <1>2, <1>4, <2>1
<1>6. ASSUME NEW t \in Surfaces, x.surface[t].parent \in Reach(next, s), x.surface[t].should_be_desync
      PROVE  t \in Reach(next, s)
  <2>1. t \in next[x.surface[t].parent]
    BY <1>2, <1>4, <1>6
  <2> QED
    BY <1>1, <1>6, <2>1, ReachLeast
<1> QED
  BY <1>3, <1>4, <1>5, <1>6

\* All of two surfaces but whether they are synchronous.
SameBut(p, q) ==
  /\ q.alive = p.alive /\ q.role = p.role /\ q.typed = p.typed
  /\ q.parent = p.parent /\ q.children = p.children
  /\ q.should_be_desync = p.should_be_desync /\ q.uninserted = p.uninserted
  /\ q.pending = p.pending /\ q.cached = p.cached /\ q.current = p.current
  /\ q.pending_commit = p.pending_commit

\* The surfaces of S become synchronous, or cease to be.
SetsSync(x, y, S, value) ==
  /\ y \in Working
  /\ y.busy = x.busy /\ y.waiting = x.waiting /\ y.reading = x.reading
  /\ y.frame = x.frame /\ y.draw = x.draw
  /\ \A t \in Surfaces :
       /\ SameBut(x.surface[t], y.surface[t])
       /\ y.surface[t].synchronous = IF t \in S THEN value ELSE x.surface[t].synchronous

LEMMA SetsSyncIs ==
  ASSUME NEW x \in Working, NEW S, NEW value \in BOOLEAN, NEW y,
         y = [x EXCEPT !.surface = [t \in Surfaces |->
                IF t \in S THEN [x.surface[t] EXCEPT !.synchronous = value] ELSE x.surface[t]]]
  PROVE  SetsSync(x, y, S, value)
<1> DEFINE f == [t \in Surfaces |->
                   IF t \in S THEN [x.surface[t] EXCEPT !.synchronous = value] ELSE x.surface[t]]
<1>1. ASSUME NEW t \in Surfaces
      PROVE  /\ f[t] \in SurfaceState /\ SameBut(x.surface[t], f[t])
             /\ f[t].synchronous = IF t \in S THEN value ELSE x.surface[t].synchronous
  <2>1. x.surface[t] \in SurfaceState
    BY DEF Working
  <2>2. CASE t \in S
    <3> DEFINE q == [x.surface[t] EXCEPT !.synchronous = value]
    <3>1. f[t] = q
      BY <2>2
    <3>2. q \in SurfaceState /\ SameBut(x.surface[t], q) /\ q.synchronous = value
      BY <2>1 DEF SurfaceState, SameBut
    <3> QED
      BY ZenonT(30), <2>2, <3>1, <3>2
  <2>3. CASE t \notin S
    <3>1. f[t] = x.surface[t]
      BY <2>3
    <3> QED
      BY <2>1, <2>3, <3>1 DEF SameBut
  <2> QED
    BY <2>2, <2>3
<1>2. y = [x EXCEPT !.surface = f]
  OBVIOUS
<1>3. f \in [Surfaces -> SurfaceState]
  <2>1. f = [t \in Surfaces |-> f[t]]
    OBVIOUS
  <2> HIDE DEF f
  <2> QED
    BY <1>1, <2>1
<1> HIDE DEF f
<1>4. /\ y \in Working /\ y.surface = f
      /\ y.busy = x.busy /\ y.waiting = x.waiting /\ y.reading = x.reading
      /\ y.frame = x.frame /\ y.draw = x.draw
  BY <1>2, <1>3 DEF Working
<1> QED
  BY <1>1, <1>4 DEF SetsSync

LEMMA SetsSyncTree ==
  ASSUME NEW x, NEW y, NEW S, NEW value, SetsSync(x, y, S, value)
  PROVE  /\ Listed(x.surface) => Listed(y.surface)
         /\ Forest(x.surface) => Forest(y.surface)
<1>1. Listed(x.surface) => Listed(y.surface)
  BY DEF Listed, SetsSync, SameBut
<1>2. \A rank : Ranked(x.surface, rank) => Ranked(y.surface, rank)
  BY DEF Ranked, SetsSync, SameBut
<1>3. ASSUME NEW s \in Surfaces, Forest(x.surface), y.surface[s].parent # none
      PROVE  s # Root /\ y.surface[s].role
  BY <1>3 DEF Forest, SetsSync, SameBut
<1> QED
  BY <1>1, <1>2, <1>3 DEF Forest

\* A surface that becomes synchronous makes those below it so.
LEMMA SetSync1Tree ==
  ASSUME NEW x \in Working, x.waiting \subseteq x.reading, Listed(x.surface), Forest(x.surface),
         NEW s \in Surfaces, s # Root, x.surface[s].role, ~x.surface[s].should_be_desync,
         \A t \in Surfaces : t # s => SyncAt(x.surface, t),
         \A t \in Surfaces : x.surface[t].should_be_desync => x.surface[t].role,
         NEW y, y = SetSync1(x, s)
  PROVE  Tree(y) /\ SetsSync(x, y, Below(x, s), TRUE)
<1> DEFINE B == Below(x, s)
<1>1. x.surface \in [Surfaces -> SurfaceState]
  BY DEF Working
<1>2. SetsSync(x, y, B, TRUE)
  <2>1. y = [x EXCEPT !.surface = [t \in Surfaces |->
               IF t \in B THEN [x.surface[t] EXCEPT !.synchronous = TRUE] ELSE x.surface[t]]]
    BY DEF SetSync1
  <2> HIDE DEF B
  <2> QED
    BY ZenonT(30), <2>1, SetsSyncIs
<1>3. /\ s \in B /\ B \subseteq Surfaces
      /\ \A t \in Surfaces : t # s => (t \in B <=> x.surface[t].parent \in B)
  BY <1>1, BelowIs
<1> HIDE DEF B
<1>4. ASSUME NEW t \in Surfaces
      PROVE  SyncAt(y.surface, t) /\ (y.surface[t].should_be_desync => y.surface[t].role)
  <2> DEFINE p == x.surface[t]
             q == y.surface[t]
  <2>1. q.role = p.role /\ q.should_be_desync = p.should_be_desync /\ q.parent = p.parent
    BY ZenonT(30), <1>2 DEF SetsSync, SameBut
  <2>2. p.parent # none => p.parent \in Surfaces /\ t # Root /\ p.role
    BY <1>1 DEF Forest, SurfaceState
  <2>3. \A u \in Surfaces : y.surface[u].synchronous = IF u \in B THEN TRUE ELSE x.surface[u].synchronous
    BY ZenonT(30), <1>2 DEF SetsSync
  <2>4. CASE t = s
    BY ZenonT(30), <1>3, <2>1, <2>3, <2>4 DEF SyncAt
  <2>5. CASE t # s /\ t \in B
    <3>1. p.parent \in B /\ p.parent \in Surfaces
      BY <1>3, <2>5
    <3>2. p.parent # none
      BY SMTT(30), <3>1, SurfacesAssumption
    <3>3. y.surface[p.parent].synchronous /\ q.synchronous
      BY ZenonT(30), <2>3, <2>5, <3>1
    <3> QED
      BY <2>1, <2>2, <3>2, <3>3 DEF SyncAt
  <2>6. CASE t \notin B
    <3>1. t # s /\ p.parent \notin B
      BY <1>3, <2>6
    <3>2. p.parent # none => y.surface[p.parent].synchronous = x.surface[p.parent].synchronous
      BY ZenonT(30), <2>2, <2>3, <3>1
    <3>3. q.synchronous = p.synchronous
      BY ZenonT(30), <2>3, <2>6
    <3> QED
      BY <2>1, <3>1, <3>2, <3>3 DEF SyncAt
  <2> QED
    BY <2>4, <2>5, <2>6
<1>5. y \in Working /\ y.waiting \subseteq y.reading
  BY <1>2 DEF SetsSync
<1> QED
  BY ZenonT(30), <1>2, <1>4, <1>5, SetsSyncTree DEF Tree, Synchronized, B

\* The surfaces that follow s once it is desynchronized, whatever was true of s itself.
LEMMA SetDesync1Tree ==
  ASSUME NEW x \in Working, Listed(x.surface), Forest(x.surface), NEW s \in Surfaces,
         \A t \in Surfaces : t # s => SyncAt(x.surface, t) \/ (x.surface[t].should_be_desync /\ x.surface[t].parent = s),
         NEW y, y = SetDesync1(x, s)
  PROVE  /\ SetsSync(x, y, Desynchronized(x, s), FALSE)
         /\ ~y.surface[s].synchronous /\ \A t \in Surfaces : t # s => SyncAt(y.surface, t)
<1> DEFINE D == Desynchronized(x, s)
<1>1. x.surface \in [Surfaces -> SurfaceState]
  BY DEF Working
<1>2. SetsSync(x, y, D, FALSE)
  <2>1. y = [x EXCEPT !.surface = [t \in Surfaces |->
               IF t \in D THEN [x.surface[t] EXCEPT !.synchronous = FALSE] ELSE x.surface[t]]]
    BY DEF SetDesync1
  <2> HIDE DEF D
  <2> QED
    BY ZenonT(30), <2>1, SetsSyncIs
<1>3. /\ s \in D /\ D \subseteq Surfaces
      /\ \A t \in Surfaces : t # s => (t \in D <=> x.surface[t].parent \in D /\ x.surface[t].should_be_desync)
  BY <1>1, DesynchronizedIs
<1> HIDE DEF D
<1>4. \A u \in Surfaces : y.surface[u].synchronous = IF u \in D THEN FALSE ELSE x.surface[u].synchronous
  BY ZenonT(30), <1>2 DEF SetsSync
<1>5. ASSUME NEW t \in Surfaces, t # s
      PROVE  SyncAt(y.surface, t)
  <2> DEFINE p == x.surface[t]
             q == y.surface[t]
  <2>1. q.role = p.role /\ q.should_be_desync = p.should_be_desync /\ q.parent = p.parent
    BY ZenonT(30), <1>2 DEF SetsSync, SameBut
  <2>2. p.parent # none => p.parent \in Surfaces /\ t # Root /\ p.role
    BY <1>1 DEF Forest, SurfaceState
  <2>3. CASE t \in D
    <3>1. p.parent \in D /\ p.parent \in Surfaces /\ p.should_be_desync
      BY <1>3, <1>5, <2>3
    <3>2. ~y.surface[p.parent].synchronous /\ ~q.synchronous
      BY ZenonT(30), <1>4, <2>3, <3>1
    <3> QED
      BY <2>1, <3>1, <3>2 DEF SyncAt
  <2>4. CASE t \notin D /\ p.parent \in D
    <3>1. ~p.should_be_desync /\ p.parent # none
      BY <1>3, <1>5, <2>4, SurfacesAssumption
    <3>2. SyncAt(x.surface, t)
      BY <1>5, <3>1
    <3>3. q.synchronous = p.synchronous
      BY ZenonT(30), <1>4, <2>4
    <3> QED
      BY <2>1, <3>1, <3>2, <3>3 DEF SyncAt
  <2>5. CASE t \notin D /\ p.parent \notin D
    <3>1. SyncAt(x.surface, t)
      BY <1>3, <1>5, <2>5
    <3>2. q.synchronous = p.synchronous
      BY ZenonT(30), <1>4, <2>5
    <3>3. p.parent # none => y.surface[p.parent].synchronous = x.surface[p.parent].synchronous
      BY <1>4, <2>2, <2>5
    <3> QED
      BY <2>1, <3>1, <3>2, <3>3 DEF SyncAt
  <2> QED
    BY <2>3, <2>4, <2>5
<1> QED
  BY ZenonT(30), <1>2, <1>3, <1>4, <1>5 DEF D

\* The same, by names.
Adrift(sf, s) ==
  \A t \in Surfaces : t # s => SyncAt(sf, t) \/ (sf[t].should_be_desync /\ sf[t].parent = s)
Settled(sf, s) == ~sf[s].synchronous /\ \A t \in Surfaces : t # s => SyncAt(sf, t)

LEMMA SetDesync1Leaves ==
  ASSUME NEW x \in Working, Listed(x.surface), Forest(x.surface), NEW s \in Surfaces,
         Adrift(x.surface, s), NEW y, y = SetDesync1(x, s)
  PROVE  SetsSync(x, y, Desynchronized(x, s), FALSE) /\ Settled(y.surface, s)
BY SetDesync1Tree DEF Adrift, Settled

-----------------------------------------------------------------------------
(* Steps that leave the buffers alone. *)

\* No buffer moves; what waited for its parent still does, unless it is empty.
SameContents(p, q) ==
  /\ q.alive = p.alive /\ q.pending = p.pending /\ q.cached = p.cached /\ q.current = p.current
  /\ q.pending_commit => p.pending_commit /\ q.role
  /\ p.pending_commit /\ p.cached.attached => q.pending_commit

LEMMA ContentsKept ==
  ASSUME NEW x, Contents(x), NEW y, y.busy = x.busy, y.waiting = x.waiting, x.reading \subseteq y.reading,
         \A t \in Surfaces : SameContents(x.surface[t], y.surface[t])
  PROVE  Contents(y)
<1>1. States(y.surface)
  BY DEF Contents, States, SameContents
<1>2. Kept(y, none)
  <2>1. \A t \in Surfaces : t # none
    BY SurfacesAssumption
  <2>2. \A t \in Surfaces : y.surface[t].alive = x.surface[t].alive /\ Held(y, t, none) = Held(x, t, none)
    BY <2>1 DEF SameContents, Held
  <2> QED
    BY <2>2, SameKept DEF Contents
<1>3. ASSUME NEW t \in Surfaces
      PROVE  OfferedAt(y, t)
  <2> DEFINE p == x.surface[t]
             q == y.surface[t]
  <2>1. SameContents(p, q) /\ OfferedAt(x, t) /\ (p.pending_commit => p.role)
    BY DEF Contents, States
  <2>2. p.pending_commit /\ p.cached.attached <=> q.pending_commit /\ q.cached.attached
    BY <2>1 DEF SameContents
  <2>3. Waits(x.surface, t) <=> Waits(y.surface, t)
    BY <2>1, <2>2 DEF SameContents, Waits
  <2>4. LastCommit(y.surface, t) = LastCommit(x.surface, t)
    BY <2>1, <2>3 DEF SameContents, LastCommit
  <2> QED
    BY <2>1, <2>4 DEF OfferedAt, SameContents
<1> QED
  BY <1>1, <1>2, <1>3 DEF Contents

LEMMA SetsSyncContents ==
  ASSUME NEW x, NEW y, NEW S, NEW value, SetsSync(x, y, S, value), Contents(x)
  PROVE  Contents(y)
<1>1. \A t \in Surfaces : x.surface[t].pending_commit => x.surface[t].role
  BY DEF Contents, States
<1>2. \A t \in Surfaces : SameContents(x.surface[t], y.surface[t])
  BY <1>1 DEF SetsSync, SameBut, SameContents
<1>3. y.busy = x.busy /\ y.waiting = x.waiting /\ x.reading \subseteq y.reading
  BY DEF SetsSync
<1> QED
  BY <1>2, <1>3, ContentsKept

\* A change of one surface.
LEMMA ChangeFields ==
  ASSUME NEW x \in Working, NEW s \in Surfaces, NEW q \in SurfaceState,
         NEW y, y = [x EXCEPT !.surface = [x.surface EXCEPT ![s] = q]]
  PROVE  /\ y \in Working /\ Others(x, y, s) /\ y.surface[s] = q
         /\ y.surface = [x.surface EXCEPT ![s] = q]
         /\ y.busy = x.busy /\ y.waiting = x.waiting /\ y.reading = x.reading
         /\ y.frame = x.frame /\ y.draw = x.draw
<1>1. x.surface \in [Surfaces -> SurfaceState]
  BY DEF Working
<1> DEFINE f == [x.surface EXCEPT ![s] = q]
<1>2. f \in [Surfaces -> SurfaceState] /\ f[s] = q /\ \A t \in Surfaces : t # s => f[t] = x.surface[t]
  BY <1>1
<1> HIDE DEF f
<1>3. /\ y \in Working /\ y.surface = f
      /\ y.busy = x.busy /\ y.waiting = x.waiting /\ y.reading = x.reading
      /\ y.frame = x.frame /\ y.draw = x.draw
  BY <1>2 DEF Working, f
<1> QED
  BY <1>2, <1>3 DEF Others, f

\* The same, by names.
Replace(x, s, q) == [x EXCEPT !.surface = [x.surface EXCEPT ![s] = q]]
Replaced(x, y, s, q) ==
  /\ y \in Working /\ Others(x, y, s) /\ SameAccounts(x, y)
  /\ y.surface[s] = q /\ y.reading = x.reading

LEMMA ReplaceFields ==
  ASSUME NEW x \in Working, NEW s \in Surfaces, NEW q \in SurfaceState, NEW y, y = Replace(x, s, q)
  PROVE  Replaced(x, y, s, q)
<1>1. x.surface \in [Surfaces -> SurfaceState]
  BY DEF Working
<1> DEFINE f == [x.surface EXCEPT ![s] = q]
<1>2. f \in [Surfaces -> SurfaceState] /\ f[s] = q /\ \A t \in Surfaces : t # s => f[t] = x.surface[t]
  BY <1>1
<1>3. y = [x EXCEPT !.surface = f]
  BY DEF Replace
<1> HIDE DEF f
<1>4. /\ y \in Working /\ y.surface = f
      /\ y.busy = x.busy /\ y.waiting = x.waiting /\ y.reading = x.reading
  BY <1>2, <1>3 DEF Working
<1> QED
  BY <1>2, <1>4 DEF Others, Replaced, SameAccounts

-----------------------------------------------------------------------------
(* The requests. *)

\* set_sync.
SetSyncResult(x, s) == SetSync1([x EXCEPT !.surface[s].should_be_desync = FALSE], s)

LEMMA SetSyncKeeps ==
  ASSUME NEW x, Tree(x), NEW s \in Surfaces, s # Root, x.surface[s].role,
         NEW y, y = SetSyncResult(x, s)
  PROVE  Tree(y) /\ (Contents(x) => Contents(y))
<1> DEFINE p == x.surface[s]
           q == [p EXCEPT !.should_be_desync = FALSE]
           m == [x EXCEPT !.surface = [x.surface EXCEPT ![s] = q]]
<1>1. x \in Working /\ p \in SurfaceState /\ x.surface \in [Surfaces -> SurfaceState]
  BY DEF Tree, Working
<1>2. y = SetSync1(m, s)
  BY DEF SetSyncResult
<1>3. /\ q \in SurfaceState /\ ~q.should_be_desync
      /\ q.alive = p.alive /\ q.role = p.role /\ q.typed = p.typed
      /\ q.parent = p.parent /\ q.children = p.children /\ q.synchronous = p.synchronous
      /\ SameContents(p, q) \/ ~(p.pending_commit => p.role)
  BY ZenonT(30), <1>1 DEF SurfaceState, SameContents
<1> HIDE DEF q
<1>4. /\ m \in Working /\ Others(x, m, s) /\ m.surface[s] = q
      /\ m.busy = x.busy /\ m.waiting = x.waiting /\ m.reading = x.reading
  BY <1>1, <1>3, ChangeFields
<1> HIDE DEF m
<1>5. \A t \in Surfaces :
        /\ m.surface[t].parent = x.surface[t].parent /\ m.surface[t].children = x.surface[t].children
        /\ m.surface[t].role = x.surface[t].role /\ m.surface[t].synchronous = x.surface[t].synchronous
        /\ t # s => m.surface[t].should_be_desync = x.surface[t].should_be_desync
  BY ZenonT(30), <1>3, <1>4 DEF Others
<1>6. Listed(m.surface) /\ Forest(m.surface)
  <2>1. Listed(m.surface)
    BY <1>5 DEF Tree, Listed
  <2>2. \A rank : Ranked(x.surface, rank) => Ranked(m.surface, rank)
    BY <1>5 DEF Ranked
  <2>3. \A t \in Surfaces : m.surface[t].parent # none => t # Root /\ m.surface[t].role
    BY <1>5 DEF Tree, Forest
  <2> QED
    BY <2>1, <2>2, <2>3 DEF Tree, Forest
<1>7. ASSUME NEW t \in Surfaces, t # s
      PROVE  SyncAt(m.surface, t)
  <2>1. x.surface[t].parent # none => x.surface[t].parent \in Surfaces
    BY <1>1 DEF SurfaceState
  <2>2. SyncAt(x.surface, t)
    BY DEF Tree, Synchronized
  <2> QED
    BY SMTT(30), <1>5, <1>7, <2>1, <2>2 DEF SyncAt
<1>8. \A t \in Surfaces : m.surface[t].should_be_desync => m.surface[t].role
  BY <1>3, <1>4, <1>5 DEF Tree, Synchronized
<1>9. m.waiting \subseteq m.reading /\ m.surface[s].role /\ ~m.surface[s].should_be_desync
  BY ZenonT(30), <1>3, <1>4 DEF Tree
<1>10. Tree(y) /\ SetsSync(m, y, Below(m, s), TRUE)
  BY ZenonT(30), <1>2, <1>4, <1>6, <1>7, <1>8, <1>9, SetSync1Tree
<1>11. ASSUME Contents(x)
       PROVE  Contents(y)
  <2>1. \A t \in Surfaces : x.surface[t].pending_commit => x.surface[t].role
    BY <1>11 DEF Contents, States
  <2>2. \A t \in Surfaces : SameContents(x.surface[t], m.surface[t])
    BY ZenonT(30), <1>3, <1>4, <2>1 DEF Others, SameContents
  <2>3. Contents(m)
    BY <1>4, <1>11, <2>2, ContentsKept
  <2> QED
    BY <1>10, <2>3, SetsSyncContents
<1> QED
  BY <1>10, <1>11

\* get_subsurface.
Linked(x, s, parent) ==
  [x EXCEPT !.surface[s].role = TRUE,
            !.surface[s].typed = TRUE,
            !.surface[s].parent = parent,
            !.surface[s].uninserted = TRUE,
            !.surface[parent].children = Append(@, s)]

\* What becomes of the surfaces when s is linked to parent.
LinkedWith(x, y, s, parent) ==
  /\ y \in Working
  /\ y.busy = x.busy /\ y.waiting = x.waiting /\ y.reading = x.reading
  /\ y.surface[s].role /\ y.surface[s].parent = parent
  /\ y.surface[parent].children = Append(x.surface[parent].children, s)
  /\ \A t \in Surfaces :
       /\ t # s => y.surface[t].role = x.surface[t].role /\ y.surface[t].parent = x.surface[t].parent
       /\ t # parent => y.surface[t].children = x.surface[t].children
       /\ y.surface[t].synchronous = x.surface[t].synchronous
       /\ y.surface[t].should_be_desync = x.surface[t].should_be_desync
       /\ y.surface[t].alive = x.surface[t].alive /\ y.surface[t].pending = x.surface[t].pending
       /\ y.surface[t].cached = x.surface[t].cached /\ y.surface[t].current = x.surface[t].current
       /\ y.surface[t].pending_commit = x.surface[t].pending_commit

LEMMA LinkedFields ==
  ASSUME NEW x \in Working, NEW s \in Surfaces, NEW parent \in Surfaces, parent # s,
         NEW y, y = Linked(x, s, parent)
  PROVE  LinkedWith(x, y, s, parent)
<1> DEFINE p == x.surface[s]
           r == x.surface[parent]
           q == [p EXCEPT !.role = TRUE, !.typed = TRUE, !.parent = parent, !.uninserted = TRUE]
           list == Append(r.children, s)
           u == [r EXCEPT !.children = list]
           both == [x.surface EXCEPT ![s] = q, ![parent] = u]
<1>1. p \in SurfaceState /\ r \in SurfaceState /\ x.surface \in [Surfaces -> SurfaceState]
  BY DEF Working
<1>2. /\ q \in SurfaceState /\ q.role /\ q.parent = parent /\ q.children = p.children
      /\ q.synchronous = p.synchronous /\ q.should_be_desync = p.should_be_desync
      /\ q.alive = p.alive /\ q.pending = p.pending /\ q.cached = p.cached /\ q.current = p.current
      /\ q.pending_commit = p.pending_commit
  BY ZenonT(30), <1>1 DEF SurfaceState
<1>3. list \in Seq(Surfaces)
  <2>1. r.children \in Seq(Surfaces)
    BY <1>1 DEF SurfaceState
  <2> QED
    BY <2>1
<1> HIDE DEF list
<1>4. /\ u \in SurfaceState /\ u.children = list /\ u.role = r.role /\ u.parent = r.parent
      /\ u.synchronous = r.synchronous /\ u.should_be_desync = r.should_be_desync
      /\ u.alive = r.alive /\ u.pending = r.pending /\ u.cached = r.cached /\ u.current = r.current
      /\ u.pending_commit = r.pending_commit
  BY ZenonT(30), <1>1, <1>3 DEF SurfaceState
<1>5. y = [x EXCEPT !.surface = both]
  <2>1. y = [x EXCEPT !.surface = y.surface]
    BY ZenonT(30) DEF Linked, Working
  <2>2. y.surface = both
    <3>1. /\ y.surface[s] = q /\ y.surface[parent] = u
          /\ \A t \in Surfaces \ {s, parent} : y.surface[t] = x.surface[t]
      BY ZenonT(30), <1>1 DEF Linked, Working, list
    <3>2. y.surface = [t \in Surfaces |-> y.surface[t]]
      BY ZenonT(30), <1>1 DEF Linked, Working
    <3> HIDE DEF q, u
    <3>3. /\ both = [t \in Surfaces |-> both[t]] /\ both[s] = q /\ both[parent] = u
          /\ \A t \in Surfaces \ {s, parent} : both[t] = x.surface[t]
      BY <1>1
    <3> HIDE DEF both
    <3>4. \A t \in Surfaces : y.surface[t] = both[t]
      BY <3>1, <3>3
    <3> QED
      BY <3>2, <3>3, <3>4
  <2> QED
    BY <2>1, <2>2
<1> HIDE DEF q, u
<1>6. /\ both \in [Surfaces -> SurfaceState] /\ both[s] = q /\ both[parent] = u
      /\ \A t \in Surfaces : t # s /\ t # parent => both[t] = x.surface[t]
  BY <1>1, <1>2, <1>4
<1> HIDE DEF both
<1>7. /\ y \in Working /\ y.surface = both
      /\ y.busy = x.busy /\ y.waiting = x.waiting /\ y.reading = x.reading
  BY <1>5, <1>6 DEF Working
<1>8. /\ y.surface[s] = q /\ y.surface[parent] = u
      /\ \A t \in Surfaces : t # s /\ t # parent => y.surface[t] = x.surface[t]
  BY SMTT(30), <1>6, <1>7
<1> HIDE DEF p, r
<1>9. ASSUME NEW t \in Surfaces
      PROVE  /\ t # s => y.surface[t].role = x.surface[t].role /\ y.surface[t].parent = x.surface[t].parent
             /\ t # parent => y.surface[t].children = x.surface[t].children
             /\ y.surface[t].synchronous = x.surface[t].synchronous
             /\ y.surface[t].should_be_desync = x.surface[t].should_be_desync
             /\ y.surface[t].alive = x.surface[t].alive /\ y.surface[t].pending = x.surface[t].pending
             /\ y.surface[t].cached = x.surface[t].cached /\ y.surface[t].current = x.surface[t].current
             /\ y.surface[t].pending_commit = x.surface[t].pending_commit
  <2>1. CASE t = s
    BY <1>2, <1>8, <2>1 DEF p
  <2>2. CASE t = parent
    BY <1>4, <1>8, <2>2 DEF r
  <2>3. CASE t # s /\ t # parent
    BY <1>8, <2>3
  <2> QED
    BY <2>1, <2>2, <2>3
<1> QED
  BY <1>2, <1>4, <1>7, <1>8, <1>9 DEF LinkedWith, r, list

LEMMA GetSubsurfaceKeeps ==
  ASSUME NEW x, Tree(x), NEW s \in Surfaces, s # Root, ~x.surface[s].role,
         NEW parent \in Surfaces, parent \notin Below(x, s),
         NEW y, y = SetSync1(Linked(x, s, parent), s)
  PROVE  Tree(y) /\ (Contents(x) => Contents(y))
<1> DEFINE m == Linked(x, s, parent)
<1>1. x \in Working /\ x.surface \in [Surfaces -> SurfaceState]
  BY DEF Tree, Working
<1>2. /\ s \in Below(x, s) /\ Below(x, s) \subseteq Surfaces
      /\ \A t \in Surfaces : t # s => (t \in Below(x, s) <=> x.surface[t].parent \in Below(x, s))
  BY <1>1, BelowIs DEF Tree
<1>3. parent # s
  BY SMTT(30), <1>2
<1>4. /\ m \in Working
      /\ m.busy = x.busy /\ m.waiting = x.waiting /\ m.reading = x.reading
      /\ m.surface[s].role /\ m.surface[s].parent = parent
      /\ m.surface[parent].children = Append(x.surface[parent].children, s)
  BY <1>1, <1>3, LinkedFields DEF LinkedWith
<1>5. \A t \in Surfaces :
        /\ t # s => m.surface[t].role = x.surface[t].role /\ m.surface[t].parent = x.surface[t].parent
        /\ t # parent => m.surface[t].children = x.surface[t].children
        /\ m.surface[t].synchronous = x.surface[t].synchronous
        /\ m.surface[t].should_be_desync = x.surface[t].should_be_desync
        /\ m.surface[t].alive = x.surface[t].alive /\ m.surface[t].pending = x.surface[t].pending
        /\ m.surface[t].cached = x.surface[t].cached /\ m.surface[t].current = x.surface[t].current
        /\ m.surface[t].pending_commit = x.surface[t].pending_commit
  BY <1>1, <1>3, LinkedFields DEF LinkedWith
<1> HIDE DEF m
<1>6. x.surface[s].parent = none
  BY DEF Tree, Forest
<1>7. Listed(m.surface)
  <2> SUFFICES ASSUME NEW t \in Surfaces
               PROVE  /\ IsInjective(m.surface[t].children)
                      /\ ToSet(m.surface[t].children) = {u \in Surfaces : m.surface[u].parent = t}
    BY DEF Listed
  <2>1. /\ IsInjective(x.surface[t].children)
        /\ ToSet(x.surface[t].children) = {u \in Surfaces : x.surface[u].parent = t}
        /\ x.surface[t].children \in Seq(Surfaces)
    BY <1>1 DEF Tree, Listed, SurfaceState
  <2>2. CASE t # parent
    <3>1. {u \in Surfaces : m.surface[u].parent = t} = {u \in Surfaces : x.surface[u].parent = t}
      BY <1>4, <1>5, <1>6, <2>2, SurfacesAssumption
    <3> QED
      BY <1>5, <2>1, <2>2, <3>1
  <2>3. CASE t = parent
    <3> DEFINE list == x.surface[parent].children
               longer == Append(list, s)
    <3>1. list \in Seq(Surfaces) /\ IsInjective(list) /\ ToSet(list) = {u \in Surfaces : x.surface[u].parent = parent}
      BY <2>1, <2>3
    <3>2. s \notin ToSet(list)
      BY SMTT(30), <1>6, <3>1, SurfacesAssumption
    <3>3. {u \in Surfaces : m.surface[u].parent = t} = ToSet(list) \cup {s}
      BY <1>4, <1>5, <2>3, <3>1
    <3>4. m.surface[t].children = longer
      BY <1>4, <2>3
    <3> HIDE DEF list
    <3>5. ToSet(longer) = ToSet(list) \cup {s}
      <4>1. Len(longer) = Len(list) + 1 /\ DOMAIN longer = 1 .. Len(list) + 1 /\ DOMAIN list = 1 .. Len(list)
            /\ Len(list) \in Nat
        BY <3>1
      <4>2. longer[Len(list) + 1] = s /\ \A i \in 1 .. Len(list) : longer[i] = list[i]
        BY <3>1
      <4> HIDE DEF longer
      <4>3. 1 .. Len(list) + 1 = (1 .. Len(list)) \cup {Len(list) + 1}
        BY <4>1
      <4> QED
        BY <4>1, <4>2, <4>3 DEF ToSet
    <3>6. IsInjective(longer)
      <4>1. DOMAIN longer = 1 .. Len(list) + 1 /\ DOMAIN list = 1 .. Len(list) /\ Len(list) \in Nat
        BY <3>1
      <4>2. longer[Len(list) + 1] = s /\ \A i \in 1 .. Len(list) : longer[i] = list[i]
        BY <3>1
      <4>3. \A i \in 1 .. Len(list) : list[i] # s
        BY <3>2, <4>1 DEF ToSet
      <4> HIDE DEF longer
      <4> QED
        BY <3>1, <4>1, <4>2, <4>3 DEF IsInjective
    <3> QED
      BY <3>3, <3>4, <3>5, <3>6
  <2> QED
    BY <2>2, <2>3
<1>8. Forest(m.surface)
  <2>1. \A t \in Surfaces : m.surface[t].parent # none => t # Root /\ m.surface[t].role
    BY <1>4, <1>5 DEF Tree, Forest
  <2>2. PICK n \in Nat : \E rank \in [Surfaces -> 0 .. n] : Ranked(x.surface, rank)
    BY DEF Tree, Forest
  <2>3. PICK rank \in [Surfaces -> 0 .. n] : Ranked(x.surface, rank)
    BY <2>2
  <2> DEFINE up == [t \in Surfaces |-> IF t \in Below(x, s) THEN rank[t] ELSE rank[t] + n + 1]
             k == n + n + 1
  <2>4. k \in Nat /\ up \in [Surfaces -> 0 .. k]
    <3>1. \A t \in Surfaces : up[t] \in 0 .. k
      BY <2>3
    <3> QED
      BY <3>1
  <2>5. ASSUME NEW t \in Surfaces, m.surface[t].parent # none
        PROVE  up[t] < up[m.surface[t].parent]
    <3> DEFINE u == m.surface[t].parent
    <3>1. u \in Surfaces
      BY <1>4, <2>5 DEF Working, SurfaceState
    <3>2. rank[t] \in 0 .. n /\ rank[u] \in 0 .. n
      BY <2>3, <3>1
    <3>3. CASE t = s
      BY <1>2, <1>4, <3>1, <3>2, <3>3
    <3>4. CASE t # s
      <4>1. u = x.surface[t].parent /\ rank[t] < rank[u]
        BY <1>5, <2>3, <2>5, <3>4 DEF Ranked
      <4>2. t \in Below(x, s) <=> u \in Below(x, s)
        BY <1>2, <3>4, <4>1
      <4> HIDE DEF u
      <4> QED
        BY <3>1, <3>2, <4>1, <4>2 DEF u
    <3> QED
      BY <3>3, <3>4
  <2> HIDE DEF up, k
  <2>6. Ranked(m.surface, up)
    BY <2>5 DEF Ranked
  <2>7. \E g \in [Surfaces -> 0 .. k] : Ranked(m.surface, g)
    BY <2>4, <2>6
  <2> QED
    BY <2>1, <2>4, <2>7 DEF Forest
<1>9. ASSUME NEW t \in Surfaces, t # s
      PROVE  SyncAt(m.surface, t)
  <2>1. x.surface[t].parent # none => x.surface[t].parent \in Surfaces
    BY <1>1 DEF SurfaceState
  <2>2. SyncAt(x.surface, t)
    BY DEF Tree, Synchronized
  <2> QED
    BY SMTT(30), <1>5, <1>9, <2>1, <2>2 DEF SyncAt
<1>10. \A t \in Surfaces : m.surface[t].should_be_desync => m.surface[t].role
  BY <1>4, <1>5 DEF Tree, Synchronized
<1>11. m.waiting \subseteq m.reading /\ ~m.surface[s].should_be_desync
  BY <1>4, <1>5 DEF Tree, Synchronized
<1>12. Tree(y) /\ SetsSync(m, y, Below(m, s), TRUE)
  BY ZenonT(30), <1>4, <1>7, <1>8, <1>9, <1>10, <1>11, SetSync1Tree DEF m
<1>13. ASSUME Contents(x)
       PROVE  Contents(y)
  <2>1. \A t \in Surfaces : x.surface[t].pending_commit => x.surface[t].role
    BY <1>13 DEF Contents, States
  <2>2. \A t \in Surfaces : SameContents(x.surface[t], m.surface[t])
    BY <1>4, <1>5, <2>1 DEF SameContents
  <2>3. Contents(m)
    BY <1>4, <1>13, <2>2, ContentsKept
  <2> QED
    BY ZenonT(30), <1>12, <2>3, SetsSyncContents
<1> QED
  BY <1>12, <1>13

\* set_desync.
LEMMA ChangeTree ==
  ASSUME NEW x \in Working, NEW s \in Surfaces, NEW y, Others(x, y, s),
         y.surface[s].parent = x.surface[s].parent, y.surface[s].children = x.surface[s].children,
         y.surface[s].role = x.surface[s].role
  PROVE  /\ Listed(x.surface) => Listed(y.surface)
         /\ Forest(x.surface) => Forest(y.surface)
<1>1. \A t \in Surfaces :
        /\ y.surface[t].parent = x.surface[t].parent /\ y.surface[t].children = x.surface[t].children
        /\ y.surface[t].role = x.surface[t].role
  BY DEF Others
<1>2. Listed(x.surface) => Listed(y.surface)
  BY <1>1 DEF Listed
<1>3. \A rank : Ranked(x.surface, rank) => Ranked(y.surface, rank)
  BY <1>1 DEF Ranked
<1>4. ASSUME NEW t \in Surfaces, Forest(x.surface), y.surface[t].parent # none
      PROVE  t # Root /\ y.surface[t].role
  BY <1>1, <1>4 DEF Forest
<1> QED
  BY <1>2, <1>3, <1>4 DEF Forest

LEMMA SyncAtSame ==
  ASSUME NEW sf \in [Surfaces -> SurfaceState], NEW tf, NEW t \in Surfaces, SyncAt(sf, t),
         tf[t].role = sf[t].role, tf[t].parent = sf[t].parent,
         tf[t].should_be_desync = sf[t].should_be_desync, tf[t].synchronous = sf[t].synchronous,
         sf[t].parent # none => tf[sf[t].parent].synchronous = sf[sf[t].parent].synchronous
  PROVE  SyncAt(tf, t)
BY DEF SyncAt

DesyncAsked(x, s) == [x EXCEPT !.surface[s].should_be_desync = TRUE]

LEMMA DesyncAskedKeeps ==
  ASSUME NEW x, Tree(x), NEW s \in Surfaces, x.surface[s].role,
         NEW y, y = DesyncAsked(x, s)
  PROVE  /\ y \in Working /\ y.waiting \subseteq y.reading /\ Listed(y.surface) /\ Forest(y.surface)
         /\ \A t \in Surfaces : t # s => SyncAt(y.surface, t)
         /\ \A t \in Surfaces : y.surface[t].should_be_desync => y.surface[t].role
         /\ y.surface[s].should_be_desync /\ y.surface[s].role
         /\ y.surface[s].parent = x.surface[s].parent
         /\ \A t \in Surfaces : y.surface[t].synchronous = x.surface[t].synchronous
         /\ Contents(x) => Contents(y)
<1> DEFINE p == x.surface[s]
           q == [p EXCEPT !.should_be_desync = TRUE]
<1>1. x \in Working /\ p \in SurfaceState /\ x.surface \in [Surfaces -> SurfaceState]
  BY DEF Tree, Working
<1>2. y = [x EXCEPT !.surface = [x.surface EXCEPT ![s] = q]]
  BY DEF DesyncAsked
<1>3. /\ q \in SurfaceState /\ q.should_be_desync
      /\ q.role = p.role /\ q.parent = p.parent /\ q.children = p.children /\ q.synchronous = p.synchronous
      /\ SameContents(p, q) \/ ~(p.pending_commit => p.role)
  BY ZenonT(30), <1>1 DEF SurfaceState, SameContents
<1> HIDE DEF q
<1>4. /\ y \in Working /\ Others(x, y, s) /\ y.surface[s] = q
      /\ y.busy = x.busy /\ y.waiting = x.waiting /\ y.reading = x.reading
  BY <1>1, <1>2, <1>3, ChangeFields
<1>5. Listed(y.surface) /\ Forest(y.surface)
  BY ZenonT(30), <1>1, <1>3, <1>4, ChangeTree DEF Tree
<1>6. \A t \in Surfaces :
        /\ y.surface[t].parent = x.surface[t].parent /\ y.surface[t].role = x.surface[t].role
        /\ y.surface[t].synchronous = x.surface[t].synchronous
        /\ t # s => y.surface[t].should_be_desync = x.surface[t].should_be_desync
  BY ZenonT(30), <1>3, <1>4 DEF Others
<1>7. ASSUME NEW t \in Surfaces, t # s
      PROVE  SyncAt(y.surface, t)
  <2>1. SyncAt(x.surface, t)
    BY DEF Tree, Synchronized
  <2>2. x.surface[t].parent # none => x.surface[t].parent \in Surfaces
    BY <1>1 DEF SurfaceState
  <2> QED
    BY <1>1, <1>6, <1>7, <2>1, <2>2, SyncAtSame
<1>8. \A t \in Surfaces : y.surface[t].should_be_desync => y.surface[t].role
  BY <1>3, <1>4, <1>6 DEF Tree, Synchronized
<1>9. ASSUME Contents(x)
      PROVE  Contents(y)
  <2>1. \A t \in Surfaces : x.surface[t].pending_commit => x.surface[t].role
    BY <1>9 DEF Contents, States
  <2>2. \A t \in Surfaces : SameContents(x.surface[t], y.surface[t])
    BY ZenonT(30), <1>3, <1>4, <2>1 DEF Others, SameContents
  <2> QED
    BY <1>4, <1>9, <2>2, ContentsKept
<1> QED
  BY <1>3, <1>4, <1>5, <1>6, <1>7, <1>8, <1>9 DEF Tree

\* The parent is synchronous: nothing else changes.
LEMMA DesyncAskedTree ==
  ASSUME NEW x, Tree(x), NEW s \in Surfaces, s # Root, x.surface[s].role,
         NEW y, y = DesyncAsked(x, s), IsParentSynchronous(y, s)
  PROVE  Tree(y)
<1>1. /\ y \in Working /\ y.waiting \subseteq y.reading /\ Listed(y.surface) /\ Forest(y.surface)
      /\ \A t \in Surfaces : t # s => SyncAt(y.surface, t)
      /\ \A t \in Surfaces : y.surface[t].should_be_desync => y.surface[t].role
      /\ y.surface[s].role
      /\ y.surface[s].parent = x.surface[s].parent
      /\ \A t \in Surfaces : y.surface[t].synchronous = x.surface[t].synchronous
  BY DesyncAskedKeeps
<1>2. SyncAt(x.surface, s) /\ x.surface \in [Surfaces -> SurfaceState]
  BY DEF Tree, Synchronized, Working
<1>3. x.surface[s].parent \in Surfaces /\ x.surface[s].parent # none /\ x.surface[x.surface[s].parent].synchronous
  BY <1>1, <1>2 DEF IsParentSynchronous, SurfaceState
<1>4. SyncAt(y.surface, s)
  BY <1>1, <1>2, <1>3 DEF SyncAt
<1> QED
  BY <1>1, <1>4 DEF Tree, Synchronized

\* The parent is not: what waited for it is applied.
Desynced(x, s) == [x EXCEPT !.surface[s].synchronous = FALSE]
Unwaiting(x, s) == [x EXCEPT !.surface[s].pending_commit = FALSE]

LEMMA DesyncedFields ==
  ASSUME NEW x \in Working, NEW s \in Surfaces, NEW y, y = Desynced(x, s)
  PROVE  /\ y \in Working /\ Others(x, y, s) /\ SameAccounts(x, y) /\ y.reading = x.reading
         /\ SameBut(x.surface[s], y.surface[s]) /\ ~y.surface[s].synchronous
<1> DEFINE p == x.surface[s]
           q == [p EXCEPT !.synchronous = FALSE]
<1>1. p \in SurfaceState
  BY DEF Working
<1>2. y = Replace(x, s, q)
  BY DEF Desynced, Replace
<1>3. q \in SurfaceState /\ SameBut(p, q) /\ ~q.synchronous
  BY ZenonT(30), <1>1 DEF SurfaceState, SameBut
<1> HIDE DEF q
<1>4. Replaced(x, y, s, q)
  BY <1>2, <1>3, ReplaceFields
<1> QED
  BY <1>3, <1>4 DEF Replaced

LEMMA UnwaitingFields ==
  ASSUME NEW x \in Working, NEW s \in Surfaces, NEW y, y = Unwaiting(x, s)
  PROVE  /\ y \in Working /\ Others(x, y, s) /\ SameAccounts(x, y) /\ y.reading = x.reading
         /\ SameNode(x.surface[s], y.surface[s])
         /\ ~x.surface[s].cached.attached => SameContents(x.surface[s], y.surface[s])
<1> DEFINE p == x.surface[s]
           q == [p EXCEPT !.pending_commit = FALSE]
<1>1. p \in SurfaceState
  BY DEF Working
<1>2. y = Replace(x, s, q)
  BY DEF Unwaiting, Replace
<1>3. q \in SurfaceState /\ SameNode(p, q) /\ (~p.cached.attached => SameContents(p, q))
  BY ZenonT(30), <1>1 DEF SurfaceState, SameNode, SameContents
<1> HIDE DEF q
<1>4. Replaced(x, y, s, q)
  BY <1>2, <1>3, ReplaceFields
<1> QED
  BY <1>3, <1>4 DEF Replaced

LEMMA DesynchronousKeeps ==
  ASSUME NEW x, Tree(x), NEW s \in Surfaces, s # Root, x.surface[s].role,
         NEW m, m = DesyncAsked(x, s), ~IsParentSynchronous(m, s),
         NEW y, y = NoteSubsurfaceDesynchronous(m, s)
  PROVE  Tree(y) /\ (Contents(x) => Contents(y))
<1> DEFINE d == Desynced(m, s)
           c == InternalCommit(d, s, "cached")
           a == Unwaiting(c, s)
           z == IF m.surface[s].pending_commit THEN a ELSE d
<1>1. /\ m \in Working /\ m.waiting \subseteq m.reading /\ Listed(m.surface) /\ Forest(m.surface)
      /\ \A t \in Surfaces : t # s => SyncAt(m.surface, t)
      /\ \A t \in Surfaces : m.surface[t].should_be_desync => m.surface[t].role
      /\ m.surface[s].should_be_desync /\ m.surface[s].role
      /\ Contents(x) => Contents(m)
  BY DesyncAskedKeeps
<1>2. y = SetDesync1(z, s)
  BY DEF NoteSubsurfaceDesynchronous, Desynced, Unwaiting
<1>3. m.surface \in [Surfaces -> SurfaceState] /\ m.surface[s] \in SurfaceState
  BY <1>1 DEF Working
\* d
<1>6. /\ d \in Working /\ Others(m, d, s) /\ SameAccounts(m, d) /\ d.reading = m.reading
      /\ SameBut(m.surface[s], d.surface[s]) /\ ~d.surface[s].synchronous
  BY <1>1, DesyncedFields
<1> HIDE DEF d
<1>7. Listed(d.surface) /\ Forest(d.surface)
  BY ZenonT(30), <1>1, <1>6, ChangeTree DEF SameBut
<1>8. \A t \in Surfaces :
        /\ SameBut(m.surface[t], d.surface[t])
        /\ t # s => d.surface[t].synchronous = m.surface[t].synchronous
  BY <1>6 DEF Others, SameBut
<1>9. ASSUME NEW t \in Surfaces, t # s
      PROVE  SyncAt(d.surface, t) \/ (d.surface[t].should_be_desync /\ d.surface[t].parent = s)
  <2>1. m.surface[t].parent # none => m.surface[t].parent \in Surfaces
    BY <1>3 DEF SurfaceState
  <2>2. /\ SyncAt(m.surface, t)
        /\ d.surface[t].role = m.surface[t].role /\ d.surface[t].parent = m.surface[t].parent
        /\ d.surface[t].should_be_desync = m.surface[t].should_be_desync
        /\ d.surface[t].synchronous = m.surface[t].synchronous
    BY <1>1, <1>8, <1>9 DEF SameBut
  <2>3. CASE m.surface[t].parent # s
    <3>1. m.surface[t].parent # none =>
            d.surface[m.surface[t].parent].synchronous = m.surface[m.surface[t].parent].synchronous
      BY <1>8, <2>1, <2>3
    <3> QED
      BY <1>3, <2>2, <3>1, SyncAtSame
  <2>4. CASE m.surface[t].parent = s /\ ~m.surface[t].should_be_desync
    BY <2>2, <2>4 DEF SyncAt
  <2>5. CASE m.surface[t].parent = s /\ m.surface[t].should_be_desync
    BY <2>2, <2>5
  <2> QED
    BY <2>3, <2>4, <2>5
<1>10. ASSUME Contents(x)
       PROVE  Contents(d)
  <2>1. Contents(m)
    BY <1>1, <1>10
  <2>2. \A t \in Surfaces : m.surface[t].pending_commit => m.surface[t].role
    BY <2>1 DEF Contents, States
  <2>3. \A t \in Surfaces : SameContents(m.surface[t], d.surface[t])
    BY <1>8, <2>2 DEF SameBut, SameContents
  <2> QED
    BY <1>6, <2>1, <2>3, ContentsKept DEF SameAccounts
\* c and a
<1>11. /\ c \in Working /\ (d.waiting \subseteq d.reading => c.waiting \subseteq c.reading)
       /\ \A t \in Surfaces : Outcome(d.surface[t], c.surface[t], From(t, s, "cached"), t \in Applied(d, s),
                                      d.surface[t].parent \in Applied(d, s))
  BY SMTT(30), <1>6, <1>7, CommitOutcome
<1>12. \A t \in Surfaces : SameNode(d.surface[t], c.surface[t])
  BY <1>11 DEF Outcome, Progressed
<1>13. ~c.surface[s].cached.attached
  <2>1. d.surface \in [Surfaces -> SurfaceState]
    BY <1>6 DEF Working
  <2>2. s \in Applied(d, s) /\ From(s, s, "cached") = "cached"
    BY <1>7, <2>1, AppliedBelow DEF From
  <2> QED
    BY <1>11, <2>2 DEF Outcome, Progressed
<1>14. ASSUME Contents(x), m.surface[s].pending_commit
       PROVE  Contents(c)
  <2>1. States(d.surface) /\ Kept(d, none) /\ \A t \in Surfaces : OfferedAt(d, t)
    BY <1>10, <1>14 DEF Contents
  <2>2. d.surface[s].pending_commit
    BY <1>8, <1>14 DEF SameBut
  <2>3. Committing(s, "cached") = none
    BY DEF Committing
  <2>4. Leaves(d, c, none)
    BY <1>6, <1>7, <2>1, <2>2, <2>3, AfterCommit
  <2>5. \A t \in Surfaces : t # none
    BY SurfacesAssumption
  <2>6. ASSUME NEW t \in Surfaces
        PROVE  OfferedAt(c, t)
    BY <2>1, <2>4, <2>5 DEF Leaves, OfferedAt
  <2> QED
    BY <2>4, <2>6 DEF Leaves, Contents
<1> HIDE DEF c
<1>18. /\ a \in Working /\ Others(c, a, s) /\ SameAccounts(c, a) /\ a.reading = c.reading
       /\ SameNode(c.surface[s], a.surface[s]) /\ SameContents(c.surface[s], a.surface[s])
  BY <1>11, <1>13, UnwaitingFields
<1> HIDE DEF a
<1>19. \A t \in Surfaces : SameNode(d.surface[t], a.surface[t])
  BY <1>12, <1>18 DEF Others, SameNode
<1>20. ASSUME Contents(x), m.surface[s].pending_commit
       PROVE  Contents(a)
  <2>1. Contents(c)
    BY <1>14, <1>20
  <2>2. \A t \in Surfaces : c.surface[t].pending_commit => c.surface[t].role
    BY <2>1 DEF Contents, States
  <2>3. \A t \in Surfaces : SameContents(c.surface[t], a.surface[t])
    BY <1>18, <2>2 DEF Others, SameContents
  <2> QED
    BY <1>18, <2>1, <2>3, ContentsKept DEF SameAccounts
\* z
<1>21. /\ z \in Working /\ z.waiting \subseteq z.reading
       /\ \A t \in Surfaces : SameNode(d.surface[t], z.surface[t])
       /\ Contents(x) => Contents(z)
  <2>1. CASE m.surface[s].pending_commit
    <3>1. z = a
      BY <2>1
    <3>2. d.waiting \subseteq d.reading
      BY <1>1, <1>6 DEF SameAccounts
    <3>3. a.waiting \subseteq a.reading
      BY <1>11, <1>18, <3>2 DEF SameAccounts
    <3> QED
      BY <1>18, <1>19, <1>20, <2>1, <3>1, <3>3
  <2>2. CASE ~m.surface[s].pending_commit
    <3>1. z = d
      BY <2>2
    <3> QED
      BY <1>1, <1>6, <1>10, <3>1 DEF SameNode, SameAccounts
  <2> QED
    BY <2>1, <2>2
<1> HIDE DEF z
<1>22. d.surface \in [Surfaces -> SurfaceState] /\ z.surface \in [Surfaces -> SurfaceState]
  BY <1>6, <1>21 DEF Working
<1>23. Listed(z.surface) /\ Forest(z.surface)
  BY <1>7, <1>21, <1>22, SameTree
<1>24. ASSUME NEW t \in Surfaces, t # s
       PROVE  SyncAt(z.surface, t) \/ (z.surface[t].should_be_desync /\ z.surface[t].parent = s)
  <2>1. d.surface[t].parent # none => d.surface[t].parent \in Surfaces
    BY <1>22 DEF SurfaceState
  <2>2. SyncAt(d.surface, t) => SyncAt(z.surface, t)
    BY ZenonT(30), <1>21, <1>22, <2>1, SyncAtSame DEF SameNode
  <2> QED
    BY <1>9, <1>21, <1>24, <2>2 DEF SameNode
<1>25. /\ SetsSync(z, y, Desynchronized(z, s), FALSE)
       /\ ~y.surface[s].synchronous /\ \A t \in Surfaces : t # s => SyncAt(y.surface, t)
  <2>1. z \in Working
    BY <1>21
  <2>2. Adrift(z.surface, s)
    BY <1>24, ZenonT(30) DEF Adrift
  <2>3. SetsSync(z, y, Desynchronized(z, s), FALSE) /\ Settled(y.surface, s)
    BY ZenonT(30), <1>2, <1>23, <2>1, <2>2, SetDesync1Leaves
  <2> QED
    BY ZenonT(30), <2>3 DEF Settled
<1>26. \A t \in Surfaces :
         /\ y.surface[t].role = m.surface[t].role /\ y.surface[t].parent = m.surface[t].parent
         /\ y.surface[t].should_be_desync = m.surface[t].should_be_desync
         /\ y.surface[t].synchronous => t = s \/ m.surface[t].synchronous
  <2>1. ASSUME NEW t \in Surfaces
        PROVE  /\ y.surface[t].role = z.surface[t].role /\ y.surface[t].parent = z.surface[t].parent
               /\ y.surface[t].should_be_desync = z.surface[t].should_be_desync
               /\ y.surface[t].synchronous => z.surface[t].synchronous
    BY ZenonT(30), <1>25 DEF SetsSync, SameBut
  <2> QED
    BY <1>8, <1>21, <2>1 DEF SameNode, SameBut
<1>27. SyncAt(y.surface, s)
  <2> DEFINE u == m.surface[s].parent
  <2>1. u # none => u \in Surfaces /\ ~m.surface[u].synchronous
    BY <1>3 DEF SurfaceState, IsParentSynchronous
  <2>2. u # none => ~y.surface[u].synchronous
    BY <1>25, <1>26, <2>1
  <2> HIDE DEF u
  <2>3. y.surface[s].should_be_desync /\ y.surface[s].parent = u
    BY <1>1, <1>26 DEF u
  <2> QED
    BY <1>25, <2>2, <2>3 DEF SyncAt
<1>28. Tree(y)
  <2>1. \A t \in Surfaces : y.surface[t].should_be_desync => y.surface[t].role
    BY <1>1, <1>26
  <2>2. y \in Working /\ y.waiting \subseteq y.reading
    BY <1>21, <1>25 DEF SetsSync
  <2>3. Listed(y.surface) /\ Forest(y.surface)
    BY ZenonT(30), <1>23, <1>25, SetsSyncTree
  <2> QED
    BY <1>25, <1>27, <2>1, <2>2, <2>3 DEF Tree, Synchronized
<1>29. Contents(x) => Contents(y)
  BY ZenonT(30), <1>21, <1>25, SetsSyncContents
<1> QED
  BY <1>28, <1>29

-----------------------------------------------------------------------------
(* The end of a role. *)

LEMMA RemoveFirstIs ==
  ASSUME NEW S, NEW q \in Seq(S), IsInjective(q), NEW e, NEW r, r = RemoveFirst(q, e)
  PROVE  r \in Seq(S) /\ IsInjective(r) /\ ToSet(r) = ToSet(q) \ {e}
<1> DEFINE n == Len(q)
<1>1. n \in Nat /\ DOMAIN q = 1 .. n /\ ToSet(q) = {q[i] : i \in 1 .. n}
  BY DEF ToSet
<1>2. CASE \A i \in 1 .. n : q[i] # e
  <2>1. r = q
    BY <1>2 DEF RemoveFirst
  <2> QED
    BY <1>1, <1>2, <2>1
<1>3. CASE \E i \in 1 .. n : q[i] = e
  <2>1. PICK i \in 1 .. n : q[i] = e
    BY <1>3
  <2> DEFINE I == {j \in 1 .. n : q[j] = e}
  <2>2. I = {i}
    BY <1>1, <2>1 DEF IsInjective
  <2>3. Min({i}) = i
    BY <1>1 DEF Min
  <2>4. r = RemoveAt(q, i)
    <3>1. r = RemoveAt(q, IF I # {} THEN Min(I) ELSE 0)
      BY <1>3 DEF RemoveFirst, SelectInSeq
    <3> HIDE DEF I
    <3>2. I # {} /\ Min(I) = i
      BY <2>2, <2>3
    <3> QED
      BY SMTT(30), <3>1, <3>2
  <2> DEFINE a == SubSeq(q, 1, i - 1)
             b == SubSeq(q, i + 1, n)
  <2>5. a \in Seq(S) /\ Len(a) = i - 1 /\ \A j \in 1 .. i - 1 : a[j] = q[j]
    BY <1>1
  <2>6. b \in Seq(S) /\ Len(b) = n - i /\ \A j \in 1 .. n - i : b[j] = q[i + j]
    <3>1. i + 1 \in Int /\ n \in Int /\ \A k \in i + 1 .. n : q[k] \in S
      BY <1>1
    <3>2. /\ b \in Seq(S) /\ Len(b) = (IF i + 1 <= n THEN n - (i + 1) + 1 ELSE 0)
          /\ \A j \in 1 .. n - (i + 1) + 1 : b[j] = q[(i + 1) + j - 1]
      BY <3>1, SubSeqProperties
    <3> HIDE DEF b, n
    <3>3. n - (i + 1) + 1 = n - i /\ (i + 1 <= n \/ n - i = 0)
      BY <1>1
    <3>4. \A j \in 1 .. n - i : (i + 1) + j - 1 = i + j
      BY <1>1
    <3>5. Len(b) = n - i
      BY <1>1, <3>2, <3>3
    <3>6. ASSUME NEW j \in 1 .. n - i
          PROVE  b[j] = q[i + j]
      <4>1. b[j] = q[(i + 1) + j - 1]
        BY <3>2, <3>3
      <4> QED
        BY <3>4, <4>1
    <3> QED
      BY <3>2, <3>5, <3>6
  <2>7. r = a \o b
    BY <2>4 DEF RemoveAt
  <2> HIDE DEF a, b
  <2>8. /\ r \in Seq(S) /\ Len(r) = n - 1 /\ DOMAIN r = 1 .. n - 1
        /\ \A j \in 1 .. n - 1 : r[j] = IF j < i THEN q[j] ELSE q[j + 1]
    <3>1. Len(a) = i - 1 /\ Len(b) = n - i /\ a \in Seq(S) /\ b \in Seq(S)
      BY <2>5, <2>6
    <3>2. r \in Seq(S) /\ Len(r) = n - 1
      <4>1. r \in Seq(S) /\ Len(r) = Len(a) + Len(b)
        BY <2>7, <3>1, ConcatProperties
      <4> HIDE DEF n
      <4> QED
        BY <1>1, <3>1, <4>1
    <3>3. ASSUME NEW j \in 1 .. n - 1
          PROVE  r[j] = IF j < i THEN q[j] ELSE q[j + 1]
      <4>1. CASE j < i
        BY <1>1, <2>5, <2>7, <3>1, <4>1
      <4>2. CASE ~(j < i)
        <5> DEFINE k == j - (i - 1)
        <5>1. k \in 1 .. n - i /\ j = Len(a) + k /\ i + k = j + 1
          BY <1>1, <3>1, <4>2
        <5>2. b[k] = q[j + 1]
          BY <2>6, <5>1
        <5>3. r[j] = b[k]
          BY <2>7, <3>1, <5>1, Concat
        <5> QED
          BY <4>2, <5>2, <5>3
      <4> QED
        BY <4>1, <4>2
    <3> QED
      BY <1>1, <3>2, <3>3
  <2>9. ToSet(r) = {r[j] : j \in 1 .. n - 1}
    BY <2>8 DEF ToSet
  <2> HIDE DEF n
  <2>10. IsInjective(r)
    <3>1. ASSUME NEW j \in 1 .. n - 1, NEW k \in 1 .. n - 1, r[j] = r[k]
          PROVE  j = k
      <4> DEFINE u == IF j < i THEN j ELSE j + 1
                 v == IF k < i THEN k ELSE k + 1
      <4>1. u \in 1 .. n /\ v \in 1 .. n /\ r[j] = q[u] /\ r[k] = q[v]
        BY <1>1, <2>8
      <4>2. u = v => j = k
        BY <1>1
      <4> HIDE DEF u, v
      <4>3. \A c, d \in 1 .. n : q[c] = q[d] => c = d
        BY <1>1 DEF IsInjective
      <4>4. q[u] = q[v]
        BY ZenonT(30), <3>1, <4>1
      <4> HIDE DEF n
      <4>5. u = v
        BY <4>1, <4>3, <4>4
      <4> QED
        BY <4>2, <4>5
    <3> QED
      BY <2>8, <3>1 DEF IsInjective
  <2>11. ASSUME NEW v
         PROVE  v \in ToSet(r) <=> v \in ToSet(q) /\ v # e
    <3>1. ASSUME v \in ToSet(r)
          PROVE  v \in ToSet(q) /\ v # e
      <4>1. PICK j \in 1 .. n - 1 : v = r[j]
        BY <2>9, <3>1
      <4> DEFINE m == IF j < i THEN j ELSE j + 1
      <4>2. m \in 1 .. n /\ m # i /\ v = q[m]
        BY <1>1, <2>8, <4>1
      <4> HIDE DEF m
      <4>3. q[m] # q[i]
        BY <1>1, <4>2 DEF IsInjective
      <4> QED
        BY <1>1, <2>1, <4>2, <4>3
    <3>2. ASSUME v \in ToSet(q), v # e
          PROVE  v \in ToSet(r)
      <4>1. PICK m \in 1 .. n : v = q[m]
        BY <1>1, <3>2
      <4> DEFINE j == IF m < i THEN m ELSE m - 1
      <4>2. m # i
        BY <2>1, <3>2, <4>1
      <4>3. j \in 1 .. n - 1 /\ r[j] = q[m]
        BY <1>1, <2>8, <4>2
      <4> HIDE DEF j
      <4> QED
        BY <2>9, <4>1, <4>3
    <3> QED
      BY <3>1, <3>2
  <2> QED
    BY <2>8, <2>10, <2>11
<1> QED
  BY <1>2, <1>3

\* What a surface shows and is going to show.
SameStates(p, q) ==
  /\ q.alive = p.alive /\ q.pending = p.pending /\ q.cached = p.cached /\ q.current = p.current
SameAim(p, q) ==
  /\ SameStates(p, q)
  /\ q.role = p.role /\ q.pending_commit = p.pending_commit
\* And its place among the others.
SamePlace(p, q) ==
  q.parent = p.parent /\ q.synchronous = p.synchronous /\ q.should_be_desync = p.should_be_desync

LEMMA UninsertedFields ==
  ASSUME NEW x \in Working, NEW s \in Surfaces, NEW y, y = Uninserted(x, s)
  PROVE  /\ y \in Working /\ Others(x, y, s) /\ SameAccounts(x, y)
         /\ SameAim(x.surface[s], y.surface[s]) /\ SamePlace(x.surface[s], y.surface[s])
         /\ y.surface[s].children = x.surface[s].children
<1> DEFINE p == x.surface[s]
           q == [p EXCEPT !.uninserted = TRUE]
<1>1. p \in SurfaceState
  BY DEF Working
<1>2. y = Replace(x, s, q)
  BY DEF Uninserted, Replace
<1>3. q \in SurfaceState /\ SameAim(p, q) /\ SamePlace(p, q) /\ q.children = p.children
  BY ZenonT(30), <1>1 DEF SurfaceState, SameAim, SameStates, SamePlace
<1> HIDE DEF q
<1>4. Replaced(x, y, s, q)
  BY <1>2, <1>3, ReplaceFields
<1> QED
  BY <1>3, <1>4 DEF Replaced

Delisted(x, y, s, u) ==
  /\ y \in Working /\ Others(x, y, u) /\ SameAccounts(x, y)
  /\ SameAim(x.surface[u], y.surface[u]) /\ SamePlace(x.surface[u], y.surface[u])
  /\ IsInjective(y.surface[u].children)
  /\ ToSet(y.surface[u].children) = ToSet(x.surface[u].children) \ {s}

LEMMA UnlistedFields ==
  ASSUME NEW x \in Working, NEW s \in Surfaces, NEW u \in Surfaces, IsInjective(x.surface[u].children),
         NEW y, y = Unlisted(x, s, u)
  PROVE  Delisted(x, y, s, u)
<1> DEFINE p == x.surface[u]
           r == RemoveFirst(p.children, s)
           q == [p EXCEPT !.children = r]
<1>1. p \in SurfaceState
  BY DEF Working
<1>2. y = Replace(x, u, q)
  BY DEF Unlisted, Replace
<1>3. p.children \in Seq(Surfaces)
  BY <1>1 DEF SurfaceState
<1>4. r \in Seq(Surfaces) /\ IsInjective(r) /\ ToSet(r) = ToSet(p.children) \ {s}
  BY <1>3, RemoveFirstIs
<1> HIDE DEF r
<1>5. q \in SurfaceState /\ SameAim(p, q) /\ SamePlace(p, q) /\ q.children = r
  BY ZenonT(30), <1>1, <1>4 DEF SurfaceState, SameAim, SameStates, SamePlace
<1> HIDE DEF q
<1>6. Replaced(x, y, u, q)
  BY <1>2, <1>5, ReplaceFields
<1> QED
  BY <1>4, <1>5, <1>6 DEF Replaced, Delisted

LEMMA EndedFields ==
  ASSUME NEW x \in Working, NEW s \in Surfaces, NEW y, y = Ended(x, s)
  PROVE  /\ y \in Working /\ Others(x, y, s) /\ SameAccounts(x, y)
         /\ SameStates(x.surface[s], y.surface[s]) /\ y.surface[s].children = x.surface[s].children
         /\ ~y.surface[s].role /\ y.surface[s].parent = none /\ ~y.surface[s].synchronous
         /\ ~y.surface[s].should_be_desync /\ ~y.surface[s].pending_commit
<1> DEFINE p == x.surface[s]
           q == [p EXCEPT !.role = FALSE, !.parent = none, !.synchronous = FALSE,
                          !.should_be_desync = FALSE, !.pending_commit = FALSE, !.uninserted = FALSE]
<1>1. p \in SurfaceState /\ x.surface \in [Surfaces -> SurfaceState]
  BY DEF Working
<1>2. y = Replace(x, s, q)
  <2>1. y = [x EXCEPT !.surface = y.surface]
    BY ZenonT(30) DEF Ended, Working
  <2>2. y.surface = [x.surface EXCEPT ![s] = q]
    BY ZenonT(30), <1>1 DEF Ended, Working
  <2> QED
    BY <2>1, <2>2 DEF Replace
<1>3. q \in SurfaceState /\ SameStates(p, q) /\ q.children = p.children
  BY ZenonT(30), <1>1 DEF SurfaceState, SameStates
<1>4. /\ ~q.role /\ q.parent = none /\ ~q.synchronous /\ ~q.should_be_desync /\ ~q.pending_commit
  BY <1>1 DEF SurfaceState
<1> HIDE DEF q
<1>5. Replaced(x, y, s, q)
  BY <1>2, <1>3, ReplaceFields
<1> QED
  BY <1>3, <1>4, <1>5 DEF Replaced

\* What a teardown of s leaves: of s nothing but its states, of the others
\* everything they show.
TornDown(x, y, s) ==
  /\ SameAccounts(x, y)
  /\ SameStates(x.surface[s], y.surface[s])
  /\ ~y.surface[s].role /\ y.surface[s].parent = none /\ ~y.surface[s].pending_commit
  /\ ~y.surface[s].should_be_desync
  /\ \A t \in Surfaces : t # s =>
       /\ SameAim(x.surface[t], y.surface[t])
       /\ y.surface[t].parent = x.surface[t].parent
       /\ y.surface[t].should_be_desync = x.surface[t].should_be_desync

LEMMA TeardownKeeps ==
  ASSUME NEW x, Tree(x), NEW s \in Surfaces, NEW y, y = Teardown(x, s)
  PROVE  Tree(y) /\ TornDown(x, y, s)
<1> DEFINE parent == x.surface[s].parent
           d == SetDesync1(x, s)
           g == Uninserted(d, s)
           r == IF parent = none THEN g ELSE Unlisted(g, s, parent)
           u == IF Inserted(x, s) THEN SubsurfaceUpdate(r, s) ELSE r
<1>1. y = Ended(u, s)
  BY ZenonT(30) DEF Teardown, UpdatedIf
<1>2. /\ x \in Working /\ x.surface \in [Surfaces -> SurfaceState] /\ Listed(x.surface) /\ Forest(x.surface)
      /\ parent # none => parent \in Surfaces
  BY DEF Tree, Working, SurfaceState
<1> HIDE DEF parent
<1>3. Adrift(x.surface, s)
  BY DEF Tree, Synchronized, Adrift
<1>4. SetsSync(x, d, Desynchronized(x, s), FALSE) /\ Settled(d.surface, s)
  BY ZenonT(30), <1>2, <1>3, SetDesync1Leaves
<1> HIDE DEF d
<1>5. /\ d \in Working /\ Listed(d.surface) /\ Forest(d.surface) /\ SameAccounts(x, d)
      /\ \A t \in Surfaces : SameBut(x.surface[t], d.surface[t]) /\ SameAim(x.surface[t], d.surface[t])
  <2>1. Listed(d.surface) /\ Forest(d.surface)
    BY ZenonT(30), <1>2, <1>4, SetsSyncTree
  <2> QED
    BY <1>4, <2>1 DEF SetsSync, SameBut, SameAim, SameStates, SameAccounts
<1>6. /\ g \in Working /\ Others(d, g, s) /\ SameAccounts(d, g)
      /\ SameAim(d.surface[s], g.surface[s]) /\ SamePlace(d.surface[s], g.surface[s])
      /\ g.surface[s].children = d.surface[s].children
  BY <1>5, UninsertedFields
<1> HIDE DEF g
<1>7. \A t \in Surfaces :
        /\ SameAim(d.surface[t], g.surface[t]) /\ SamePlace(d.surface[t], g.surface[t])
        /\ g.surface[t].children = d.surface[t].children
  BY <1>6 DEF Others, SameAim, SameStates, SamePlace
<1>8. /\ r \in Working /\ SameAccounts(g, r)
      /\ \A t \in Surfaces :
           /\ SameAim(g.surface[t], r.surface[t]) /\ SamePlace(g.surface[t], r.surface[t])
           /\ IsInjective(r.surface[t].children)
           /\ ToSet(r.surface[t].children) = ToSet(g.surface[t].children) \ (IF t = parent THEN {s} ELSE {})
  <2>1. \A t \in Surfaces : IsInjective(g.surface[t].children)
    BY <1>5, <1>7 DEF Listed
  <2>2. CASE parent = none
    <3>1. r = g /\ \A t \in Surfaces : t # parent
      BY <2>2, SurfacesAssumption
    <3> QED
      BY <1>6, <2>1, <3>1 DEF SameAccounts, SameAim, SameStates, SamePlace
  <2>3. CASE parent # none
    <3>1. r = Unlisted(g, s, parent) /\ parent \in Surfaces
      BY <1>2, <2>3
    <3> HIDE DEF r
    <3>2. Delisted(g, r, s, parent)
      BY <1>6, <2>1, <3>1, UnlistedFields
    <3>3. ASSUME NEW t \in Surfaces, t # parent
          PROVE  /\ SameAim(g.surface[t], r.surface[t]) /\ SamePlace(g.surface[t], r.surface[t])
                 /\ IsInjective(r.surface[t].children)
                 /\ ToSet(r.surface[t].children) = ToSet(g.surface[t].children)
      BY <2>1, <3>2, <3>3 DEF Delisted, Others, SameAim, SameStates, SamePlace
    <3> QED
      BY <3>2, <3>3 DEF Delisted
  <2> QED
    BY <2>2, <2>3
<1> HIDE DEF r
<1>9. u \in Working /\ u.surface = r.surface /\ SameAccounts(r, u)
  <2>1. CASE Inserted(x, s)
    <3>1. u = SubsurfaceUpdate(r, s)
      BY <2>1
    <3> HIDE DEF u
    <3> QED
      BY <1>8, <3>1, UpdateFields DEF SameAccounts
  <2>2. CASE ~Inserted(x, s)
    <3>1. u = r
      BY <2>2
    <3> QED
      BY <1>8, <3>1 DEF SameAccounts
  <2> QED
    BY <2>1, <2>2
<1> HIDE DEF u
<1>10. /\ y \in Working /\ Others(u, y, s) /\ SameAccounts(u, y)
       /\ SameStates(u.surface[s], y.surface[s]) /\ y.surface[s].children = u.surface[s].children
       /\ ~y.surface[s].role /\ y.surface[s].parent = none /\ ~y.surface[s].synchronous
       /\ ~y.surface[s].should_be_desync /\ ~y.surface[s].pending_commit
  BY <1>1, <1>9, EndedFields
<1>11. SameAccounts(x, y)
  BY <1>5, <1>6, <1>8, <1>9, <1>10 DEF SameAccounts
<1>12. SameStates(x.surface[s], y.surface[s])
  BY <1>5, <1>7, <1>8, <1>9, <1>10 DEF SameStates, SameAim
<1>13. ASSUME NEW t \in Surfaces, t # s
       PROVE  /\ SameAim(x.surface[t], y.surface[t])
              /\ SamePlace(d.surface[t], y.surface[t])
  BY <1>5, <1>7, <1>8, <1>9, <1>10, <1>13 DEF Others, SameStates, SameAim, SamePlace
<1>14. TornDown(x, y, s)
  <2>1. \A t \in Surfaces : t # s =>
          /\ y.surface[t].parent = x.surface[t].parent
          /\ y.surface[t].should_be_desync = x.surface[t].should_be_desync
    BY <1>5, <1>13 DEF SamePlace, SameBut
  <2> QED
    BY <1>10, <1>11, <1>12, <1>13, <2>1 DEF TornDown
<1>15. ASSUME NEW t \in Surfaces
       PROVE  /\ IsInjective(y.surface[t].children)
              /\ ToSet(y.surface[t].children) = ToSet(x.surface[t].children) \ (IF t = parent THEN {s} ELSE {})
  <2>1. y.surface[t].children = r.surface[t].children
    BY <1>9, <1>10 DEF Others
  <2>2. g.surface[t].children = x.surface[t].children
    BY <1>5, <1>7 DEF SameBut
  <2> QED
    BY <1>8, <2>1, <2>2
<1>16. \A t \in Surfaces : y.surface[t].parent = IF t = s THEN none ELSE x.surface[t].parent
  BY <1>5, <1>10, <1>13 DEF SamePlace, SameBut
<1>17. Listed(y.surface)
  <2> SUFFICES ASSUME NEW t \in Surfaces
               PROVE  ToSet(y.surface[t].children) = {v \in Surfaces : y.surface[v].parent = t}
    BY <1>15 DEF Listed
  <2>1. ToSet(x.surface[t].children) = {v \in Surfaces : x.surface[v].parent = t}
    BY <1>2 DEF Listed
  <2>2. t # none
    BY SurfacesAssumption
  <2> QED
    BY <1>15, <1>16, <2>1, <2>2 DEF parent
<1>18. Forest(y.surface)
  <2>1. PICK n \in Nat : \E rank \in [Surfaces -> 0 .. n] : Ranked(x.surface, rank)
    BY <1>2 DEF Forest
  <2>2. PICK rank \in [Surfaces -> 0 .. n] : Ranked(x.surface, rank)
    BY <2>1
  <2>3. Ranked(y.surface, rank)
    BY <1>16, <2>2 DEF Ranked
  <2>4. ASSUME NEW t \in Surfaces, y.surface[t].parent # none
        PROVE  t # Root /\ y.surface[t].role
    BY <1>2, <1>13, <1>16, <2>4 DEF Forest, SameAim
  <2> QED
    BY <2>2, <2>3, <2>4 DEF Forest
<1>19. SyncAt(y.surface, s)
  BY <1>10 DEF SyncAt
<1>20. ASSUME NEW t \in Surfaces, t # s
       PROVE  SyncAt(y.surface, t)
  <2>1. SyncAt(d.surface, t) /\ ~d.surface[s].synchronous
    BY <1>4, <1>20 DEF Settled
  <2>2. /\ y.surface[t].parent = d.surface[t].parent /\ y.surface[t].synchronous = d.surface[t].synchronous
        /\ y.surface[t].should_be_desync = d.surface[t].should_be_desync /\ y.surface[t].role = d.surface[t].role
    BY <1>5, <1>13, <1>20 DEF SameAim, SamePlace, SameBut
  <2>3. d.surface[t].parent # none => d.surface[t].parent \in Surfaces
    BY <1>5 DEF Working, SurfaceState
  <2>4. d.surface[t].parent # none =>
          (y.surface[d.surface[t].parent].synchronous <=> d.surface[d.surface[t].parent].synchronous)
    BY <1>10, <1>13, <2>1, <2>3 DEF SamePlace
  <2> QED
    BY <2>1, <2>2, <2>4 DEF SyncAt
<1>21. ASSUME NEW t \in Surfaces, y.surface[t].should_be_desync
       PROVE  y.surface[t].role
  <2>1. x.surface[t].should_be_desync => x.surface[t].role
    BY DEF Tree, Synchronized
  <2> QED
    BY <1>5, <1>10, <1>13, <1>21, <2>1 DEF SameAim, SamePlace, SameBut
<1>22. y.waiting \subseteq y.reading
  BY <1>11 DEF Tree, SameAccounts
<1> QED
  BY <1>10, <1>14, <1>17, <1>18, <1>19, <1>20, <1>21, <1>22 DEF Tree, Synchronized

\* The role of a subsurface is destroyed.
LEMMA TeardownContents ==
  ASSUME NEW x, Contents(x), NEW s \in Surfaces, ~x.surface[s].pending_commit,
         NEW y, TornDown(x, y, s)
  PROVE  Contents(y)
<1>1. \A t \in Surfaces : x.surface[t].pending_commit => x.surface[t].role
  BY DEF Contents, States
<1>2. \A t \in Surfaces : SameContents(x.surface[t], y.surface[t])
  BY <1>1 DEF TornDown, SameContents, SameAim, SameStates
<1> QED
  BY <1>2, ContentsKept DEF TornDown, SameAccounts

\* The surface is.
Destroyed(x, s) ==
  [x EXCEPT !.surface = [t \in Surfaces |->
     IF t = s THEN [InitSurface(t) EXCEPT !.alive = FALSE]
     ELSE IF x.surface[t].parent = s
          THEN [x.surface[t] EXCEPT !.parent = none]
          ELSE x.surface[t]]]

\* A surface that nobody uses any more.
Empty(p) ==
  /\ ~p.alive /\ ~p.role /\ p.parent = none /\ p.children = <<>>
  /\ ~p.synchronous /\ ~p.should_be_desync /\ ~p.pending_commit
  /\ p.pending = InitState /\ p.cached = InitState /\ p.current = none

\* What the destruction of s leaves of x.
DestroyedAs(x, y, s) ==
  /\ y \in Working /\ SameAccounts(x, y) /\ Empty(y.surface[s])
  /\ \A t \in Surfaces : t # s =>
       /\ SameAim(x.surface[t], y.surface[t])
       /\ y.surface[t].children = x.surface[t].children
       /\ y.surface[t].synchronous = x.surface[t].synchronous
       /\ y.surface[t].should_be_desync = x.surface[t].should_be_desync
       /\ y.surface[t].parent = IF x.surface[t].parent = s THEN none ELSE x.surface[t].parent

LEMMA DestroyedFields ==
  ASSUME NEW x \in Working, NEW s \in Surfaces, s # Root, NEW y, y = Destroyed(x, s)
  PROVE  DestroyedAs(x, y, s)
<1> DEFINE e == [InitSurface(s) EXCEPT !.alive = FALSE]
           f == [t \in Surfaces |->
                   IF t = s THEN e
                   ELSE IF x.surface[t].parent = s
                        THEN [x.surface[t] EXCEPT !.parent = none]
                        ELSE x.surface[t]]
<1>1. x.surface \in [Surfaces -> SurfaceState]
  BY DEF Working
<1>2. InitState \in State /\ <<>> \in Seq(Surfaces)
  BY InitStateIs
<1>3. e \in SurfaceState /\ Empty(e)
  BY ZenonT(30), <1>2 DEF InitSurface, SurfaceState, Empty
<1>4. y = [x EXCEPT !.surface = f]
  BY ZenonT(30) DEF Destroyed
<1> HIDE DEF e
<1>5. ASSUME NEW t \in Surfaces, t # s
      PROVE  /\ f[t] \in SurfaceState /\ SameAim(x.surface[t], f[t])
             /\ f[t].children = x.surface[t].children
             /\ f[t].synchronous = x.surface[t].synchronous
             /\ f[t].should_be_desync = x.surface[t].should_be_desync
             /\ f[t].parent = IF x.surface[t].parent = s THEN none ELSE x.surface[t].parent
  <2>1. CASE x.surface[t].parent = s
    <3>1. f[t] = [x.surface[t] EXCEPT !.parent = none]
      BY <1>5, <2>1
    <3> HIDE DEF f
    <3> QED
      BY SMTT(30), <1>1, <2>1, <3>1 DEF SurfaceState, SameAim, SameStates
  <2>2. CASE x.surface[t].parent # s
    <3>1. f[t] = x.surface[t]
      BY <1>5, <2>2
    <3> HIDE DEF f
    <3> QED
      BY <1>1, <2>2, <3>1 DEF SameAim, SameStates
  <2> QED
    BY <2>1, <2>2
<1>6. f[s] = e /\ f = [t \in Surfaces |-> f[t]]
  OBVIOUS
<1> HIDE DEF f
<1>7. f \in [Surfaces -> SurfaceState]
  <2>1. \A t \in Surfaces : f[t] \in SurfaceState
    BY <1>3, <1>5, <1>6
  <2> QED
    BY <1>6, <2>1
<1>8. /\ y \in Working /\ y.surface = f
      /\ y.busy = x.busy /\ y.waiting = x.waiting /\ y.reading = x.reading
  BY SMTT(30), <1>4, <1>7 DEF Working
<1> QED
  BY <1>3, <1>5, <1>6, <1>8 DEF DestroyedAs, SameAccounts

LEMMA DestroyedTree ==
  ASSUME NEW x, Tree(x), NEW s \in Surfaces, s # Root, ~x.surface[s].role, NEW y, y = Destroyed(x, s)
  PROVE  Tree(y)
<1>1. /\ x \in Working /\ x.surface \in [Surfaces -> SurfaceState]
      /\ \A t \in Surfaces : x.surface[t].parent # none => x.surface[t].parent \in Surfaces
  BY DEF Tree, Working, SurfaceState
<1>2. /\ y \in Working /\ SameAccounts(x, y) /\ Empty(y.surface[s])
  BY <1>1, DestroyedFields DEF DestroyedAs
<1>3. \A t \in Surfaces : t # s =>
        /\ SameAim(x.surface[t], y.surface[t])
        /\ y.surface[t].children = x.surface[t].children
        /\ y.surface[t].synchronous = x.surface[t].synchronous
        /\ y.surface[t].should_be_desync = x.surface[t].should_be_desync
        /\ y.surface[t].parent = IF x.surface[t].parent = s THEN none ELSE x.surface[t].parent
  BY <1>1, DestroyedFields DEF DestroyedAs
<1>4. x.surface[s].parent = none /\ ~x.surface[s].synchronous
  BY DEF Tree, Forest, Synchronized, SyncAt
<1>5. \A t \in Surfaces : t # none
  BY SurfacesAssumption
<1>6. Listed(y.surface)
  <2> SUFFICES ASSUME NEW t \in Surfaces
               PROVE  /\ IsInjective(y.surface[t].children)
                      /\ ToSet(y.surface[t].children) = {u \in Surfaces : y.surface[u].parent = t}
    BY DEF Listed
  <2>1. CASE t = s
    <3>1. y.surface[t].children = <<>> /\ IsInjective(<<>>) /\ ToSet(<<>>) = {}
      BY SMTT(30), <1>2, <2>1 DEF Empty, IsInjective, ToSet
    <3>2. \A u \in Surfaces : y.surface[u].parent # t
      BY <1>2, <1>3, <1>5, <2>1 DEF Empty
    <3> QED
      BY <3>1, <3>2
  <2>2. CASE t # s
    <3>1. \A u \in Surfaces : y.surface[u].parent = t <=> x.surface[u].parent = t
      BY <1>2, <1>3, <1>4, <1>5, <2>2 DEF Empty
    <3>2. /\ IsInjective(x.surface[t].children)
          /\ ToSet(x.surface[t].children) = {u \in Surfaces : x.surface[u].parent = t}
      BY DEF Tree, Listed
    <3> QED
      BY SMTT(30), <1>3, <2>2, <3>1, <3>2
  <2> QED
    BY <2>1, <2>2
<1>7. Forest(y.surface)
  <2>1. PICK n \in Nat : \E rank \in [Surfaces -> 0 .. n] : Ranked(x.surface, rank)
    BY DEF Tree, Forest
  <2>2. PICK rank \in [Surfaces -> 0 .. n] : Ranked(x.surface, rank)
    BY <2>1
  <2>3. \A t \in Surfaces : y.surface[t].parent # none => y.surface[t].parent = x.surface[t].parent
    BY <1>2, <1>3 DEF Empty
  <2>4. Ranked(y.surface, rank)
    BY <2>2, <2>3 DEF Ranked
  <2>5. ASSUME NEW t \in Surfaces, y.surface[t].parent # none
        PROVE  t # Root /\ y.surface[t].role
    <3>1. t # s /\ x.surface[t].parent # none
      BY <1>2, <2>3, <2>5 DEF Empty
    <3> QED
      BY <1>3, <3>1 DEF Tree, Forest, SameAim
  <2> QED
    BY <2>2, <2>4, <2>5 DEF Forest
<1>8. ASSUME NEW t \in Surfaces
      PROVE  SyncAt(y.surface, t)
  <2>1. CASE t = s
    BY <1>2, <2>1 DEF SyncAt, Empty
  <2>2. CASE t # s
    <3> DEFINE u == x.surface[t].parent
    <3>1. SyncAt(x.surface, t)
      BY DEF Tree, Synchronized
    <3>2. /\ y.surface[t].role = x.surface[t].role /\ y.surface[t].synchronous = x.surface[t].synchronous
          /\ y.surface[t].should_be_desync = x.surface[t].should_be_desync
          /\ y.surface[t].parent = IF u = s THEN none ELSE u
      BY <1>3, <2>2 DEF SameAim
    <3>3. u # none => u \in Surfaces
      BY <1>1
    <3> HIDE DEF u
    <3>4. u # none /\ u # s => y.surface[u].synchronous = x.surface[u].synchronous
      BY <1>3, <3>3
    <3>5. x.surface[t].parent = u
      BY DEF u
    <3> QED
      BY <1>4, <3>1, <3>2, <3>4, <3>5 DEF SyncAt
  <2> QED
    BY <2>1, <2>2
<1>9. \A t \in Surfaces : y.surface[t].should_be_desync => y.surface[t].role
  BY <1>2, <1>3 DEF Tree, Synchronized, Empty, SameAim
<1> QED
  BY <1>2, <1>6, <1>7, <1>8, <1>9 DEF Tree, Synchronized, SameAccounts

\* What waited on the surface that was destroyed is forgotten.
LEMMA DestroyedContents ==
  ASSUME NEW x, Contents(x), NEW s \in Surfaces, NEW y, SameAccounts(x, y), Empty(y.surface[s]),
         \A t \in Surfaces : t # s => SameAim(x.surface[t], y.surface[t])
  PROVE  Contents(y)
<1>1. \A t \in Surfaces : t # none
  BY SurfacesAssumption
<1>2. States(y.surface)
  <2> SUFFICES ASSUME NEW t \in Surfaces
               PROVE  /\ {y.surface[t].pending.buffer, y.surface[t].cached.buffer, y.surface[t].current}
                           \subseteq BuffersOf[t] \cup {none}
                      /\ y.surface[t].pending.buffer # none => y.surface[t].pending.attached
                      /\ (y.surface[t].cached.buffer # none =>
                            y.surface[t].cached.attached /\ y.surface[t].pending_commit)
                      /\ (y.surface[t].pending_commit => y.surface[t].role /\ t # Root)
    BY DEF States
  <2>1. CASE t = s
    BY <2>1 DEF Empty, InitState
  <2>2. CASE t # s
    BY <2>2 DEF Contents, States, SameAim, SameStates
  <2> QED
    BY SMTT(30), <2>1, <2>2
<1>3. Kept(y, none)
  <2>1. y.waiting \subseteq y.busy /\ y.waiting \subseteq y.reading
    BY DEF Contents, Kept, SameAccounts
  <2>2. ASSUME NEW t \in Surfaces
        PROVE  /\ Held(y, t, none) \subseteq ((y.busy \ y.waiting) \cap BuffersOf[t]) \cup {none}
               /\ y.surface[t].alive => BuffersOf[t] \cap y.busy \subseteq y.waiting \cup Held(y, t, none)
    <3>1. CASE t = s
      BY SMTT(30), <1>1, <3>1 DEF Empty, InitState, Held
    <3>2. CASE t # s
      <4>1. y.surface[t].alive = x.surface[t].alive /\ Held(y, t, none) = Held(x, t, none)
        BY <1>1, <3>2 DEF SameAim, SameStates, Held
      <4> QED
        BY <4>1 DEF Contents, Kept, SameAccounts
    <3> QED
      BY SMTT(30), <3>1, <3>2
  <2> QED
    BY <2>1, <2>2 DEF Kept
<1>4. ASSUME NEW t \in Surfaces
      PROVE  OfferedAt(y, t)
  <2>1. CASE t = s
    BY <2>1 DEF OfferedAt, Empty, InitState
  <2>2. CASE t # s
    <3>1. SameAim(x.surface[t], y.surface[t]) /\ OfferedAt(x, t)
      BY <2>2 DEF Contents
    <3>2. Waits(x.surface, t) <=> Waits(y.surface, t)
      BY <3>1 DEF SameAim, SameStates, Waits
    <3>3. LastCommit(y.surface, t) = LastCommit(x.surface, t)
      BY <3>1, <3>2 DEF SameAim, SameStates, LastCommit
    <3> QED
      BY <3>1, <3>3 DEF OfferedAt, SameAim, SameStates, SameAccounts
  <2> QED
    BY SMTT(30), <2>1, <2>2
<1> QED
  BY SMTT(30), <1>2, <1>3, <1>4 DEF Contents

-----------------------------------------------------------------------------
(* The inductive invariants. *)

\* The tree, that no request breaks but the one that crashes.
Plain(x) ==
  x \in Working /\ x.waiting \subseteq x.reading /\ Listed(x.surface) /\ Forest(x.surface)

TreeSound ==
  /\ Plain(Work(FALSE)) /\ frame \in Frames
  /\ crashed \/ Synchronized(surface)

\* And the buffers.
BuffersSound == TreeSound /\ Contents(Work(FALSE))

LEMMA WorkTree ==
  ASSUME TreeSound, ~crashed, NEW draw \in BOOLEAN
  PROVE  Tree(Work(draw)) /\ Work(draw).surface = surface
<1>1. Work(FALSE) \in Working /\ surface \in [Surfaces -> SurfaceState] /\ waiting \subseteq reading
  BY DEF TreeSound, Plain, Work, Working
<1>2. Work(draw) \in Working
  BY <1>1 DEF Work, Working
<1>3. /\ Work(draw).surface = surface /\ Work(draw).waiting = waiting /\ Work(draw).reading = reading
      /\ Work(FALSE).surface = surface
  BY DEF Work
<1>4. Listed(surface) /\ Forest(surface) /\ Synchronized(surface)
  BY ZenonT(30), <1>3 DEF TreeSound, Plain
<1> QED
  BY <1>1, <1>2, <1>3, <1>4 DEF Tree

LEMMA WorkContents ==
  ASSUME Contents(Work(FALSE)), NEW draw \in BOOLEAN
  PROVE  Contents(Work(draw))
<1> DEFINE x == Work(FALSE)
           y == Work(draw)
<1>1. y.surface = x.surface /\ y.busy = x.busy /\ y.waiting = x.waiting /\ y.reading = x.reading
  BY DEF Work
<1> HIDE DEF x, y
<1>2. Contents(x)
  BY ZenonT(30) DEF x
<1>3. \A t \in Surfaces : x.surface[t].pending_commit => x.surface[t].role
  BY <1>2 DEF Contents, States
<1>4. \A t \in Surfaces : SameContents(x.surface[t], y.surface[t])
  BY <1>1, <1>3 DEF SameContents
<1>5. Contents(y)
  BY <1>1, <1>2, <1>4, ContentsKept
<1> QED
  BY <1>5 DEF y

LEMMA FinishPlain ==
  ASSUME NEW x, Plain(x), Finish(x)
  PROVE  Plain(Work(FALSE))' /\ (frame \in Frames)' /\ surface' = x.surface
<1>1. /\ x.surface \in [Surfaces -> SurfaceState] /\ x.busy \in SUBSET Buffers
      /\ x.waiting \in SUBSET Buffers /\ x.reading \in SUBSET Buffers /\ x.frame \in Frames
      /\ nothing \in Frames
  BY DEF Plain, Working, Frames
<1> DEFINE y == Work(FALSE)'
<1>2. /\ y \in Working /\ y.surface = x.surface /\ y.busy = x.busy
      /\ y.waiting = x.waiting /\ y.reading = x.reading
  BY <1>1 DEF Finish, Work, Working
<1> HIDE DEF y
<1>3. Plain(y)
  BY <1>2 DEF Plain
<1> QED
  BY ZenonT(30), <1>1, <1>3 DEF Finish, y

LEMMA FinishTree ==
  ASSUME NEW x, Tree(x), Finish(x)
  PROVE  TreeSound'
<1>1. Plain(x) /\ Synchronized(x.surface)
  BY DEF Tree, Plain
<1>2. Plain(Work(FALSE))' /\ (frame \in Frames)' /\ surface' = x.surface
  BY ZenonT(30), <1>1, FinishPlain
<1>3. Synchronized(surface)'
  BY <1>1, <1>2
<1> QED
  BY ZenonT(30), <1>2, <1>3 DEF TreeSound

LEMMA FinishContents ==
  ASSUME NEW x, Contents(x), Finish(x)
  PROVE  Contents(Work(FALSE))'
<1> DEFINE y == Work(FALSE)'
<1>1. y.surface = x.surface /\ y.busy = x.busy /\ y.waiting = x.waiting /\ y.reading = x.reading
  BY DEF Finish, Work
<1> HIDE DEF y
<1>2. \A t \in Surfaces : x.surface[t].pending_commit => x.surface[t].role
  BY DEF Contents, States
<1>3. \A t \in Surfaces : SameContents(x.surface[t], y.surface[t])
  BY <1>1, <1>2 DEF SameContents
<1>4. Contents(y)
  BY <1>1, <1>3, ContentsKept
<1> QED
  BY ZenonT(30), <1>4 DEF y

-----------------------------------------------------------------------------
(* What each action keeps. *)

\* Enlarging the set of busy buffers disturbs the tree nowhere.
LEMMA BusierTree ==
  ASSUME NEW w, Tree(w), NEW s \in Surfaces, NEW x,
         x = [w EXCEPT !.busy = @ \cup ({w.surface[s].pending.buffer} \ {none})]
  PROVE  Tree(x)
<1> DEFINE b == w.surface[s].pending.buffer
<1>1. w \in Working /\ b \in Buffers \cup {none}
  BY DEF Tree, Working, SurfaceState, State
<1> HIDE DEF b
<1>2. /\ x \in Working /\ x.surface = w.surface /\ x.waiting = w.waiting /\ x.reading = w.reading
  BY <1>1 DEF Working, b
<1> QED
  BY <1>2 DEF Tree

LEMMA ClientCommitKeeps ==
  ASSUME TreeSound, NEW s \in Surfaces, ClientCommit(s)
  PROVE  TreeSound' /\ (Contents(Work(FALSE)) => Contents(Work(FALSE))')
<1>1. PICK draw \in BOOLEAN :
        Finish(Commit([Work(draw) EXCEPT !.busy = @ \cup ({surface[s].pending.buffer} \ {none})], s))
  BY ZenonT(30) DEF ClientCommit
<1> DEFINE w == Work(draw)
           x == [w EXCEPT !.busy = @ \cup ({w.surface[s].pending.buffer} \ {none})]
           y == Commit(x, s)
<1>2. Tree(w) /\ w.surface = surface
  BY WorkTree DEF ClientCommit
<1>3. Finish(y)
  BY <1>1, <1>2
<1>4. Contents(Work(FALSE)) => Contents(w)
  BY WorkContents
<1> HIDE DEF w
<1>5. Tree(x)
  BY <1>2, BusierTree
<1>6. Contents(w) => Sound(y)
  BY <1>2, CommitSound DEF Sound
<1> HIDE DEF x
<1>7. Tree(y)
  BY <1>5, CommitTree
<1> HIDE DEF y
<1> QED
  BY ZenonT(30), <1>3, <1>4, <1>6, <1>7, FinishTree, FinishContents DEF Sound

LEMMA SetSyncActionKeeps ==
  ASSUME TreeSound, NEW s \in Surfaces, SetSync(s)
  PROVE  TreeSound' /\ (Contents(Work(FALSE)) => Contents(Work(FALSE))')
<1> DEFINE w == Work(FALSE)
           y == SetSyncResult(w, s)
<1>1. Tree(w) /\ w.surface = surface
  BY ZenonT(30), WorkTree DEF SetSync
<1>2. Finish(y) /\ s # Root /\ surface[s].role
  BY DEF SetSync, SetSyncResult
<1> HIDE DEF w
<1>3. Tree(y) /\ (Contents(w) => Contents(y))
  BY <1>1, <1>2, SetSyncKeeps
<1> HIDE DEF y
<1> QED
  BY ZenonT(30), <1>2, <1>3, FinishTree, FinishContents DEF w

LEMMA GetSubsurfaceActionKeeps ==
  ASSUME TreeSound, NEW s \in NonRoot, NEW parent \in Parents[s], GetSubsurface(s, parent)
  PROVE  TreeSound' /\ (Contents(Work(FALSE)) => Contents(Work(FALSE))')
<1> DEFINE w == Work(FALSE)
           y == SetSync1(Linked(w, s, parent), s)
<1>1. Tree(w) /\ w.surface = surface
  BY ZenonT(30), WorkTree DEF GetSubsurface
<1>2. Finish(y) /\ ~surface[s].role /\ parent \notin Below(w, s)
  BY ZenonT(30) DEF GetSubsurface, Linked
<1>3. s \in Surfaces /\ s # Root /\ parent \in Surfaces
  BY SurfacesAssumption DEF NonRoot
<1> HIDE DEF w
<1>4. Tree(y) /\ (Contents(w) => Contents(y))
  BY <1>1, <1>2, <1>3, GetSubsurfaceKeeps
<1> HIDE DEF y
<1> QED
  BY ZenonT(30), <1>2, <1>4, FinishTree, FinishContents DEF w

LEMMA DestroySubsurfaceKeeps ==
  ASSUME TreeSound, NEW s \in Surfaces, DestroySubsurface(s)
  PROVE  TreeSound' /\ (Contents(Work(FALSE)) /\ ~surface[s].pending_commit => Contents(Work(FALSE))')
<1>1. PICK draw \in BOOLEAN : Finish(Teardown(Work(draw), s))
  BY DEF DestroySubsurface
<1> DEFINE w == Work(draw)
           y == Teardown(w, s)
<1>2. Tree(w) /\ w.surface = surface
  BY WorkTree DEF DestroySubsurface
<1>3. Contents(Work(FALSE)) => Contents(w)
  BY WorkContents
<1>4. Finish(y)
  BY <1>1
<1> HIDE DEF w
<1>5. Tree(y) /\ TornDown(w, y, s)
  BY <1>2, TeardownKeeps
<1> HIDE DEF y
<1>6. Contents(w) /\ ~surface[s].pending_commit => Contents(y)
  BY SMTT(30), <1>2, <1>5, TeardownContents
<1> QED
  BY ZenonT(30), <1>3, <1>4, <1>5, <1>6, FinishTree, FinishContents

LEMMA DestroySurfaceKeeps ==
  ASSUME TreeSound, NEW s \in Surfaces, DestroySurface(s)
  PROVE  TreeSound' /\ (Contents(Work(FALSE)) => Contents(Work(FALSE))')
<1>1. PICK draw \in BOOLEAN :
        Finish(Destroyed(IF surface[s].role THEN Teardown(Work(draw), s) ELSE Work(draw), s))
  BY ZenonT(30) DEF DestroySurface, Destroyed
<1> DEFINE w == Work(draw)
           x == IF surface[s].role THEN Teardown(w, s) ELSE w
           y == Destroyed(x, s)
<1>2. Tree(w) /\ w.surface = surface /\ s # Root
  BY WorkTree DEF DestroySurface
<1>3. Contents(Work(FALSE)) => Contents(w)
  BY WorkContents
<1>4. Finish(y)
  BY <1>1
<1> HIDE DEF w
<1>5. /\ Tree(x) /\ ~x.surface[s].role /\ SameAccounts(w, x)
      /\ \A t \in Surfaces : t # s => SameAim(w.surface[t], x.surface[t])
  <2>1. CASE surface[s].role
    <3>1. x = Teardown(w, s)
      BY <2>1
    <3> HIDE DEF x
    <3>2. Tree(x) /\ TornDown(w, x, s)
      BY <1>2, <3>1, TeardownKeeps
    <3> QED
      BY <3>2 DEF TornDown
  <2>2. CASE ~surface[s].role
    <3>1. x = w
      BY <2>2
    <3> QED
      BY <1>2, <2>2, <3>1 DEF SameAccounts, SameAim, SameStates
  <2> QED
    BY <2>1, <2>2
<1> HIDE DEF x
<1>6. Tree(y)
  BY <1>2, <1>5, DestroyedTree
<1>7. /\ SameAccounts(x, y) /\ Empty(y.surface[s])
      /\ \A t \in Surfaces : t # s => SameAim(x.surface[t], y.surface[t])
  BY <1>2, <1>5, DestroyedFields DEF DestroyedAs, Tree
<1> HIDE DEF y
<1>8. Contents(w) => Contents(y)
  <2>1. SameAccounts(w, y)
    BY <1>5, <1>7 DEF SameAccounts
  <2>2. \A t \in Surfaces : t # s => SameAim(w.surface[t], y.surface[t])
    BY <1>5, <1>7 DEF SameAim, SameStates
  <2> QED
    BY <1>7, <2>1, <2>2, DestroyedContents
<1> QED
  BY ZenonT(30), <1>3, <1>4, <1>6, <1>8, FinishTree, FinishContents

LEMMA SetDesyncActionKeeps ==
  ASSUME TreeSound, NEW s \in Surfaces, SetDesync(s)
  PROVE  TreeSound' /\ (Contents(Work(FALSE)) => Contents(Work(FALSE))')
<1>1. PICK draw \in BOOLEAN :
        Finish(IF ParentRoleMissing(s) \/ IsParentSynchronous(DesyncAsked(Work(draw), s), s)
               THEN DesyncAsked(Work(draw), s)
               ELSE NoteSubsurfaceDesynchronous(DesyncAsked(Work(draw), s), s))
  BY ZenonT(30) DEF SetDesync, DesyncAsked
<1> DEFINE w == Work(draw)
           m == DesyncAsked(w, s)
           y == NoteSubsurfaceDesynchronous(m, s)
<1>2. Tree(w) /\ w.surface = surface /\ s # Root /\ surface[s].role
  BY WorkTree DEF SetDesync
<1>3. Contents(Work(FALSE)) => Contents(w)
  BY WorkContents
<1>4. Finish(IF ParentRoleMissing(s) \/ IsParentSynchronous(m, s) THEN m ELSE y)
  BY <1>1
<1> HIDE DEF w
<1>5. /\ m \in Working /\ m.waiting \subseteq m.reading /\ Listed(m.surface) /\ Forest(m.surface)
      /\ Contents(w) => Contents(m)
  BY <1>2, DesyncAskedKeeps
<1>6. CASE ParentRoleMissing(s)
  <2>1. Plain(m) /\ (Contents(w) => Contents(m))
    BY <1>5 DEF Plain
  <2>2. Finish(m) /\ crashed'
    BY <1>4, <1>6 DEF SetDesync
  <2> HIDE DEF m
  <2> QED
    BY ZenonT(30), <1>3, <2>1, <2>2, FinishPlain, FinishContents DEF TreeSound
<1>7. CASE ~ParentRoleMissing(s) /\ IsParentSynchronous(m, s)
  <2>1. Tree(m) /\ (Contents(w) => Contents(m))
    BY <1>2, <1>5, <1>7, DesyncAskedTree
  <2>2. Finish(m)
    BY <1>4, <1>7
  <2> HIDE DEF m
  <2> QED
    BY ZenonT(30), <1>3, <2>1, <2>2, FinishTree, FinishContents
<1>8. CASE ~ParentRoleMissing(s) /\ ~IsParentSynchronous(m, s)
  <2>1. Tree(y) /\ (Contents(w) => Contents(y))
    BY <1>2, <1>8, DesynchronousKeeps
  <2>2. Finish(y)
    BY <1>4, <1>8
  <2> HIDE DEF y
  <2> QED
    BY ZenonT(30), <1>3, <2>1, <2>2, FinishTree, FinishContents
<1> QED
  BY <1>6, <1>7, <1>8

LEMMA AttachKeeps ==
  ASSUME TreeSound, NEW s \in Surfaces, Attach(s)
  PROVE  TreeSound' /\ (Contents(Work(FALSE)) => Contents(Work(FALSE))')
<1> DEFINE x == Work(FALSE)
           y == Work(FALSE)'
<1>1. PICK b \in (BuffersOf[s] \ busy) \cup {none, Committed(s)} :
        surface' = [surface EXCEPT ![s].pending = [buffer |-> b, attached |-> TRUE]]
  BY ZenonT(30) DEF Attach
<1>2. Tree(x) /\ x.surface = surface /\ x.busy = busy
  BY ZenonT(30), WorkTree DEF Attach, Work
<1>3. surface \in [Surfaces -> SurfaceState]
  BY ZenonT(30), <1>2 DEF Tree, Working
<1> DEFINE q == [buffer |-> b, attached |-> TRUE]
<1>4. Committed(s) = LastCommit(surface, s)
  BY DEF Committed, LastCommit, Waits
<1>5. q \in State /\ q.buffer = b /\ q.attached
  <2>1. surface[s].cached.buffer \in Buffers \cup {none} /\ surface[s].current \in Buffers \cup {none}
    BY SMTT(30), <1>3 DEF SurfaceState, State
  <2>2. Committed(s) \in Buffers \cup {none}
    BY <2>1 DEF Committed
  <2>3. \A c \in BuffersOf[s] : c \in Buffers
    BY DEF Buffers
  <2>4. b \in Buffers \cup {none}
    BY SMTT(30), <2>2, <2>3
  <2> QED
    BY <2>4 DEF State
<1> HIDE DEF q
<1>6. /\ surface' = [surface EXCEPT ![s].pending = q]
      /\ surface' \in [Surfaces -> SurfaceState] /\ surface'[s].pending = q
      /\ \A t \in Surfaces :
           /\ t # s => surface'[t] = surface[t]
           /\ surface'[t].alive = surface[t].alive /\ surface'[t].role = surface[t].role
           /\ surface'[t].cached = surface[t].cached /\ surface'[t].current = surface[t].current
           /\ surface'[t].pending_commit = surface[t].pending_commit
           /\ SameNode(surface[t], surface'[t])
  <2> DEFINE p == surface[s]
             r == [p EXCEPT !.pending = q]
  <2>1. p \in SurfaceState
    BY <1>3
  <2>2. surface' = [surface EXCEPT ![s] = r]
    BY <1>1 DEF q
  <2>3. /\ r \in SurfaceState /\ r.pending = q /\ r.alive = p.alive /\ r.role = p.role
        /\ r.cached = p.cached /\ r.current = p.current /\ r.pending_commit = p.pending_commit
        /\ SameNode(p, r)
    BY SMTT(30), <1>5, <2>1 DEF SurfaceState, SameNode
  <2> HIDE DEF r
  <2>4. surface' \in [Surfaces -> SurfaceState] /\ surface'[s] = r
    BY <1>3, <2>2, <2>3
  <2>5. surface' = [surface EXCEPT ![s].pending = q]
    BY <1>1 DEF q
  <2>6. ASSUME NEW t \in Surfaces
        PROVE  /\ t # s => surface'[t] = surface[t]
               /\ surface'[t].alive = surface[t].alive /\ surface'[t].role = surface[t].role
               /\ surface'[t].cached = surface[t].cached /\ surface'[t].current = surface[t].current
               /\ surface'[t].pending_commit = surface[t].pending_commit
               /\ SameNode(surface[t], surface'[t])
    <3>1. CASE t = s
      BY <2>3, <2>4, <3>1
    <3>2. CASE t # s
      <4>1. surface'[t] = surface[t]
        BY <1>3, <2>2, <3>2
      <4> QED
        BY <3>2, <4>1 DEF SameNode
    <3> QED
      BY <3>1, <3>2
  <2> QED
    BY <2>3, <2>4, <2>5, <2>6
<1>7. /\ y.surface = surface' /\ y.busy = x.busy /\ y.waiting = x.waiting /\ y.reading = x.reading
      /\ y \in Working /\ frame' = nothing /\ crashed' = crashed
  <2>1. x \in Working
    BY ZenonT(30), <1>2 DEF Tree
  <2> QED
    BY <1>6, <2>1 DEF Attach, Work, Working, Frames
<1> HIDE DEF x, y
<1>8. Tree(y)
  <2>1. y.waiting \subseteq y.reading
    BY <1>2, <1>7 DEF Tree
  <2>2. \A t \in Surfaces : SameNode(x.surface[t], y.surface[t])
    BY <1>2, <1>6, <1>7
  <2> QED
    BY <1>2, <1>7, <2>1, <2>2, TreeKept
<1>9. ASSUME Contents(x)
      PROVE  Contents(y)
  <2>1. \A t \in Surfaces : t # none
    BY SurfacesAssumption
  <2>2. \A t \in Surfaces : Held(y, t, none) = Held(x, t, none) /\ y.surface[t].alive = x.surface[t].alive
    BY <1>2, <1>6, <1>7, <2>1 DEF Held
  <2>3. Kept(y, none)
    BY <1>7, <1>9, <2>2 DEF Contents, Kept
  <2>4. \A t \in Surfaces : LastCommit(y.surface, t) = LastCommit(x.surface, t)
    BY <1>2, <1>6, <1>7 DEF LastCommit, Waits
  <2>5. ASSUME NEW t \in Surfaces
        PROVE  OfferedAt(y, t)
    <3>1. CASE t = s
      <4>1. b \in (BuffersOf[s] \ x.busy) \cup {none, LastCommit(x.surface, s)}
        BY <1>1, <1>2, <1>4
      <4>2. y.surface[s].pending.buffer = b
        BY <1>5, <1>6, <1>7
      <4>3. y.busy = x.busy /\ LastCommit(y.surface, s) = LastCommit(x.surface, s)
        BY <1>7, <2>4
      <4>4. OfferedAt(y, s)
        BY <4>1, <4>2, <4>3 DEF OfferedAt
      <4> QED
        BY <3>1, <4>4
    <3>2. CASE t # s
      <4>1. OfferedAt(x, t)
        BY <1>9 DEF Contents
      <4>2. y.surface[t] = x.surface[t] /\ y.busy = x.busy
        BY <1>2, <1>6, <1>7, <3>2
      <4>3. LastCommit(y.surface, t) = LastCommit(x.surface, t)
        BY <2>4
      <4> QED
        BY SMTT(30), <4>1, <4>2, <4>3 DEF OfferedAt
    <3> QED
      BY <3>1, <3>2
  <2>6. b \in BuffersOf[s] \cup {none}
    <3>1. States(surface)
      BY SMTT(30), <1>2, <1>9 DEF Contents
    <3>2. LastCommit(surface, s) \in BuffersOf[s] \cup {none}
      BY SMTT(30), <3>1 DEF States, LastCommit
    <3> QED
      BY <1>1, <1>4, <3>2
  <2>7. States(y.surface)
    <3> SUFFICES ASSUME NEW t \in Surfaces
                 PROVE  /\ {y.surface[t].pending.buffer, y.surface[t].cached.buffer, y.surface[t].current}
                             \subseteq BuffersOf[t] \cup {none}
                        /\ y.surface[t].pending.buffer # none => y.surface[t].pending.attached
                        /\ (y.surface[t].cached.buffer # none =>
                              y.surface[t].cached.attached /\ y.surface[t].pending_commit)
                        /\ (y.surface[t].pending_commit => y.surface[t].role /\ t # Root)
      BY DEF States
    <3>1. States(surface)
      BY <1>2, <1>9 DEF Contents
    <3>2. CASE t = s
      BY <1>5, <1>6, <1>7, <2>6, <3>1, <3>2 DEF States
    <3>3. CASE t # s
      BY <1>6, <1>7, <3>1, <3>3 DEF States
    <3> QED
      BY SMTT(30), <3>2, <3>3
  <2> QED
    BY <2>3, <2>5, <2>7 DEF Contents
<1>10. Synchronized(surface) => Synchronized(surface)'
  BY <1>7, <1>8 DEF Tree
<1> QED
  BY ZenonT(30), <1>7, <1>8, <1>9, <1>10 DEF TreeSound, Tree, Plain, x, y, Frames

LEMMA FrameEndsKeeps ==
  ASSUME TreeSound, FrameEnds
  PROVE  TreeSound' /\ (Contents(Work(FALSE)) => Contents(Work(FALSE))')
<1> DEFINE x == Work(FALSE)
           y == Draw(x)
<1>1. Tree(x)
  BY ZenonT(30), WorkTree DEF FrameEnds
<1>2. Finish(y)
  BY ZenonT(30) DEF FrameEnds
<1> HIDE DEF x
<1>3. /\ y \in Working
      /\ y.surface = x.surface /\ y.busy = x.busy /\ y.waiting = x.waiting
      /\ x.reading \subseteq y.reading
  BY <1>1, DrawFields DEF Tree
<1> HIDE DEF y
<1>4. Tree(y)
  BY <1>1, <1>3 DEF Tree
<1>5. ASSUME Contents(x)
      PROVE  Contents(y)
  <2>1. \A t \in Surfaces : x.surface[t].pending_commit => x.surface[t].role
    BY <1>5 DEF Contents, States
  <2>2. \A t \in Surfaces : SameContents(x.surface[t], y.surface[t])
    BY SMTT(30), <1>3, <2>1 DEF SameContents
  <2> QED
    BY SMTT(30), <1>3, <1>5, <2>2, ContentsKept
<1> QED
  BY ZenonT(30), <1>2, <1>4, <1>5, FinishTree, FinishContents DEF x

LEMMA BufferIdleCallbackKeeps ==
  ASSUME TreeSound, NEW b \in Buffers, BufferIdleCallback(b)
  PROVE  TreeSound' /\ (Contents(Work(FALSE)) => Contents(Work(FALSE))')
<1> DEFINE x == Work(FALSE)
           y == Work(FALSE)'
<1>1. Tree(x)
  BY ZenonT(30), WorkTree DEF BufferIdleCallback
<1>2. /\ y.surface = x.surface /\ y.waiting = x.waiting \ {b} /\ y.reading = x.reading \ {b}
      /\ y.busy = IF b \in x.waiting THEN x.busy \ {b} ELSE x.busy
      /\ surface' = surface /\ x.surface = surface
      /\ frame' = nothing /\ crashed' = crashed
  BY DEF BufferIdleCallback, Work
<1>3. y \in Working
  BY <1>1 DEF BufferIdleCallback, Tree, Work, Working, Frames
<1> HIDE DEF x, y
<1>4. Tree(y)
  BY SMTT(30), <1>1, <1>2, <1>3 DEF Tree
<1>5. ASSUME Contents(x)
      PROVE  Contents(y)
  <2>1. \A t \in Surfaces : Held(y, t, none) = Held(x, t, none)
    BY <1>2 DEF Held
  <2>2. Kept(x, none)
    BY SMTT(30), <1>5 DEF Contents
  <2>3. y.waiting \subseteq y.busy /\ y.waiting \subseteq y.reading /\ y.busy \ y.waiting = x.busy \ x.waiting
    BY <1>2, <2>2 DEF Kept
  <2>4. Kept(y, none)
    <3> SUFFICES ASSUME NEW t \in Surfaces
                 PROVE  /\ Held(y, t, none) \subseteq ((y.busy \ y.waiting) \cap BuffersOf[t]) \cup {none}
                        /\ y.surface[t].alive => BuffersOf[t] \cap y.busy \subseteq y.waiting \cup Held(y, t, none)
      BY <2>3 DEF Kept
    <3> QED
      BY <1>2, <2>1, <2>2, <2>3 DEF Kept
  <2>5. ASSUME NEW t \in Surfaces
        PROVE  OfferedAt(y, t)
    <3>1. OfferedAt(x, t)
      BY <1>5 DEF Contents
    <3> QED
      BY <1>2, <3>1 DEF OfferedAt
  <2> QED
    BY <1>2, <1>5, <2>4, <2>5 DEF Contents
<1> QED
  BY ZenonT(30), <1>2, <1>4, <1>5 DEF TreeSound, Tree, Plain, x, y, Frames

-----------------------------------------------------------------------------
(* The theorems. *)

LEMMA InitSound == Init => BuffersSound
<1> SUFFICES ASSUME Init
             PROVE  BuffersSound
  OBVIOUS
<1> DEFINE x == Work(FALSE)
<1>1. /\ x.surface = surface /\ x.busy = {} /\ x.waiting = {} /\ x.reading = {} /\ frame = nothing
      /\ surface = [s \in Surfaces |-> InitSurface(s)]
  BY DEF Init, Work
<1>2. InitState \in State /\ <<>> \in Seq(Surfaces)
  BY InitStateIs
<1>3. \A s \in Surfaces : InitSurface(s) \in SurfaceState
  BY <1>2 DEF InitSurface, SurfaceState
<1>4. x \in Working
  BY <1>1, <1>3 DEF Init, Work, Working, Frames
<1> HIDE DEF x
<1>5. \A s \in Surfaces : surface[s] = InitSurface(s)
  BY <1>1
<1>6. \A s \in Surfaces : s # none
  BY SurfacesAssumption
<1>7. Listed(surface)
  <2>1. IsInjective(<<>>) /\ ToSet(<<>>) = {}
    BY DEF IsInjective, ToSet
  <2>2. ASSUME NEW s \in Surfaces
        PROVE  surface[s].children = <<>> /\ surface[s].parent = none
    <3>1. surface[s] = InitSurface(s)
      BY <1>5
    <3> QED
      BY <3>1 DEF InitSurface
  <2>3. ASSUME NEW s \in Surfaces
        PROVE  ToSet(surface[s].children) = {t \in Surfaces : surface[t].parent = s}
    BY <1>6, <2>1, <2>2
  <2> QED
    BY <2>1, <2>2, <2>3 DEF Listed
<1>8. Forest(surface)
  <2>1. \A s \in Surfaces : surface[s].parent = none
    <3> SUFFICES ASSUME NEW s \in Surfaces
                 PROVE  surface[s].parent = none
      OBVIOUS
    <3>1. surface[s] = InitSurface(s)
      BY <1>5
    <3> QED
      BY <3>1 DEF InitSurface
  <2>2. [s \in Surfaces |-> 0] \in [Surfaces -> 0 .. 0] /\ Ranked(surface, [s \in Surfaces |-> 0])
    BY <2>1 DEF Ranked
  <2>3. 0 \in Nat /\ \E rank \in [Surfaces -> 0 .. 0] : Ranked(surface, rank)
    BY <2>2
  <2> QED
    BY <2>1, <2>3 DEF Forest
<1>9. Synchronized(surface)
  <2> SUFFICES ASSUME NEW s \in Surfaces
               PROVE  SyncAt(surface, s) /\ (surface[s].should_be_desync => surface[s].role)
    BY DEF Synchronized
  <2>1. surface[s] = InitSurface(s)
    BY <1>5
  <2>2. surface[s].synchronous = FALSE /\ surface[s].should_be_desync = FALSE
    BY <2>1 DEF InitSurface
  <2>3. s # Root => surface[s].role = FALSE
    <3> DEFINE isRoot == s = Root
    <3>1. InitSurface(s) =
            [alive |-> TRUE, role |-> isRoot, typed |-> isRoot,
             pending |-> InitState, cached |-> InitState, current |-> none,
             parent |-> none, children |-> <<>>,
             synchronous |-> FALSE, should_be_desync |-> FALSE,
             pending_commit |-> FALSE, uninserted |-> FALSE]
      BY ZenonT(30) DEF InitSurface
    <3>2. s # Root => isRoot = FALSE
      BY ZenonT(30)
    <3> HIDE DEF isRoot
    <3>3. InitSurface(s).role = isRoot
      BY SMTT(30), <3>1
    <3> QED
      BY <2>1, <3>2, <3>3
  <2> QED
    BY <2>2, <2>3 DEF SyncAt
<1>10. Contents(x)
  BY <1>1, <1>5 DEF Contents, States, Kept, Held, OfferedAt, InitSurface, InitState
<1> QED
  BY ZenonT(30), <1>1, <1>4, <1>7, <1>8, <1>9, <1>10 DEF BuffersSound, TreeSound, Plain, x, Frames

LEMMA NextTree ==
  ASSUME TreeSound, [Next]_vars
  PROVE  TreeSound'
<1>1. CASE FrameEnds
  BY <1>1, FrameEndsKeeps
<1>2. CASE \E b \in Buffers : BufferIdleCallback(b)
  BY ZenonT(30), <1>2, BufferIdleCallbackKeeps
<1>3. ASSUME NEW s \in Surfaces,
             \/ Attach(s) \/ ClientCommit(s)
             \/ DestroySubsurface(s) \/ DestroySurface(s)
             \/ SetSync(s) \/ SetDesync(s)
      PROVE  TreeSound'
  <2>1. CASE Attach(s)
    BY ZenonT(30), <2>1, AttachKeeps
  <2>2. CASE ClientCommit(s)
    BY ZenonT(30), <2>2, ClientCommitKeeps
  <2>3. CASE DestroySubsurface(s)
    BY ZenonT(30), <2>3, DestroySubsurfaceKeeps
  <2>4. CASE DestroySurface(s)
    BY ZenonT(30), <2>4, DestroySurfaceKeeps
  <2>5. CASE SetSync(s)
    BY ZenonT(30), <2>5, SetSyncActionKeeps
  <2>6. CASE SetDesync(s)
    BY ZenonT(30), <2>6, SetDesyncActionKeeps
  <2> QED
    BY <1>3, <2>1, <2>2, <2>3, <2>4, <2>5, <2>6
<1>4. CASE \E s \in NonRoot : \E parent \in Parents[s] : GetSubsurface(s, parent)
  BY ZenonT(30), <1>4, GetSubsurfaceActionKeeps
<1>5. CASE UNCHANGED vars
  BY <1>5 DEF vars, TreeSound, Plain, Work
<1> QED
  BY <1>1, <1>2, <1>3, <1>4, <1>5 DEF Next

\* At every moment the tree is a tree, and its synchronization what it should be.
LEMMA AlwaysTree == Spec => []TreeSound
<1>1. Init => TreeSound
  BY InitSound DEF BuffersSound
<1>2. TreeSound /\ [Next]_vars => TreeSound'
  BY NextTree
<1> QED
  BY <1>1, <1>2, PTL DEF Spec

\* Whatever clients ask for, and even where a set_desync crashes the compositor,
\* the state has its type: in particular the list of subsurfaces that every
\* surface keeps has exactly those that name it as their parent, each once,
\* through get_subsurface, every teardown, and the destruction of a parent.
THEOREM TypeCorrect == Spec => []TypeOK
<1>1. TreeSound => TypeOK
  BY DEF TreeSound, Plain, Work, Working, Frames, Listed, TypeOK
<1> QED
  BY <1>1, AlwaysTree, PTL

\* The flag "synchronous" of every subsurface says what the protocol defines of
\* the whole chain of its parents, after any sequence of the requests that
\* update it along the tree, until the use of a missing role, if it ever
\* happens, ends the compositor.
THEOREM SynchronizedUntilCrash == Spec => [](crashed \/ SyncConsistent)
<1>1. TreeSound => crashed \/ SyncConsistent
  BY DEF TreeSound, Synchronized, SyncAt, SyncConsistent
<1> QED
  BY <1>1, AlwaysTree, PTL

\* If no client desynchronizes a child of a surface that lost its role, it
\* never happens: the flag is right at every moment.
THEOREM AlwaysSynchronized ==
  ASSUME ~DetachedDesync
  PROVE  Spec => []SyncConsistent
<1>1. Init => ~crashed
  BY DEF Init
<1>2. ASSUME ~crashed, [Next]_vars
      PROVE  ~crashed'
  <2>1. CASE FrameEnds
    BY <1>2, <2>1 DEF FrameEnds
  <2>2. CASE \E b \in Buffers : BufferIdleCallback(b)
    BY <1>2, <2>2 DEF BufferIdleCallback
  <2>3. ASSUME NEW s \in Surfaces,
               \/ Attach(s) \/ ClientCommit(s)
               \/ DestroySubsurface(s) \/ DestroySurface(s)
               \/ SetSync(s) \/ SetDesync(s)
        PROVE  ~crashed'
    <3>1. CASE Attach(s)
      BY <1>2, <3>1 DEF Attach
    <3>2. CASE ClientCommit(s)
      BY <1>2, <3>2 DEF ClientCommit
    <3>3. CASE DestroySubsurface(s)
      BY <1>2, <3>3 DEF DestroySubsurface
    <3>4. CASE DestroySurface(s)
      BY <1>2, <3>4 DEF DestroySurface
    <3>5. CASE SetSync(s)
      BY <1>2, <3>5 DEF SetSync
    <3>6. CASE SetDesync(s)
      <4>1. crashed' = ParentRoleMissing(s) /\ ~ParentRoleMissing(s)
        BY <3>6 DEF SetDesync
      <4> QED
        BY <4>1
    <3> QED
      BY <2>3, <3>1, <3>2, <3>3, <3>4, <3>5, <3>6
  <2>4. CASE \E s \in NonRoot : \E parent \in Parents[s] : GetSubsurface(s, parent)
    BY <1>2, <2>4 DEF GetSubsurface
  <2>5. CASE UNCHANGED vars
    BY <1>2, <2>5 DEF vars
  <2> QED
    BY <1>2, <2>1, <2>2, <2>3, <2>4, <2>5 DEF Next
<1>3. Spec => []~crashed
  BY <1>1, <1>2, PTL DEF Spec
<1> QED
  BY <1>3, SynchronizedUntilCrash, PTL

\* No buffer is lost and none is released early.  Destroying the role of a
\* subsurface while a state waits in its cache breaks this, so it is assumed
\* that clients destroy roles only when their last commit was applied; they
\* may destroy surfaces at any time.
THEOREM BuffersAlwaysAccounted ==
  ASSUME Destroys \subseteq {"applied"}
  PROVE  Spec => []BuffersAccounted
<1>1. Init => BuffersSound
  BY InitSound
<1>2. ASSUME BuffersSound, [Next]_vars
      PROVE  BuffersSound'
  <2>1. TreeSound' /\ TreeSound /\ Contents(Work(FALSE))
    BY ZenonT(30), <1>2, NextTree DEF BuffersSound
  <2>2. CASE FrameEnds
    BY ZenonT(30), <2>1, <2>2, FrameEndsKeeps DEF BuffersSound
  <2>3. CASE \E b \in Buffers : BufferIdleCallback(b)
    BY ZenonT(30), <2>1, <2>3, BufferIdleCallbackKeeps DEF BuffersSound
  <2>4. ASSUME NEW s \in Surfaces,
               \/ Attach(s) \/ ClientCommit(s)
               \/ DestroySubsurface(s) \/ DestroySurface(s)
               \/ SetSync(s) \/ SetDesync(s)
        PROVE  BuffersSound'
    <3>1. CASE Attach(s)
      BY ZenonT(30), <2>1, <3>1, AttachKeeps DEF BuffersSound
    <3>2. CASE ClientCommit(s)
      BY ZenonT(30), <2>1, <3>2, ClientCommitKeeps DEF BuffersSound
    <3>3. CASE DestroySubsurface(s)
      <4>1. ~surface[s].pending_commit
        BY <3>3 DEF DestroySubsurface
      <4> QED
        BY ZenonT(30), <2>1, <3>3, <4>1, DestroySubsurfaceKeeps DEF BuffersSound
    <3>4. CASE DestroySurface(s)
      BY ZenonT(30), <2>1, <3>4, DestroySurfaceKeeps DEF BuffersSound
    <3>5. CASE SetSync(s)
      BY ZenonT(30), <2>1, <3>5, SetSyncActionKeeps DEF BuffersSound
    <3>6. CASE SetDesync(s)
      BY ZenonT(30), <2>1, <3>6, SetDesyncActionKeeps DEF BuffersSound
    <3> QED
      BY <2>4, <3>1, <3>2, <3>3, <3>4, <3>5, <3>6
  <2>5. CASE \E s \in NonRoot : \E parent \in Parents[s] : GetSubsurface(s, parent)
    BY ZenonT(30), <2>1, <2>5, GetSubsurfaceActionKeeps DEF BuffersSound
  <2>6. CASE UNCHANGED vars
    BY <2>1, <2>6 DEF vars, BuffersSound, Work
  <2> QED
    BY <1>2, <2>2, <2>3, <2>4, <2>5, <2>6 DEF Next
<1>3. ASSUME BuffersSound
      PROVE  BuffersAccounted
  <2>1. Kept(Work(FALSE), none)
    BY ZenonT(30), <1>3 DEF BuffersSound, Contents
  <2>2. \A s \in Surfaces : s # none
    BY SurfacesAssumption
  <2>3. /\ waiting \subseteq busy
        /\ \A s \in Surfaces :
             /\ {surface[s].current, surface[s].cached.buffer}
                  \subseteq ((busy \ waiting) \cap BuffersOf[s]) \cup {none}
             /\ surface[s].alive =>
                  BuffersOf[s] \cap busy \subseteq waiting \cup {surface[s].current, surface[s].cached.buffer}
    BY <2>1, <2>2 DEF Kept, Held, Work
  <2>4. BusyBufferHeld
    BY <2>3 DEF BusyBufferHeld
  <2>5. DisplayedNotReleased
    BY <2>3 DEF DisplayedNotReleased, Committed
  <2> QED
    BY <2>4, <2>5 DEF BuffersAccounted
<1> QED
  BY <1>1, <1>2, <1>3, PTL DEF Spec

-----------------------------------------------------------------------------
(***************************************************************************)
(* The refinement: Surface implements AtomicSurfaces.  What that defines   *)
(* by recursion along the parents is what the code computes (Synchronized- *)
(* Is and AppliedWithIs), so every action is a step of it or stutters.     *)
(***************************************************************************)

\* A surface has a commit that its parent will apply, and what that is.
Awaits(sf, s) == s # Root /\ sf[s].role /\ sf[s].pending_commit
Awaited(sf, s) == IF Awaits(sf, s) THEN LastCommit(sf, s) ELSE nothing

\* Only subsurfaces wait for a parent.
OnlyRolesWait(sf) == \A s \in Surfaces : sf[s].pending_commit => sf[s].role /\ s # Root

LEMMA CommittedIs ==
  /\ \A s : Committed(s) = LastCommit(surface, s)
  /\ \A s : Committed(s)' = LastCommit(surface', s)
BY DEF Committed, LastCommit, Waits

\* A function that is defined by recursion along the parents is the only one
\* that satisfies its definition.
LEMMA ParentInduction ==
  ASSUME NEW sf \in [Surfaces -> SurfaceState], Forest(sf), NEW S \in SUBSET Surfaces,
         \A s \in Surfaces : (sf[s].parent # none => sf[s].parent \in S) => s \in S
  PROVE  S = Surfaces
<1>1. PICK n \in Nat : \E rank \in [Surfaces -> 0 .. n] : Ranked(sf, rank)
  BY DEF Forest
<1>2. PICK rank \in [Surfaces -> 0 .. n] : Ranked(sf, rank)
  BY <1>1
<1> DEFINE P == {m \in Nat : \A s \in Surfaces : n - rank[s] < m => s \in S}
<1>3. 0 \in P
  BY <1>2
<1>4. ASSUME NEW m \in Nat, m \in P
      PROVE  m + 1 \in P
  <2>1. ASSUME NEW s \in Surfaces, n - rank[s] < m + 1
        PROVE  s \in S
    <3>1. ASSUME sf[s].parent # none
          PROVE  sf[s].parent \in S
      <4>1. sf[s].parent \in Surfaces
        BY <3>1 DEF SurfaceState
      <4>2. rank[s] < rank[sf[s].parent]
        BY <1>2, <3>1 DEF Ranked
      <4>3. n - rank[sf[s].parent] < m
        BY <1>2, <2>1, <4>1, <4>2
      <4> QED
        BY <1>4, <4>1, <4>3
    <3> QED
      BY <3>1
  <2> QED
    BY <2>1
<1> HIDE DEF P
<1>5. n + 1 \in P
  BY <1>3, <1>4, SetInduction
<1>6. \A s \in Surfaces : n - rank[s] < n + 1
  BY <1>2
<1> QED
  BY <1>5, <1>6 DEF P

\* What AtomicSurfaces calls synchronized is what the flags say.
LEMMA SynchronizedIs ==
  ASSUME surface \in [Surfaces -> SurfaceState], Forest(surface), Synchronized(surface),
         NEW s \in Surfaces
  PROVE  Promised!Synchronized[s] = surface[s].synchronous
<1> DEFINE Is(f) == f = [t \in Surfaces |->
             /\ t # Root /\ surface[t].role
             /\ ~surface[t].should_be_desync \/ (surface[t].parent # none /\ f[surface[t].parent])]
           flags == [t \in Surfaces |-> surface[t].synchronous]
           it == CHOOSE f : Is(f)
<1>1. Is(flags)
  <2>1. ASSUME NEW t \in Surfaces
        PROVE  surface[t].synchronous =
                 (/\ t # Root /\ surface[t].role
                  /\ ~surface[t].should_be_desync
                     \/ (surface[t].parent # none /\ flags[surface[t].parent]))
    <3>1. surface[t].synchronous \in BOOLEAN /\ (surface[t].parent # none => surface[t].parent \in Surfaces)
      BY DEF SurfaceState
    <3>2. SyncAt(surface, t)
      BY DEF Synchronized
    <3> QED
      BY <3>1, <3>2, ZenonT(30) DEF SyncAt
  <2> QED
    BY <2>1, ZenonT(30)
<1>2. Is(it)
  BY <1>1, ZenonT(30)
<1>3. Promised!Synchronized = it
  BY ZenonT(30) DEF Promised!Synchronized
<1> HIDE DEF it
<1> DEFINE S == {t \in Surfaces : it[t] = flags[t]}
<1>4. ASSUME NEW t \in Surfaces, surface[t].parent # none => surface[t].parent \in S
      PROVE  t \in S
  <2>1. surface[t].parent # none => it[surface[t].parent] = flags[surface[t].parent]
    BY <1>4
  <2> HIDE DEF flags
  <2>2. flags[t] = (/\ t # Root /\ surface[t].role
                    /\ ~surface[t].should_be_desync
                       \/ (surface[t].parent # none /\ flags[surface[t].parent]))
    BY <1>1, ZenonT(30)
  <2>3. it[t] = (/\ t # Root /\ surface[t].role
                 /\ ~surface[t].should_be_desync
                    \/ (surface[t].parent # none /\ it[surface[t].parent]))
    BY <1>2, ZenonT(30)
  <2> QED
    BY <2>1, <2>2, <2>3, ZenonT(30)
<1>5. S = Surfaces
  <2> HIDE DEF S
  <2> QED
    BY <1>4, ParentInduction, ZenonT(30) DEF S
<1> QED
  BY <1>3, <1>5, ZenonT(30)

\* What it calls applied with s is any set that the commits below s reach.
Reaches(sf, A, s) ==
  /\ A \subseteq Surfaces /\ s \in A
  /\ \A t \in Surfaces : t # s => (t \in A <=> sf[t].parent \in A /\ sf[t].pending_commit)

LEMMA AppliedWithIs ==
  ASSUME surface \in [Surfaces -> SurfaceState], Forest(surface),
         NEW s \in Surfaces, NEW A, Reaches(surface, A, s)
  PROVE  Promised!AppliedWith(s) = A
<1> DEFINE waits == [t \in Surfaces |-> IF t # Root /\ surface[t].role /\ surface[t].pending_commit
                                       THEN Committed(t) ELSE nothing]
           parents == [t \in Surfaces |-> surface[t].parent]
           Is(f) == f = [t \in Surfaces |->
             t = s \/ (/\ waits[t] # nothing
                      /\ parents[t] # none
                      /\ f[parents[t]])]
           flags == [t \in Surfaces |-> t \in A]
           it == CHOOSE f : Is(f)
<1>0. Promised!AppliedWith(s) = {t \in Surfaces : it[t]}
  BY DEF Promised!AppliedWith
<1>1. \A t \in Surfaces : parents[t] = surface[t].parent /\ (parents[t] # none => parents[t] \in Surfaces)
  BY SMTT(30) DEF SurfaceState
<1>2. ASSUME NEW t \in Surfaces, parents[t] # none
      PROVE  waits[t] # nothing <=> surface[t].pending_commit
  <2>1. LastCommit(surface, t) # nothing
    <3>1. {surface[t].cached.buffer, surface[t].current} \subseteq Buffers \cup {none}
      BY DEF SurfaceState, State
    <3> QED
      BY <3>1, SurfacesAssumption DEF LastCommit, Buffers
  <2>2. t # Root /\ surface[t].role
    BY <1>2 DEF Forest
  <2> QED
    BY <2>1, <2>2, CommittedIs
<1> HIDE DEF waits, parents
<1>3. ASSUME NEW t \in Surfaces
      PROVE  flags[t] = (t = s \/ (/\ waits[t] # nothing
                                  /\ parents[t] # none
                                  /\ flags[parents[t]]))
  <2>1. none \notin A /\ A \subseteq Surfaces
    BY SurfacesAssumption DEF Reaches
  <2>2. CASE t = s
    BY <2>2 DEF Reaches
  <2>3. CASE t # s /\ parents[t] = none
    BY <1>1, <2>1, <2>3 DEF Reaches
  <2>4. CASE t # s /\ parents[t] # none
    <3>1. waits[t] # nothing <=> surface[t].pending_commit
      BY <1>2, <2>4
    <3>2. parents[t] \in Surfaces /\ parents[t] = surface[t].parent
      BY SMTT(30), <1>1, <2>4
    <3>3. t \in A <=> parents[t] \in A /\ surface[t].pending_commit
      BY <2>4, <3>2 DEF Reaches
    <3>4. flags[t] = (t \in A) /\ flags[parents[t]] = (parents[t] \in A)
      BY <3>2
    <3> HIDE DEF flags
    <3>5. (t \in A) = (parents[t] \in A /\ waits[t] # nothing)
      BY <3>1, <3>3
    <3> QED
      BY <2>4, <3>4, <3>5, ZenonT(30)
  <2> QED
    BY <2>2, <2>3, <2>4
<1>5. Is(flags)
  <2>1. flags = [t \in Surfaces |-> flags[t]]
    OBVIOUS
  <2> HIDE DEF flags
  <2> QED
    BY <1>3, <2>1
<1>6. Is(it)
  BY <1>5
<1>7. \A t \in Surfaces : it[t] = (t = s \/ (/\ waits[t] # nothing
                                          /\ parents[t] # none
                                          /\ it[parents[t]]))
  BY <1>6, ZenonT(30)
<1> HIDE DEF it
<1> DEFINE S == {t \in Surfaces : it[t] = flags[t]}
<1>8. ASSUME NEW t \in Surfaces, surface[t].parent # none => surface[t].parent \in S
      PROVE  t \in S
  <2>1. parents[t] # none => it[parents[t]] = flags[parents[t]]
    BY <1>1, <1>8
  <2> HIDE DEF flags
  <2> QED
    BY <1>3, <1>7, <2>1
<1>9. S = Surfaces
  <2> HIDE DEF S
  <2> QED
    BY <1>8, ParentInduction, ZenonT(30) DEF S
<1> QED
  BY <1>0, <1>9, ZenonT(30) DEF Reaches

LEMMA ReachesApplied ==
  ASSUME NEW x, x.surface \in [Surfaces -> SurfaceState], Listed(x.surface), Forest(x.surface),
         NEW s \in Surfaces
  PROVE  Reaches(x.surface, Applied(x, s), s)
<1>1. Applied(x, s) \subseteq Surfaces /\ s \in Applied(x, s)
  BY AppliedBelow
<1> QED
  BY <1>1, AppliedAre DEF Reaches

-----------------------------------------------------------------------------
(* What commits do to what the client sees. *)

\* The surfaces A below s were applied along with it, and s shows content.
AppliedAlong(sf, tf, A, s) ==
  \A t \in Surfaces : t # s =>
    /\ tf[t].current = IF t \in A THEN Awaited(sf, t) ELSE sf[t].current
    /\ Awaited(tf, t) = IF t \in A THEN nothing ELSE Awaited(sf, t)

SameNodes(sf, tf) == \A t \in Surfaces : SameNode(sf[t], tf[t])

\* No surface begins to wait.
NoneWaits(sf, tf) == \A t \in Surfaces : tf[t].pending_commit => sf[t].pending_commit

CommitsWith(x, z, A, top, from) ==
  /\ z \in Working
  /\ AppliedAlong(x.surface, z.surface, A, top)
  /\ SameNodes(x.surface, z.surface) /\ NoneWaits(x.surface, z.surface)
  /\ z.surface[top].pending_commit = x.surface[top].pending_commit
  /\ z.surface[top].current = IF x.surface[top][from].attached THEN x.surface[top][from].buffer
                              ELSE x.surface[top].current

LEMMA CommitApplies ==
  ASSUME NEW x \in Working, Listed(x.surface), Forest(x.surface), OnlyRolesWait(x.surface),
         NEW top \in Surfaces, NEW from \in {"pending", "cached"},
         NEW z, z = InternalCommit(x, top, from)
  PROVE  CommitsWith(x, z, Applied(x, top), top, from)
<1> DEFINE A == Applied(x, top)
<1>1. /\ z \in Working
      /\ \A s \in Surfaces :
           Outcome(x.surface[s], z.surface[s], From(s, top, from), s \in A, x.surface[s].parent \in A)
  BY CommitOutcome
<1>2. /\ x.surface[top].parent \notin A
      /\ \A s \in Surfaces :
           s # top => (s \in A <=> x.surface[s].parent \in A /\ x.surface[s].pending_commit)
  BY AppliedAre DEF Working
<1>3. top \in A
  BY AppliedBelow DEF Working
<1> HIDE DEF A
<1>4. x.surface \in [Surfaces -> SurfaceState] /\ z.surface \in [Surfaces -> SurfaceState]
  BY <1>1 DEF Working
<1>5. SameNodes(x.surface, z.surface) /\ NoneWaits(x.surface, z.surface)
  BY <1>1, <1>4 DEF SameNodes, NoneWaits, Outcome, Progressed, SurfaceState
<1>6. From(top, top, from) = from
  BY DEF From
<1>7. z.surface[top].pending_commit = x.surface[top].pending_commit
  <2>1. z.surface[top].pending_commit \in BOOLEAN /\ x.surface[top].pending_commit \in BOOLEAN
    BY <1>4 DEF SurfaceState
  <2>2. Outcome(x.surface[top], z.surface[top], from, top \in A, x.surface[top].parent \in A)
    BY <1>1, <1>6
  <2> QED
    BY <1>2, <2>1, <2>2 DEF Outcome, Progressed
<1>8. z.surface[top].current = IF x.surface[top][from].attached THEN x.surface[top][from].buffer
                               ELSE x.surface[top].current
  BY <1>1, <1>3, <1>6 DEF Outcome, Progressed
<1>9. ASSUME NEW s \in Surfaces, s # top
      PROVE  /\ z.surface[s].current = IF s \in A THEN Awaited(x.surface, s) ELSE x.surface[s].current
             /\ Awaited(z.surface, s) = IF s \in A THEN nothing ELSE Awaited(x.surface, s)
  <2> DEFINE p == x.surface[s]
             q == z.surface[s]
  <2>1. Outcome(p, q, "cached", s \in A, p.parent \in A)
    BY <1>1, <1>9 DEF From
  <2>2. p \in SurfaceState /\ q \in SurfaceState
    BY <1>4
  <2> HIDE DEF p, q
  <2>3. CASE s \in A
    <3>1. p.parent \in A /\ p.pending_commit /\ p.role /\ s # Root
      BY <1>2, <1>9, <2>3 DEF p, OnlyRolesWait
    <3>2. ~q.pending_commit /\ q.current = IF p.cached.attached THEN p.cached.buffer ELSE p.current
      BY SMTT(30), <2>1, <2>3, <3>1 DEF Outcome, Progressed
    <3>3. Awaited(x.surface, s) = IF p.cached.attached THEN p.cached.buffer ELSE p.current
      BY SMTT(30), <3>1 DEF Awaited, Awaits, LastCommit, Waits, p
    <3> QED
      BY <2>3, <3>2, <3>3 DEF Awaited, Awaits, q
  <2>4. CASE s \notin A
    <3>1. ~(p.parent \in A /\ p.pending_commit)
      BY SMTT(30), <1>2, <1>9, <2>4 DEF p
    <3>2. /\ q.current = p.current /\ q.cached.buffer = p.cached.buffer /\ q.role = p.role
          /\ q.cached.attached = p.cached.attached /\ q.pending_commit = p.pending_commit
      BY <2>1, <2>2, <2>4, <3>1 DEF Outcome, Progressed, SameNode, SurfaceState, State
    <3> QED
      BY SMTT(30), <2>4, <3>2 DEF Awaited, Awaits, LastCommit, Waits, p, q
  <2> QED
    BY <2>3, <2>4
<1> QED
  BY <1>1, <1>5, <1>7, <1>8, <1>9 DEF CommitsWith, AppliedAlong, A

LEMMA UnwaitingIs ==
  ASSUME NEW x \in Working, NEW s \in Surfaces, NEW y, y = Unwaiting(x, s)
  PROVE  /\ y \in Working /\ Others(x, y, s) /\ SameNode(x.surface[s], y.surface[s])
         /\ ~y.surface[s].pending_commit
         /\ y.surface[s].pending = x.surface[s].pending /\ y.surface[s].cached = x.surface[s].cached
         /\ y.surface[s].current = x.surface[s].current
<1>1. y \in Working /\ Others(x, y, s) /\ SameNode(x.surface[s], y.surface[s])
  BY UnwaitingFields
<1>2. x.surface[s] \in SurfaceState /\ x.surface \in [Surfaces -> SurfaceState]
  BY DEF Working
<1>3. y.surface[s] = [x.surface[s] EXCEPT !.pending_commit = FALSE]
  BY <1>2, ZenonT(30) DEF Unwaiting, Working
<1> QED
  BY <1>1, <1>2, <1>3 DEF SurfaceState

\* A surface with a state in its cache that the next commit goes before.
LEMMA MergeCachedIs ==
  ASSUME NEW x \in Working, NEW s \in Surfaces, OnlyRolesWait(x.surface),
         NEW y, y = MergeCachedState(x, s)
  PROVE  /\ y \in Working /\ Others(x, y, s) /\ SameNode(x.surface[s], y.surface[s])
         /\ ~y.surface[s].pending_commit
         /\ y.surface[s].pending.attached = x.surface[s].pending.attached
         /\ y.surface[s].pending.buffer = x.surface[s].pending.buffer
<1> DEFINE m == Merge(x, s, "cached")
<1>1. CASE x.surface[s].role /\ x.surface[s].pending_commit
  <2>1. m \in Working /\ Others(x, m, s) /\ Merged(x.surface[s], m.surface[s], "cached")
    BY SMTT(30), MergeFields
  <2>2. y = Unwaiting(m, s)
    BY SMTT(30), <1>1 DEF MergeCachedState, Unwaiting
  <2> HIDE DEF m
  <2>3. /\ y \in Working /\ Others(m, y, s) /\ SameNode(m.surface[s], y.surface[s])
        /\ ~y.surface[s].pending_commit /\ y.surface[s].pending = m.surface[s].pending
    BY <2>1, <2>2, UnwaitingIs
  <2> QED
    BY SMTT(30), <2>1, <2>3 DEF Merged, Others, SameNode
<1>2. CASE ~(x.surface[s].role /\ x.surface[s].pending_commit)
  <2>1. y = x
    BY SMTT(30), <1>2 DEF MergeCachedState
  <2> QED
    BY SMTT(30), <1>2, <2>1 DEF OnlyRolesWait, Others, SameNode
<1> QED
  BY SMTT(30), <1>1, <1>2

\* What a commit of s does: of a synchronous subsurface, and of another surface.
CommitWaits(x, y, s) ==
  /\ Others(x, y, s) /\ SameNode(x.surface[s], y.surface[s])
  /\ y.surface[s].current = x.surface[s].current
  /\ y.surface[s].pending_commit
  /\ y.surface[s].cached = x.surface[s].pending

CommitShows(x, y, s) ==
  /\ SameNodes(x.surface, y.surface) /\ NoneWaits(x.surface, y.surface)
  /\ ~y.surface[s].pending_commit
  /\ y.surface[s].current = x.surface[s].pending.buffer
  /\ \E A : Reaches(x.surface, A, s) /\ AppliedAlong(x.surface, y.surface, A, s)

LEMMA CommitIs ==
  ASSUME NEW x, Tree(x), OnlyRolesWait(x.surface), NEW s \in Surfaces, x.surface[s].pending.attached,
         NEW y, y = Commit(x, s)
  PROVE  IF x.surface[s].synchronous THEN CommitWaits(x, y, s) ELSE CommitShows(x, y, s)
<1>1. x \in Working /\ Listed(x.surface) /\ Forest(x.surface) /\ x.surface \in [Surfaces -> SurfaceState]
  BY SMTT(30) DEF Tree, Working
<1>2. x.surface[s].synchronous => x.surface[s].role
  BY SMTT(30) DEF Tree, Synchronized, SyncAt
<1>3. CASE x.surface[s].synchronous
  <2>1. y = Saved(x, s)
    BY SMTT(30), <1>2, <1>3 DEF Commit, Saved
  <2>2. Others(x, y, s) /\ Save(x, y, x.surface[s], y.surface[s])
    BY <1>1, <2>1, SavedFields
  <2> QED
    BY SMTT(30), <1>3, <2>2 DEF Save, CommitWaits
<1>4. CASE ~x.surface[s].synchronous
  <2> DEFINE m == MergeCachedState(x, s)
             A == Applied(m, s)
  <2>1. y = InternalCommit(m, s, "pending")
    BY <1>4 DEF Commit
  <2>2. /\ m \in Working /\ Others(x, m, s) /\ SameNode(x.surface[s], m.surface[s])
        /\ ~m.surface[s].pending_commit
        /\ m.surface[s].pending.attached = x.surface[s].pending.attached
        /\ m.surface[s].pending.buffer = x.surface[s].pending.buffer
    BY <1>1, MergeCachedIs, ZenonT(30)
  <2> HIDE DEF m
  <2>3. SameNodes(x.surface, m.surface) /\ NoneWaits(x.surface, m.surface)
    BY <2>2 DEF Others, SameNode, SameNodes, NoneWaits
  <2>4. Listed(m.surface) /\ Forest(m.surface)
    BY <1>1, <2>3, SameTree DEF SameNodes
  <2>5. OnlyRolesWait(m.surface)
    BY <2>3 DEF OnlyRolesWait, SameNodes, SameNode, NoneWaits
  <2>6. CommitsWith(m, y, A, s, "pending")
    BY <2>1, <2>2, <2>4, <2>5, CommitApplies
  <2>7. Reaches(m.surface, A, s)
    BY SMTT(30), <2>2, <2>4, ReachesApplied DEF Working
  <2> HIDE DEF A
  <2>8. Reaches(x.surface, A, s)
    BY SMTT(30), <2>2, <2>7 DEF Reaches, Others
  <2>9. AppliedAlong(x.surface, y.surface, A, s)
    BY SMTT(30), <2>2, <2>6 DEF CommitsWith, AppliedAlong, Others, Awaited, Awaits, LastCommit, Waits
  <2>10. SameNodes(x.surface, y.surface) /\ NoneWaits(x.surface, y.surface)
    BY SMTT(30), <2>3, <2>6 DEF CommitsWith, SameNodes, SameNode, NoneWaits
  <2>11. /\ ~y.surface[s].pending_commit
         /\ y.surface[s].current = x.surface[s].pending.buffer
    BY <2>2, <2>6, ZenonT(30) DEF CommitsWith
  <2> QED
    BY <1>4, <2>8, <2>9, <2>10, <2>11 DEF CommitShows
<1> QED
  BY SMTT(30), <1>3, <1>4

-----------------------------------------------------------------------------
(* What set_desync does. *)

\* What the client gave a surface, and where it is in the tree.
SameGiven(p, q) ==
  /\ q.role = p.role /\ q.parent = p.parent /\ q.current = p.current
  /\ q.cached = p.cached /\ q.pending_commit = p.pending_commit

SameAwaited(sf, tf) ==
  /\ \A t \in Surfaces : tf[t].current = sf[t].current /\ Awaited(tf, t) = Awaited(sf, t)

SamePlaces(sf, tf) ==
  \A t \in Surfaces : tf[t].role = sf[t].role /\ tf[t].parent = sf[t].parent

LEMMA GivenAwaited ==
  ASSUME NEW sf, NEW tf, \A t \in Surfaces : SameGiven(sf[t], tf[t])
  PROVE  SameAwaited(sf, tf) /\ SamePlaces(sf, tf) /\ NoneWaits(sf, tf)
BY DEF SameGiven, SameAwaited, SamePlaces, NoneWaits, Awaited, Awaits, LastCommit, Waits

LEMMA DesyncAskedIs ==
  ASSUME NEW x \in Working, NEW s \in Surfaces, NEW y, y = DesyncAsked(x, s)
  PROVE  /\ y \in Working /\ Others(x, y, s) /\ SameGiven(x.surface[s], y.surface[s])
         /\ y.surface[s].should_be_desync
<1> DEFINE q == [x.surface[s] EXCEPT !.should_be_desync = TRUE]
<1>1. x.surface[s] \in SurfaceState /\ x.surface \in [Surfaces -> SurfaceState]
  BY DEF Working
<1>2. q \in SurfaceState /\ SameGiven(x.surface[s], q) /\ q.should_be_desync
  BY <1>1, ZenonT(30) DEF SurfaceState, SameGiven
<1>3. y = Replace(x, s, q)
  BY SMTT(30), <1>1 DEF DesyncAsked, Replace
<1> HIDE DEF q
<1>4. Replaced(x, y, s, q)
  BY <1>2, <1>3, ReplaceFields
<1> QED
  BY <1>2, <1>4 DEF Replaced

\* What an application of the cached state does, and what set_desync does
\* when nothing is cached.
Desynchronizes(x, y, s) ==
  /\ SamePlaces(x.surface, y.surface) /\ NoneWaits(x.surface, y.surface)
  /\ \A t \in Surfaces : y.surface[t].should_be_desync = (t = s \/ x.surface[t].should_be_desync)

DesyncShows(x, y, s) ==
  /\ ~y.surface[s].pending_commit
  /\ y.surface[s].current = LastCommit(x.surface, s)
  /\ \E A : Reaches(x.surface, A, s) /\ AppliedAlong(x.surface, y.surface, A, s)

LEMMA SetDesync1Is ==
  ASSUME NEW x \in Working, NEW s, NEW y, y = SetDesync1(x, s)
  PROVE  SetsSync(x, y, Desynchronized(x, s), FALSE)
<1> DEFINE S == Desynchronized(x, s)
<1>1. y = [x EXCEPT !.surface = [t \in Surfaces |->
             IF t \in S THEN [x.surface[t] EXCEPT !.synchronous = FALSE] ELSE x.surface[t]]]
  BY DEF SetDesync1
<1> HIDE DEF S
<1>2. SetsSync(x, y, S, FALSE)
  BY <1>1, SetsSyncIs, ZenonT(30)
<1> QED
  BY <1>2, ZenonT(30) DEF S

LEMMA SetSync1Is ==
  ASSUME NEW x \in Working, NEW s, NEW y, y = SetSync1(x, s)
  PROVE  SetsSync(x, y, Below(x, s), TRUE)
<1> DEFINE S == Below(x, s)
<1>1. y = [x EXCEPT !.surface = [t \in Surfaces |->
             IF t \in S THEN [x.surface[t] EXCEPT !.synchronous = TRUE] ELSE x.surface[t]]]
  BY DEF SetSync1
<1> HIDE DEF S
<1>2. SetsSync(x, y, S, TRUE)
  BY <1>1, SetsSyncIs, ZenonT(30)
<1> QED
  BY <1>2, ZenonT(30) DEF S

LEMMA SetsSyncGiven ==
  ASSUME NEW x, NEW y, NEW s, SetsSync(x, y, Desynchronized(x, s), FALSE)
  PROVE  /\ \A t \in Surfaces : SameGiven(x.surface[t], y.surface[t])
         /\ \A t \in Surfaces : y.surface[t].should_be_desync = x.surface[t].should_be_desync
BY ZenonT(30) DEF SetsSync, SameBut, SameGiven

LEMMA DesyncIs ==
  ASSUME NEW x, Tree(x), OnlyRolesWait(x.surface), NEW s \in Surfaces, x.surface[s].role, s # Root,
         NEW y, y = NoteSubsurfaceDesynchronous(DesyncAsked(x, s), s)
  PROVE  /\ Desynchronizes(x, y, s)
         /\ IF x.surface[s].pending_commit THEN DesyncShows(x, y, s)
            ELSE SameAwaited(x.surface, y.surface)
<1> DEFINE m == DesyncAsked(x, s)
           d == Desynced(m, s)
           c == InternalCommit(d, s, "cached")
           a == Unwaiting(c, s)
<1>1. x \in Working /\ Listed(x.surface) /\ Forest(x.surface) /\ x.surface \in [Surfaces -> SurfaceState]
  BY DEF Tree, Working
<1>2. y = SetDesync1(IF m.surface[s].pending_commit THEN a ELSE d, s)
  BY DEF NoteSubsurfaceDesynchronous, Desynced, Unwaiting
<1>3. /\ m \in Working /\ Others(x, m, s) /\ SameGiven(x.surface[s], m.surface[s])
      /\ m.surface[s].should_be_desync
  BY <1>1, DesyncAskedIs
<1>4. Listed(m.surface) /\ Forest(m.surface)
  BY DesyncAskedKeeps
<1> HIDE DEF m
<1>5. /\ d \in Working /\ Others(m, d, s) /\ SameBut(m.surface[s], d.surface[s])
  BY SMTT(30), <1>3, DesyncedFields
<1>6. Listed(d.surface) /\ Forest(d.surface)
  BY <1>3, <1>4, <1>5, ChangeTree DEF SameBut
<1> HIDE DEF d
<1>7. \A t \in Surfaces :
        /\ SameGiven(x.surface[t], d.surface[t])
        /\ d.surface[t].should_be_desync = (t = s \/ x.surface[t].should_be_desync)
  <2>1. d.surface[s].should_be_desync = TRUE
    <3>1. d.surface[s].should_be_desync \in BOOLEAN
      BY SMTT(30), <1>5 DEF Working, SurfaceState
    <3> QED
      BY <1>3, <1>5, <3>1 DEF SameBut
  <2>2. SameGiven(x.surface[s], d.surface[s])
    BY <1>3, <1>5 DEF SameGiven, SameBut
  <2>3. ASSUME NEW t \in Surfaces, t # s
        PROVE  d.surface[t] = x.surface[t] /\ x.surface[t].should_be_desync \in BOOLEAN
    <3>1. d.surface[t] = x.surface[t]
      BY SMTT(30), <1>3, <1>5, <2>3 DEF Others
    <3> QED
      BY SMTT(30), <1>1, <3>1 DEF SurfaceState
  <2>4. ASSUME NEW t \in Surfaces
        PROVE  /\ SameGiven(x.surface[t], d.surface[t])
               /\ d.surface[t].should_be_desync = (t = s \/ x.surface[t].should_be_desync)
    <3>1. CASE t = s
      BY <2>1, <2>2, <3>1, ZenonT(30)
    <3>2. CASE t # s
      BY <2>3, <3>2 DEF SameGiven
    <3> QED
      BY <3>1, <3>2
  <2> QED
    BY SMTT(30), <2>4
<1>8. OnlyRolesWait(d.surface)
  BY <1>7 DEF OnlyRolesWait, SameGiven
<1>9. CASE ~x.surface[s].pending_commit
  <2>1. y = SetDesync1(d, s)
    BY <1>2, <1>3, <1>9 DEF SameGiven
  <2>2. SetsSync(d, y, Desynchronized(d, s), FALSE)
    BY <1>5, <2>1, SetDesync1Is, ZenonT(30)
  <2>3. \A t \in Surfaces :
          /\ SameGiven(d.surface[t], y.surface[t])
          /\ y.surface[t].should_be_desync = d.surface[t].should_be_desync
    BY <2>2, SetsSyncGiven, ZenonT(30)
  <2>4. \A t \in Surfaces :
          /\ SameGiven(x.surface[t], y.surface[t])
          /\ y.surface[t].should_be_desync = (t = s \/ x.surface[t].should_be_desync)
    BY SMTT(30), <1>7, <2>3 DEF SameGiven
  <2> QED
    BY <1>9, <2>4, GivenAwaited DEF Desynchronizes
<1>10. CASE x.surface[s].pending_commit
  <2> DEFINE A == Applied(d, s)
  <2>1. y = SetDesync1(a, s)
    BY <1>2, <1>3, <1>10 DEF SameGiven
  <2>2. CommitsWith(d, c, A, s, "cached")
    BY <1>5, <1>6, <1>8, CommitApplies
  <2>3. Reaches(d.surface, A, s)
    BY <1>5, <1>6, ReachesApplied DEF Working
  <2> HIDE DEF A, c
  <2>4. /\ a \in Working /\ Others(c, a, s) /\ SameNode(c.surface[s], a.surface[s])
        /\ ~a.surface[s].pending_commit /\ a.surface[s].current = c.surface[s].current
    BY <2>2, UnwaitingIs DEF CommitsWith
  <2> HIDE DEF a
  <2>5. SetsSync(a, y, Desynchronized(a, s), FALSE)
    BY <2>1, <2>4, SetDesync1Is, ZenonT(30)
  <2>6. \A t \in Surfaces :
          /\ SameGiven(a.surface[t], y.surface[t])
          /\ y.surface[t].should_be_desync = a.surface[t].should_be_desync
    BY <2>5, SetsSyncGiven, ZenonT(30)
  <2>7. Reaches(x.surface, A, s)
    BY <1>7, <2>3 DEF Reaches, SameGiven
  <2>8. ASSUME NEW t \in Surfaces, t # s
        PROVE  /\ y.surface[t].current = IF t \in A THEN Awaited(x.surface, t) ELSE x.surface[t].current
               /\ Awaited(y.surface, t) = IF t \in A THEN nothing ELSE Awaited(x.surface, t)
    <3>1. SameGiven(c.surface[t], y.surface[t])
      BY <2>4, <2>6, <2>8 DEF Others
    <3>2. /\ c.surface[t].current = IF t \in A THEN Awaited(d.surface, t) ELSE d.surface[t].current
          /\ Awaited(c.surface, t) = IF t \in A THEN nothing ELSE Awaited(d.surface, t)
      BY <2>2, <2>8 DEF CommitsWith, AppliedAlong
    <3>3. Awaited(d.surface, t) = Awaited(x.surface, t) /\ d.surface[t].current = x.surface[t].current
      BY <1>7, GivenAwaited, ZenonT(30) DEF SameAwaited
    <3>4. Awaited(y.surface, t) = Awaited(c.surface, t) /\ y.surface[t].current = c.surface[t].current
      BY <3>1 DEF SameGiven, Awaited, Awaits, LastCommit, Waits
    <3> QED
      BY <3>2, <3>3, <3>4
  <2>9. AppliedAlong(x.surface, y.surface, A, s)
    BY <2>8 DEF AppliedAlong
  <2>10. ~y.surface[s].pending_commit /\ y.surface[s].current = LastCommit(x.surface, s)
    <3>1. c.surface[s].current = IF x.surface[s].cached.attached THEN x.surface[s].cached.buffer
                                 ELSE x.surface[s].current
      BY SMTT(30), <1>7, <2>2 DEF CommitsWith, SameGiven
    <3> QED
      BY <1>10, <2>4, <2>6, <3>1 DEF SameGiven, LastCommit, Waits
  <2>11. Desynchronizes(x, y, s)
    <3>1. SameNodes(d.surface, a.surface) /\ NoneWaits(d.surface, a.surface)
      BY <2>2, <2>4 DEF CommitsWith, SameNodes, NoneWaits, Others, SameNode
    <3> QED
      BY SMTT(30), <1>7, <2>6, <3>1 DEF Desynchronizes, SamePlaces, NoneWaits, SameNodes, SameNode, SameGiven
  <2> QED
    BY <1>10, <2>7, <2>9, <2>10, <2>11 DEF DesyncShows
<1> QED
  BY <1>9, <1>10

-----------------------------------------------------------------------------
(* The steps of AtomicSurfaces. *)

LEMMA AwaitedIs ==
  /\ \A s : Awaited(surface, s) = IF s # Root /\ surface[s].role /\ surface[s].pending_commit
                                  THEN Committed(s) ELSE nothing
  /\ \A s : Awaited(surface', s) = IF s # Root /\ surface'[s].role /\ surface'[s].pending_commit
                                   THEN Committed(s)' ELSE nothing
BY CommittedIs DEF Awaited, Awaits

LEMMA PromisedApply ==
  ASSUME surface \in [Surfaces -> SurfaceState], Forest(surface),
         NEW s \in Surfaces, NEW A, Reaches(surface, A, s), AppliedAlong(surface, surface', A, s),
         ~surface'[s].pending_commit, NEW content, content = surface'[s].current
  PROVE  Promised!Apply(s, content)
<1>1. Promised!AppliedWith(s) = A
  BY AppliedWithIs
<1>2. s \in A
  BY DEF Reaches
<1>3. \A t \in Surfaces :
        surface'[t].current = IF t = s THEN content
                              ELSE IF t \in A
                                   THEN IF t # Root /\ surface[t].role /\ surface[t].pending_commit
                                        THEN Committed(t) ELSE nothing
                                   ELSE surface[t].current
  BY SMTT(30), AwaitedIs DEF AppliedAlong
<1>4. \A t \in Surfaces :
        (IF t # Root /\ surface'[t].role /\ surface'[t].pending_commit THEN Committed(t)' ELSE nothing)
        = IF t \in A THEN nothing
          ELSE IF t # Root /\ surface[t].role /\ surface[t].pending_commit THEN Committed(t) ELSE nothing
  <2>1. ASSUME NEW t \in Surfaces
        PROVE  Awaited(surface', t) = IF t \in A THEN nothing ELSE Awaited(surface, t)
    <3>1. CASE t = s
      BY SMTT(30), <1>2, <3>1 DEF Awaited, Awaits
    <3>2. CASE t # s
      BY SMTT(30), <3>2 DEF AppliedAlong
    <3> QED
      BY <3>1, <3>2
  <2> QED
    BY SMTT(30), <2>1, AwaitedIs
<1> QED
  BY <1>1, <1>3, <1>4 DEF Promised!Apply

\* Nothing is shown or awaited that was not.
LEMMA PromisedSame ==
  ASSUME SameAwaited(surface, surface')
  PROVE  UNCHANGED <<[s \in Surfaces |-> surface[s].current],
                     [s \in Surfaces |-> IF s # Root /\ surface[s].role /\ surface[s].pending_commit
                                         THEN Committed(s) ELSE nothing]>>
BY AwaitedIs DEF SameAwaited

LEMMA PromisedCommit ==
  ASSUME surface \in [Surfaces -> SurfaceState], Forest(surface), Synchronized(surface),
         NEW s \in Surfaces, surface[s].pending.attached,
         NEW x, x.surface = surface, NEW y, y.surface = surface',
         IF surface[s].synchronous THEN CommitWaits(x, y, s) ELSE CommitShows(x, y, s)
  PROVE  Promised!Commit(s)
<1>0. PICK content : content = surface[s].pending.buffer
  OBVIOUS
<1> DEFINE shown == [t \in Surfaces |-> surface[t].current]
           waits == [t \in Surfaces |-> IF t # Root /\ surface[t].role /\ surface[t].pending_commit
                                        THEN Committed(t) ELSE nothing]
           contents == Buffers \cup {none, Promised!Committed(s)}
           WaitsFor(c) == waits' = [waits EXCEPT ![s] = c]
<1>1. content \in Buffers \cup {none}
  BY SMTT(30), <1>0 DEF SurfaceState, State
<1>2. Promised!Synchronized[s] = surface[s].synchronous
  BY SynchronizedIs
<1>3. \A t \in Surfaces : SameNode(surface[t], surface'[t])
  BY DEF CommitWaits, CommitShows, SameNodes, Others, SameNode
<1>4. UNCHANGED <<[t \in Surfaces |-> surface[t].parent],
                  [t \in Surfaces |-> t # Root /\ surface[t].role],
                  [t \in Surfaces |-> surface[t].should_be_desync]>>
  BY SMTT(30), <1>3 DEF SameNode
<1>5. ASSUME surface[s].synchronous
      PROVE  UNCHANGED shown /\ WaitsFor(content)
  <2>1. CommitWaits(x, y, s) /\ SyncAt(surface, s)
    BY <1>5 DEF Synchronized
  <2>2. s # Root /\ surface[s].role
    BY <1>5, <2>1 DEF SyncAt
  <2>3. \A t \in Surfaces : surface'[t].current = surface[t].current
    BY <2>1 DEF CommitWaits, Others
  <2>4. \A t \in Surfaces : Awaited(surface', t) = IF t = s THEN content ELSE Awaited(surface, t)
    BY <1>0, <2>1, <2>2, ZenonT(30) DEF CommitWaits, Others, SameNode, Awaited, Awaits, LastCommit, Waits
  <2>5. waits' = [waits EXCEPT ![s] = content]
    BY <2>4, AwaitedIs, ZenonT(30)
  <2>6. UNCHANGED shown
    BY <2>3
  <2> QED
    BY <2>5, <2>6
<1>6. ASSUME ~surface[s].synchronous
      PROVE  Promised!Apply(s, content)
  <2>1. PICK A : Reaches(surface, A, s) /\ AppliedAlong(surface, surface', A, s)
    BY <1>6 DEF CommitShows
  <2>2. ~surface'[s].pending_commit /\ content = surface'[s].current
    BY <1>0, <1>6 DEF CommitShows
  <2> QED
    BY <2>1, <2>2, PromisedApply
<1>7. IF Promised!Synchronized[s]
      THEN UNCHANGED shown /\ \E c \in contents : WaitsFor(c)
      ELSE \E c \in contents : Promised!Apply(s, c)
  <2>1. content \in contents
    BY <1>1
  <2>2. CASE surface[s].synchronous
    <3>1. UNCHANGED shown /\ WaitsFor(content)
      BY <1>5, <2>2
    <3> HIDE DEF contents, WaitsFor, shown
    <3> QED
      BY <1>2, <2>1, <2>2, <3>1
  <2>3. CASE ~surface[s].synchronous
    <3>1. Promised!Apply(s, content)
      BY <1>6, <2>3
    <3> HIDE DEF contents, WaitsFor, shown
    <3> QED
      BY <1>2, <2>1, <2>3, <3>1
  <2> QED
    BY <2>2, <2>3
<1> QED
  BY <1>4, <1>7, ZenonT(30) DEF Promised!Commit

LEMMA PromisedDesynchronize ==
  ASSUME surface \in [Surfaces -> SurfaceState], Forest(surface), Synchronized(surface),
         NEW s \in Surfaces, s # Root, surface[s].role,
         NEW x, x.surface = surface, NEW y, y.surface = surface', Desynchronizes(x, y, s),
         IF IsParentSynchronous(x, s) \/ ~surface[s].pending_commit
         THEN SameAwaited(surface, surface') ELSE DesyncShows(x, y, s)
  PROVE  Promised!Desynchronize(s)
<1> DEFINE parents == [t \in Surfaces |-> surface[t].parent]
           shown == [t \in Surfaces |-> surface[t].current]
           waits == [t \in Surfaces |-> IF t # Root /\ surface[t].role /\ surface[t].pending_commit
                                        THEN Committed(t) ELSE nothing]
           Shows == IF waits[s] # nothing /\ (parents[s] = none \/ ~Promised!Synchronized[parents[s]])
                    THEN /\ shown' = [t \in Surfaces |-> IF t = s THEN waits[s]
                                                         ELSE IF t \in Promised!AppliedWith(s)
                                                              THEN waits[t] ELSE shown[t]]
                         /\ waits' = [t \in Surfaces |-> IF t \in Promised!AppliedWith(s)
                                                         THEN nothing ELSE waits[t]]
                    ELSE UNCHANGED <<shown, waits>>
<1>1. UNCHANGED <<[t \in Surfaces |-> surface[t].parent],
                  [t \in Surfaces |-> t # Root /\ surface[t].role]>>
  BY DEF Desynchronizes, SamePlaces
<1>2. [t \in Surfaces |-> surface[t].should_be_desync]'
      = [[t \in Surfaces |-> surface[t].should_be_desync] EXCEPT ![s] = TRUE]
  <2>1. \A t \in Surfaces : surface'[t].should_be_desync = IF t = s THEN TRUE ELSE surface[t].should_be_desync
    BY ZenonT(30) DEF Desynchronizes, SurfaceState
  <2> QED
    BY <2>1, ZenonT(30)
<1>3. IsParentSynchronous(x, s) <=> ~(parents[s] = none \/ ~Promised!Synchronized[parents[s]])
  <2>1. parents[s] = surface[s].parent /\ (parents[s] # none => parents[s] \in Surfaces)
    BY DEF SurfaceState
  <2>2. parents[s] # none => Promised!Synchronized[parents[s]] = surface[parents[s]].synchronous
    BY SMTT(30), <2>1, SynchronizedIs
  <2> HIDE DEF parents
  <2> QED
    BY SMTT(30), <2>1, <2>2 DEF IsParentSynchronous
<1>4. LastCommit(surface, s) # nothing
  <2>1. {surface[s].cached.buffer, surface[s].current} \subseteq Buffers \cup {none}
    BY DEF SurfaceState, State
  <2> QED
    BY <2>1, SurfacesAssumption DEF LastCommit, Buffers
<1>5. /\ waits[s] # nothing <=> surface[s].pending_commit
      /\ surface[s].pending_commit => waits[s] = LastCommit(surface, s)
  BY SMTT(30), <1>4, CommittedIs
<1>6. ASSUME IsParentSynchronous(x, s) \/ ~surface[s].pending_commit
      PROVE  Shows
  <2>1. UNCHANGED <<[t \in Surfaces |-> surface[t].current], waits>>
    BY <1>6, PromisedSame
  <2>2. ~(waits[s] # nothing /\ (parents[s] = none \/ ~Promised!Synchronized[parents[s]]))
    BY <1>3, <1>5, <1>6
  <2> QED
    BY <2>1, <2>2
<1>7. ASSUME ~(IsParentSynchronous(x, s) \/ ~surface[s].pending_commit)
      PROVE  Shows
  <2>1. DesyncShows(x, y, s)
    BY <1>7
  <2>2. surface'[s].current = waits[s] /\ ~surface'[s].pending_commit
    BY <1>5, <1>7, <2>1 DEF DesyncShows
  <2>3. PICK A : Reaches(surface, A, s) /\ AppliedAlong(surface, surface', A, s)
    BY <2>1 DEF DesyncShows
  <2>5. PICK content : content = waits[s]
    OBVIOUS
  <2>6. Promised!Apply(s, content)
    BY <2>2, <2>3, <2>5, PromisedApply
  <2>7. /\ shown' = [t \in Surfaces |-> IF t = s THEN waits[s]
                                        ELSE IF t \in Promised!AppliedWith(s)
                                             THEN waits[t] ELSE shown[t]]
        /\ waits' = [t \in Surfaces |-> IF t \in Promised!AppliedWith(s)
                                        THEN nothing ELSE waits[t]]
    <3>1. /\ shown' = [t \in Surfaces |-> IF t = s THEN content
                                          ELSE IF t \in Promised!AppliedWith(s)
                                               THEN waits[t] ELSE shown[t]]
          /\ waits' = [t \in Surfaces |-> IF t \in Promised!AppliedWith(s)
                                          THEN nothing ELSE waits[t]]
      BY <2>6, ZenonT(30) DEF Promised!Apply
    <3> HIDE DEF shown, waits
    <3> QED
      BY <2>5, <3>1
  <2>4. waits[s] # nothing /\ (parents[s] = none \/ ~Promised!Synchronized[parents[s]])
    BY <1>3, <1>5, <1>7
  <2> QED
    BY <2>4, <2>7
<1>8. [t \in Surfaces |-> t # Root /\ surface[t].role][s]
  BY ZenonT(30)
<1> QED
  BY <1>1, <1>2, <1>6, <1>7, <1>8, ZenonT(30) DEF Promised!Desynchronize, Promised!Apply

-----------------------------------------------------------------------------
(* Every action is a step of AtomicSurfaces. *)

SoundTree == TreeSound /\ OnlyRolesWait(surface)

LEMMA TreeFacts ==
  ASSUME SoundTree, ~crashed
  PROVE  /\ surface \in [Surfaces -> SurfaceState] /\ Forest(surface) /\ Synchronized(surface)
         /\ OnlyRolesWait(surface)
BY DEF SoundTree, TreeSound, Plain, Work, Working

LEMMA ClientCommitPromised ==
  ASSUME SoundTree, AttachAlways, NEW s \in Surfaces, ClientCommit(s)
  PROVE  Promised!Commit(s) /\ OnlyRolesWait(surface')
<1>1. PICK draw \in BOOLEAN :
        Finish(Commit([Work(draw) EXCEPT !.busy = @ \cup ({surface[s].pending.buffer} \ {none})], s))
  BY ZenonT(30) DEF ClientCommit
<1>2. PICK w : w = Work(draw)
  OBVIOUS
<1>3. PICK x : x = [w EXCEPT !.busy = @ \cup ({w.surface[s].pending.buffer} \ {none})]
  BY ZenonT(30)
<1>4. PICK y : y = Commit(x, s)
  OBVIOUS
<1>5. Tree(w) /\ w.surface = surface
  BY SMTT(30), <1>2, WorkTree DEF ClientCommit, SoundTree
<1>6. Tree(x) /\ x.surface = surface
  <2>1. Tree(x)
    BY <1>3, <1>5, BusierTree
  <2> QED
    BY <1>3, <1>5, <2>1 DEF Tree, Working
<1>7. y.surface = surface'
  BY <1>1, <1>2, <1>3, <1>4, <1>5 DEF Finish
<1>8. /\ surface \in [Surfaces -> SurfaceState] /\ Forest(surface) /\ Synchronized(surface)
      /\ OnlyRolesWait(surface)
  BY TreeFacts DEF ClientCommit
<1>9. surface[s].pending.attached
  BY DEF ClientCommit
<1>10. IF surface[s].synchronous THEN CommitWaits(x, y, s) ELSE CommitShows(x, y, s)
  BY <1>4, <1>6, <1>8, <1>9, CommitIs
<1>11. Promised!Commit(s)
  BY <1>6, <1>7, <1>8, <1>9, <1>10, PromisedCommit
<1>12. OnlyRolesWait(surface')
  <2>1. CASE surface[s].synchronous
    <3>1. s # Root /\ surface[s].role
      BY SMTT(30), <1>8, <2>1 DEF Synchronized, SyncAt
    <3> QED
      BY <1>6, <1>7, <1>8, <1>10, <2>1, <3>1, ZenonT(30) DEF CommitWaits, Others, SameNode, OnlyRolesWait
  <2>2. CASE ~surface[s].synchronous
    BY <1>6, <1>7, <1>8, <1>10, <2>2 DEF CommitShows, SameNodes, SameNode, NoneWaits, OnlyRolesWait
  <2> QED
    BY <2>1, <2>2
<1> QED
  BY <1>11, <1>12

LEMMA SetDesyncPromised ==
  ASSUME SoundTree, ~DetachedDesync, NEW s \in Surfaces, SetDesync(s)
  PROVE  Promised!Desynchronize(s) /\ OnlyRolesWait(surface')
<1>1. PICK draw \in BOOLEAN :
        Finish(IF ParentRoleMissing(s) \/ IsParentSynchronous(DesyncAsked(Work(draw), s), s)
               THEN DesyncAsked(Work(draw), s)
               ELSE NoteSubsurfaceDesynchronous(DesyncAsked(Work(draw), s), s))
  BY ZenonT(30) DEF SetDesync, DesyncAsked
<1>2. PICK w : w = Work(draw)
  BY SMTT(30)
<1>3. PICK m : m = DesyncAsked(w, s)
  OBVIOUS
<1>4. PICK y : y = NoteSubsurfaceDesynchronous(m, s)
  OBVIOUS
<1>5. ~ParentRoleMissing(s) /\ s # Root /\ surface[s].role
  BY DEF SetDesync
<1>6. surface' = IF IsParentSynchronous(m, s) THEN m.surface ELSE y.surface
  BY <1>1, <1>2, <1>3, <1>4, <1>5 DEF Finish
<1>7. Tree(w) /\ w.surface = surface
  BY SMTT(30), <1>2, WorkTree DEF SetDesync, SoundTree
<1>8. /\ surface \in [Surfaces -> SurfaceState] /\ Forest(surface) /\ Synchronized(surface)
      /\ OnlyRolesWait(surface)
  BY SMTT(30), TreeFacts DEF SetDesync
<1>9. /\ Others(w, m, s) /\ SameGiven(w.surface[s], m.surface[s]) /\ m.surface[s].should_be_desync
      /\ m.surface \in [Surfaces -> SurfaceState]
  BY SMTT(30), <1>3, <1>7, DesyncAskedIs DEF Tree, Working
<1>10. \A t \in Surfaces : m.surface[t].synchronous = surface[t].synchronous
  BY <1>3, <1>5, <1>7, DesyncAskedKeeps
<1>11. IsParentSynchronous(m, s) <=> IsParentSynchronous(w, s)
  <2>1. surface[s].parent # none => surface[s].parent \in Surfaces
    BY SMTT(30), <1>8 DEF SurfaceState
  <2> QED
    BY <1>7, <1>9, <1>10, <2>1 DEF IsParentSynchronous, SameGiven
<1>12. CASE IsParentSynchronous(m, s)
  <2>1. \A t \in Surfaces :
          /\ SameGiven(surface[t], m.surface[t])
          /\ m.surface[t].should_be_desync = (t = s \/ surface[t].should_be_desync)
    <3>1. m.surface[s].should_be_desync = TRUE
      BY SMTT(30), <1>9 DEF SurfaceState
    <3>2. SameGiven(surface[s], m.surface[s])
      BY <1>7, <1>9
    <3>3. ASSUME NEW t \in Surfaces, t # s
          PROVE  m.surface[t] = surface[t] /\ surface[t].should_be_desync \in BOOLEAN
      BY <1>7, <1>8, <1>9, <3>3 DEF Others, SurfaceState
    <3>4. ASSUME NEW t \in Surfaces
          PROVE  /\ SameGiven(surface[t], m.surface[t])
                 /\ m.surface[t].should_be_desync = (t = s \/ surface[t].should_be_desync)
      <4>1. CASE t = s
        BY <3>1, <3>2, <4>1, ZenonT(30)
      <4>2. CASE t # s
        BY <3>3, <4>2 DEF SameGiven
      <4> QED
        BY <4>1, <4>2
    <3> QED
      BY SMTT(30), <3>4
  <2>2. /\ SameAwaited(surface, m.surface) /\ SamePlaces(surface, m.surface)
        /\ NoneWaits(surface, m.surface)
    BY <2>1, GivenAwaited
  <2>3. m.surface = surface'
    BY <1>6, <1>12
  <2>4. Desynchronizes(w, m, s)
    BY <1>7, <2>1, <2>2 DEF Desynchronizes
  <2>5. SameAwaited(surface, surface')
    BY <2>2, <2>3
  <2>6. Promised!Desynchronize(s)
    BY <1>5, <1>7, <1>8, <1>11, <1>12, <2>3, <2>4, <2>5, PromisedDesynchronize
  <2>7. OnlyRolesWait(surface')
    BY <1>8, <2>2, <2>3 DEF OnlyRolesWait, SamePlaces, NoneWaits
  <2> QED
    BY SMTT(30), <2>6, <2>7
<1>13. CASE ~IsParentSynchronous(m, s)
  <2>1. y.surface = surface'
    BY <1>6, <1>13
  <2>2. /\ Desynchronizes(w, y, s)
        /\ IF surface[s].pending_commit THEN DesyncShows(w, y, s) ELSE SameAwaited(surface, surface')
    BY <1>3, <1>4, <1>5, <1>7, <1>8, <2>1, DesyncIs
  <2>3. Promised!Desynchronize(s)
    BY <1>5, <1>7, <1>8, <1>11, <1>13, <2>1, <2>2, PromisedDesynchronize
  <2>4. OnlyRolesWait(surface')
    BY <1>7, <1>8, <2>1, <2>2 DEF Desynchronizes, OnlyRolesWait, SamePlaces, NoneWaits
  <2> QED
    BY <2>3, <2>4
<1> QED
  BY <1>12, <1>13

LEMMA SetSyncPromised ==
  ASSUME SoundTree, NEW s \in Surfaces, SetSync(s)
  PROVE  Promised!Synchronize(s) /\ OnlyRolesWait(surface')
<1>1. PICK w : w = Work(FALSE)
  BY ZenonT(30)
<1>2. PICK m : m = [w EXCEPT !.surface[s].should_be_desync = FALSE]
  BY ZenonT(30)
<1>3. PICK y : y = SetSync1(m, s)
  OBVIOUS
<1>4. y.surface = surface' /\ s # Root /\ surface[s].role
  BY <1>1, <1>2, <1>3 DEF SetSync, Finish
<1>5. Tree(w) /\ w.surface = surface
  BY <1>1, WorkTree, ZenonT(30) DEF SetSync, SoundTree
<1>6. /\ surface \in [Surfaces -> SurfaceState] /\ OnlyRolesWait(surface)
  BY TreeFacts DEF SetSync
<1> DEFINE q == [surface[s] EXCEPT !.should_be_desync = FALSE]
<1>7. q \in SurfaceState /\ SameGiven(surface[s], q) /\ ~q.should_be_desync
  BY <1>6, ZenonT(30) DEF SurfaceState, SameGiven
<1>8. m = Replace(w, s, q)
  BY <1>2, <1>5 DEF Replace
<1> HIDE DEF q
<1>9. m \in Working /\ Others(w, m, s) /\ m.surface[s] = q
  BY <1>5, <1>7, <1>8, ReplaceFields DEF Tree, Replaced
<1>10. \A t \in Surfaces :
         SameGiven(m.surface[t], y.surface[t]) /\ y.surface[t].should_be_desync = m.surface[t].should_be_desync
  <2>1. SetsSync(m, y, Below(m, s), TRUE)
    BY <1>3, <1>9, SetSync1Is, ZenonT(30)
  <2> QED
    BY <2>1, ZenonT(30) DEF SetsSync, SameBut, SameGiven
<1>11. \A t \in Surfaces : t # s => m.surface[t] = surface[t]
  BY <1>5, <1>9 DEF Others
<1>12. \A t \in Surfaces : SameGiven(surface[t], surface'[t])
  <2> SUFFICES ASSUME NEW t \in Surfaces
               PROVE  SameGiven(surface[t], surface'[t])
    OBVIOUS
  <2>1. SameGiven(surface[t], m.surface[t])
    <3>1. CASE t = s
      BY <1>7, <1>9, <3>1
    <3>2. CASE t # s
      BY <1>11, <3>2 DEF SameGiven
    <3> QED
      BY <3>1, <3>2
  <2>2. SameGiven(m.surface[t], surface'[t])
    BY SMTT(30), <1>4, <1>10
  <2> QED
    BY <2>1, <2>2, ZenonT(30) DEF SameGiven
<1>13. SameAwaited(surface, surface') /\ SamePlaces(surface, surface') /\ NoneWaits(surface, surface')
  BY SMTT(30), <1>12, GivenAwaited
<1>14. [t \in Surfaces |-> surface[t].should_be_desync]'
       = [[t \in Surfaces |-> surface[t].should_be_desync] EXCEPT ![s] = FALSE]
  <2>1. surface'[s].should_be_desync = FALSE
    <3>1. q.should_be_desync = FALSE
      BY <1>7 DEF SurfaceState
    <3> QED
      BY <1>4, <1>9, <1>10, <3>1
  <2>2. \A t \in Surfaces : t # s => surface'[t].should_be_desync = surface[t].should_be_desync
    BY <1>4, <1>10, <1>11
  <2> QED
    BY <2>1, <2>2, ZenonT(30)
<1>15. UNCHANGED <<[t \in Surfaces |-> surface[t].parent],
                   [t \in Surfaces |-> t # Root /\ surface[t].role]>>
  BY <1>13 DEF SamePlaces
<1>16. [t \in Surfaces |-> t # Root /\ surface[t].role][s]
  BY <1>4, ZenonT(30)
<1>17. UNCHANGED <<[t \in Surfaces |-> surface[t].current],
                   [t \in Surfaces |-> IF t # Root /\ surface[t].role /\ surface[t].pending_commit
                                       THEN Committed(t) ELSE nothing]>>
  BY <1>13, PromisedSame
<1>18. Promised!Synchronize(s)
  BY <1>14, <1>15, <1>16, <1>17, ZenonT(30) DEF Promised!Synchronize
<1>19. OnlyRolesWait(surface')
  BY <1>6, <1>13 DEF OnlyRolesWait, SamePlaces, NoneWaits
<1> QED
  BY <1>18, <1>19

LEMMA GetSubsurfacePromised ==
  ASSUME SoundTree, NEW s \in NonRoot, NEW parent \in Parents[s], GetSubsurface(s, parent)
  PROVE  Promised!Adopt(s, parent) /\ OnlyRolesWait(surface')
<1>1. PICK w : w = Work(FALSE)
  BY ZenonT(30)
<1>2. PICK m : m = Linked(w, s, parent)
  OBVIOUS
<1>3. PICK y : y = SetSync1(m, s)
  OBVIOUS
<1>4. y.surface = surface' /\ ~surface[s].role /\ parent \notin Below(w, s)
  BY <1>1, <1>2, <1>3, ZenonT(30) DEF GetSubsurface, Linked, Finish
<1>5. Tree(w) /\ w.surface = surface
  BY <1>1, WorkTree, ZenonT(30) DEF GetSubsurface, SoundTree
<1>6. /\ surface \in [Surfaces -> SurfaceState] /\ OnlyRolesWait(surface) /\ Synchronized(surface)
  BY TreeFacts DEF GetSubsurface
<1>7. s \in Surfaces /\ s # Root /\ parent \in Surfaces
  BY SurfacesAssumption DEF NonRoot
<1>8. parent # s
  BY <1>4, <1>5, <1>7, BelowIs DEF Tree, Working
<1>9. /\ m \in Working
      /\ m.surface[s].role /\ m.surface[s].parent = parent
      /\ \A t \in Surfaces :
           /\ t # s => m.surface[t].role = surface[t].role /\ m.surface[t].parent = surface[t].parent
           /\ m.surface[t].should_be_desync = surface[t].should_be_desync
           /\ m.surface[t].cached = surface[t].cached /\ m.surface[t].current = surface[t].current
           /\ m.surface[t].pending_commit = surface[t].pending_commit
  <2>1. w \in Working
    BY <1>5 DEF Tree
  <2>2. LinkedWith(w, m, s, parent)
    BY <1>2, <1>7, <1>8, <2>1, LinkedFields
  <2> QED
    BY <1>5, <2>2 DEF LinkedWith
<1>10. \A t \in Surfaces :
         SameGiven(m.surface[t], y.surface[t]) /\ y.surface[t].should_be_desync = m.surface[t].should_be_desync
  <2>1. SetsSync(m, y, Below(m, s), TRUE)
    BY <1>3, <1>7, <1>9, SetSync1Is, ZenonT(30)
  <2> QED
    BY <2>1, ZenonT(30) DEF SetsSync, SameBut, SameGiven
<1>11. /\ surface'[s].role /\ surface'[s].role \in BOOLEAN /\ surface'[s].parent = parent
       /\ surface'[s].should_be_desync = FALSE
       /\ ~surface'[s].pending_commit /\ ~surface[s].pending_commit
  <2>1. surface[s].should_be_desync = FALSE
    BY <1>4, <1>6, <1>7 DEF Synchronized, SurfaceState
  <2>2. ~surface[s].pending_commit
    BY <1>4, <1>6, <1>7 DEF OnlyRolesWait
  <2>3. m.surface[s].role \in BOOLEAN
    BY SMTT(30), <1>7, <1>9 DEF Working, SurfaceState
  <2> QED
    BY <1>4, <1>7, <1>9, <1>10, <2>1, <2>2, <2>3, ZenonT(30) DEF SameGiven
<1>12. ASSUME NEW t \in Surfaces
       PROVE  /\ surface'[t].current = surface[t].current
              /\ surface'[t].should_be_desync = surface[t].should_be_desync
              /\ surface'[t].pending_commit = surface[t].pending_commit
              /\ surface'[t].cached = surface[t].cached
              /\ t # s => surface'[t].role = surface[t].role /\ surface'[t].parent = surface[t].parent
  BY <1>4, <1>9, <1>10 DEF SameGiven
<1>13. SameAwaited(surface, surface')
  BY <1>11, <1>12 DEF SameAwaited, Awaited, Awaits, LastCommit, Waits
<1>14. [t \in Surfaces |-> t # Root /\ surface[t].role]'
       = [[t \in Surfaces |-> t # Root /\ surface[t].role] EXCEPT ![s] = TRUE]
  BY <1>7, <1>11, <1>12, ZenonT(30)
<1>15. [t \in Surfaces |-> surface[t].parent]' = [[t \in Surfaces |-> surface[t].parent] EXCEPT ![s] = parent]
  BY <1>7, <1>11, <1>12, ZenonT(30)
<1>16. [t \in Surfaces |-> surface[t].should_be_desync]'
       = [[t \in Surfaces |-> surface[t].should_be_desync] EXCEPT ![s] = FALSE]
  BY <1>7, <1>11, <1>12, ZenonT(30)
<1>17. ~[t \in Surfaces |-> t # Root /\ surface[t].role][s]
  BY <1>4, <1>7, ZenonT(30)
<1>18. UNCHANGED <<[t \in Surfaces |-> surface[t].current],
                   [t \in Surfaces |-> IF t # Root /\ surface[t].role /\ surface[t].pending_commit
                                       THEN Committed(t) ELSE nothing]>>
  BY SMTT(30), <1>13, PromisedSame
<1>19. Promised!Adopt(s, parent)
  BY <1>14, <1>15, <1>16, <1>17, <1>18, ZenonT(30) DEF Promised!Adopt
<1>20. OnlyRolesWait(surface')
  BY <1>6, <1>11, <1>12 DEF OnlyRolesWait
<1> QED
  BY <1>19, <1>20

\* What s loses when its role, or s itself, goes: what waits is lost, what the
\* others show and await is not.
Left(sf, tf, s) ==
  /\ ~tf[s].role /\ ~tf[s].pending_commit /\ tf[s].parent = none /\ ~tf[s].should_be_desync
  /\ \A t \in Surfaces : t # s =>
       /\ tf[t].role = sf[t].role /\ tf[t].current = sf[t].current
       /\ tf[t].cached = sf[t].cached /\ tf[t].pending_commit = sf[t].pending_commit
       /\ tf[t].should_be_desync = sf[t].should_be_desync

LEMMA PromisedLeave ==
  ASSUME surface \in [Surfaces -> SurfaceState], surface' \in [Surfaces -> SurfaceState],
         NEW s \in Surfaces, Left(surface, surface', s), OnlyRolesWait(surface)
  PROVE  Promised!Leave(s) /\ OnlyRolesWait(surface')
<1> DEFINE waits == [t \in Surfaces |-> IF t # Root /\ surface[t].role /\ surface[t].pending_commit
                                        THEN Committed(t) ELSE nothing]
<1>1. [t \in Surfaces |-> t # Root /\ surface[t].role]'
      = [[t \in Surfaces |-> t # Root /\ surface[t].role] EXCEPT ![s] = FALSE]
  <2>1. \A t \in Surfaces : (t # Root /\ surface'[t].role)
                              = IF t = s THEN FALSE ELSE t # Root /\ surface[t].role
    BY ZenonT(30) DEF Left
  <2> QED
    BY <2>1, ZenonT(30)
<1>2. [t \in Surfaces |-> surface[t].should_be_desync]'
      = [[t \in Surfaces |-> surface[t].should_be_desync] EXCEPT ![s] = FALSE]
  <2>1. surface'[s].should_be_desync = FALSE
    BY DEF Left, SurfaceState
  <2>2. \A t \in Surfaces : t # s => surface'[t].should_be_desync = surface[t].should_be_desync
    BY DEF Left
  <2> QED
    BY <2>1, <2>2, ZenonT(30)
<1>3. waits' = [waits EXCEPT ![s] = nothing]
  <2>1. ASSUME NEW t \in Surfaces
        PROVE  Awaited(surface', t) = IF t = s THEN nothing ELSE Awaited(surface, t)
    BY DEF Left, Awaited, Awaits, LastCommit, Waits
  <2>2. \A t \in Surfaces :
          (IF t # Root /\ surface'[t].role /\ surface'[t].pending_commit THEN Committed(t)' ELSE nothing)
          = IF t = s THEN nothing ELSE waits[t]
    BY <2>1, AwaitedIs
  <2> QED
    BY <2>2, ZenonT(30)
<1>4. Promised!Leave(s)
  BY <1>1, <1>2, <1>3, ZenonT(30) DEF Promised!Leave
<1>5. OnlyRolesWait(surface')
  BY DEF OnlyRolesWait, Left
<1> QED
  BY SMTT(30), <1>4, <1>5

LEMMA DestroySubsurfacePromised ==
  ASSUME SoundTree, NEW s \in Surfaces, DestroySubsurface(s)
  PROVE  Promised!DropRole(s) /\ OnlyRolesWait(surface')
<1>1. PICK draw \in BOOLEAN : Finish(Teardown(Work(draw), s))
  BY DEF DestroySubsurface
<1>2. PICK w : w = Work(draw)
  OBVIOUS
<1>3. PICK y : y = Teardown(w, s)
  OBVIOUS
<1>4. Tree(w) /\ w.surface = surface
  BY <1>2, WorkTree DEF DestroySubsurface, SoundTree
<1>5. y.surface = surface' /\ s # Root /\ surface[s].role
  BY <1>1, <1>2, <1>3 DEF Finish, DestroySubsurface
<1>6. Tree(y) /\ TornDown(w, y, s)
  BY SMTT(30), <1>3, <1>4, TeardownKeeps
<1>7. /\ surface \in [Surfaces -> SurfaceState] /\ OnlyRolesWait(surface)
  BY SMTT(30), TreeFacts DEF DestroySubsurface
<1>8. surface' \in [Surfaces -> SurfaceState]
  BY SMTT(30), <1>5, <1>6 DEF Tree, Working
<1>9. Left(surface, surface', s)
  BY SMTT(30), <1>4, <1>5, <1>6 DEF TornDown, SameAim, SameStates, Left
<1>10. Promised!Leave(s) /\ OnlyRolesWait(surface')
  BY <1>7, <1>8, <1>9, PromisedLeave
<1>11. [t \in Surfaces |-> surface[t].parent]' = [[t \in Surfaces |-> surface[t].parent] EXCEPT ![s] = none]
  <2>1. \A t \in Surfaces : surface'[t].parent = IF t = s THEN none ELSE surface[t].parent
    BY <1>4, <1>5, <1>6 DEF TornDown
  <2> QED
    BY <2>1, ZenonT(30)
<1>12. UNCHANGED [t \in Surfaces |-> surface[t].current]
  <2>1. \A t \in Surfaces : surface'[t].current = surface[t].current
    BY <1>4, <1>5, <1>6 DEF TornDown, SameAim, SameStates
  <2> QED
    BY SMTT(30), <2>1
<1>13. [t \in Surfaces |-> t # Root /\ surface[t].role][s]
  BY <1>5, ZenonT(30)
<1> QED
  BY <1>10, <1>11, <1>12, <1>13, ZenonT(30) DEF Promised!DropRole

LEMMA DestroySurfacePromised ==
  ASSUME SoundTree, NEW s \in Surfaces, DestroySurface(s)
  PROVE  Promised!Destroy(s) /\ OnlyRolesWait(surface')
<1>1. PICK draw \in BOOLEAN :
        Finish(Destroyed(IF surface[s].role THEN Teardown(Work(draw), s) ELSE Work(draw), s))
  BY ZenonT(30) DEF DestroySurface, Destroyed
<1>2. PICK w : w = Work(draw)
  OBVIOUS
<1>3. PICK x : x = IF surface[s].role THEN Teardown(w, s) ELSE w
  OBVIOUS
<1>4. PICK y : y = Destroyed(x, s)
  OBVIOUS
<1>5. Tree(w) /\ w.surface = surface /\ s # Root
  BY <1>2, WorkTree DEF DestroySurface, SoundTree
<1>6. y.surface = surface'
  BY <1>1, <1>2, <1>3, <1>4 DEF Finish
<1>7. /\ surface \in [Surfaces -> SurfaceState] /\ OnlyRolesWait(surface) /\ Forest(surface)
  BY SMTT(30), TreeFacts DEF DestroySurface
<1>8. /\ Tree(x) /\ x.surface[s].parent = none
      /\ \A t \in Surfaces : t # s =>
           /\ SameAim(surface[t], x.surface[t])
           /\ x.surface[t].parent = surface[t].parent
           /\ x.surface[t].should_be_desync = surface[t].should_be_desync
  <2>1. CASE surface[s].role
    <3>1. Tree(x) /\ TornDown(w, x, s)
      BY <1>3, <1>5, <2>1, TeardownKeeps
    <3> QED
      BY <1>5, <3>1 DEF TornDown
  <2>2. CASE ~surface[s].role
    <3>1. x = w /\ surface[s].parent = none
      BY <1>3, <1>7, <2>2 DEF Forest
    <3> QED
      BY <1>5, <3>1 DEF SameAim, SameStates
  <2> QED
    BY <2>1, <2>2
<1>9. DestroyedAs(x, y, s)
  BY <1>4, <1>5, <1>8, DestroyedFields DEF Tree
<1>10. y.surface \in [Surfaces -> SurfaceState]
  BY <1>9 DEF DestroyedAs, Working
<1>11. Left(surface, surface', s)
  BY <1>6, <1>8, <1>9 DEF DestroyedAs, Empty, SameAim, SameStates, Left
<1>12. Promised!Leave(s) /\ OnlyRolesWait(surface')
  BY <1>6, <1>7, <1>10, <1>11, PromisedLeave
<1>13. [t \in Surfaces |-> surface[t].parent]'
       = [t \in Surfaces |-> IF t = s \/ [u \in Surfaces |-> surface[u].parent][t] = s THEN none
                             ELSE [u \in Surfaces |-> surface[u].parent][t]]
  <2>1. \A t \in Surfaces : surface'[t].parent = IF t = s \/ surface[t].parent = s THEN none ELSE surface[t].parent
    BY <1>6, <1>8, <1>9 DEF DestroyedAs, Empty
  <2> QED
    BY <2>1
<1>14. [t \in Surfaces |-> surface[t].current]' = [[t \in Surfaces |-> surface[t].current] EXCEPT ![s] = none]
  <2>1. \A t \in Surfaces : surface'[t].current = IF t = s THEN none ELSE surface[t].current
    BY <1>6, <1>8, <1>9 DEF DestroyedAs, Empty, SameAim, SameStates
  <2> QED
    BY <2>1, ZenonT(30)
<1> QED
  BY <1>12, <1>13, <1>14, ZenonT(30) DEF Promised!Destroy

\* Steps that change neither contents nor tree.
LEMMA PromisedStutter ==
  ASSUME \A s \in Surfaces : /\ SameGiven(surface[s], surface'[s])
                             /\ surface'[s].should_be_desync = surface[s].should_be_desync
  PROVE  UNCHANGED Promised!vars /\ (OnlyRolesWait(surface) => OnlyRolesWait(surface'))
<1>1. SameAwaited(surface, surface') /\ SamePlaces(surface, surface') /\ NoneWaits(surface, surface')
  BY GivenAwaited
<1>2. UNCHANGED <<[s \in Surfaces |-> surface[s].current],
                  [s \in Surfaces |-> IF s # Root /\ surface[s].role /\ surface[s].pending_commit
                                      THEN Committed(s) ELSE nothing]>>
  BY <1>1, PromisedSame
<1>3. UNCHANGED <<[t \in Surfaces |-> surface[t].parent],
                  [t \in Surfaces |-> t # Root /\ surface[t].role],
                  [t \in Surfaces |-> surface[t].should_be_desync]>>
  BY <1>1 DEF SamePlaces
<1>4. OnlyRolesWait(surface) => OnlyRolesWait(surface')
  BY <1>1 DEF SamePlaces, NoneWaits, OnlyRolesWait
<1> QED
  BY <1>2, <1>3, <1>4, ZenonT(30) DEF Promised!vars

LEMMA NextPromised ==
  ASSUME SoundTree, AttachAlways, ~DetachedDesync, [Next]_vars
  PROVE  [Promised!Next]_Promised!vars /\ OnlyRolesWait(surface')
<1>1. CASE FrameEnds
  <2>1. surface' = surface
    BY <1>1 DEF FrameEnds, Finish, Draw, Work
  <2> QED
    BY <2>1, PromisedStutter DEF SameGiven, SoundTree
<1>2. CASE \E b \in Buffers : BufferIdleCallback(b)
  <2>1. surface' = surface
    BY <1>2 DEF BufferIdleCallback
  <2> QED
    BY <2>1, PromisedStutter DEF SameGiven, SoundTree
<1>3. ASSUME NEW s \in Surfaces, Attach(s)
      PROVE  [Promised!Next]_Promised!vars /\ OnlyRolesWait(surface')
  <2>1. surface \in [Surfaces -> SurfaceState]
    BY <1>3, TreeFacts DEF Attach
  <2>2. PICK p : surface' = [surface EXCEPT ![s].pending = p]
    BY <1>3, ZenonT(30) DEF Attach
  <2>3. \A t \in Surfaces : /\ SameGiven(surface[t], surface'[t])
                            /\ surface'[t].should_be_desync = surface[t].should_be_desync
    BY <2>1, <2>2 DEF SameGiven, SurfaceState
  <2> QED
    BY <2>3, PromisedStutter DEF SoundTree
<1>4. ASSUME NEW s \in Surfaces,
             \/ ClientCommit(s) \/ DestroySubsurface(s) \/ DestroySurface(s)
             \/ SetSync(s) \/ SetDesync(s)
      PROVE  Promised!Next /\ OnlyRolesWait(surface')
  BY <1>4, ClientCommitPromised, DestroySubsurfacePromised, DestroySurfacePromised,
     SetSyncPromised, SetDesyncPromised DEF Promised!Next
<1>5. ASSUME NEW s \in NonRoot, NEW parent \in Parents[s], GetSubsurface(s, parent)
      PROVE  Promised!Next /\ OnlyRolesWait(surface')
  <2>1. s \in Surfaces /\ parent \in Surfaces
    BY SurfacesAssumption DEF NonRoot
  <2> QED
    BY <1>5, <2>1, GetSubsurfacePromised DEF Promised!Next
<1>6. CASE UNCHANGED vars
  <2>1. surface' = surface
    BY <1>6 DEF vars
  <2> QED
    BY <2>1, PromisedStutter DEF SameGiven, SoundTree
<1> QED
  BY <1>1, <1>2, <1>3, <1>4, <1>5, <1>6 DEF Next

\* The tree of surfaces implements AtomicSurfaces.  It does for clients that
\* attach something before every commit and do not desynchronize children of
\* a surface that lost its role.
THEOREM CommitsAtomic ==
  ASSUME AttachAlways, ~DetachedDesync
  PROVE  Spec => AtomicCommits
<1>1. Init => Promised!Init /\ OnlyRolesWait(surface)
  <2> SUFFICES ASSUME Init PROVE Promised!Init /\ OnlyRolesWait(surface)
    OBVIOUS
  <2>1. ASSUME NEW s \in Surfaces
        PROVE  /\ surface[s].current = none /\ surface[s].parent = none
               /\ ~(s # Root /\ surface[s].role) /\ surface[s].should_be_desync = FALSE
               /\ surface[s].pending_commit = FALSE
    <3> DEFINE isRoot == s = Root
    <3>1. surface[s] =
            [alive |-> TRUE, role |-> isRoot, typed |-> isRoot,
             pending |-> InitState, cached |-> InitState, current |-> none,
             parent |-> none, children |-> <<>>,
             synchronous |-> FALSE, should_be_desync |-> FALSE,
             pending_commit |-> FALSE, uninserted |-> FALSE]
      BY DEF Init, InitSurface
    <3>2. isRoot => s = Root
      OBVIOUS
    <3> HIDE DEF isRoot
    <3> QED
      BY SMTT(30), <3>1, <3>2
  <2>2. [s \in Surfaces |-> s # Root /\ surface[s].role] = [s \in Surfaces |-> FALSE]
    BY <2>1, ZenonT(30)
  <2>3. [s \in Surfaces |-> IF s # Root /\ surface[s].role /\ surface[s].pending_commit
                            THEN Committed(s) ELSE nothing] = [s \in Surfaces |-> nothing]
    BY <2>1, ZenonT(30)
  <2>4. /\ [s \in Surfaces |-> surface[s].current] = [s \in Surfaces |-> none]
        /\ [s \in Surfaces |-> surface[s].parent] = [s \in Surfaces |-> none]
        /\ [s \in Surfaces |-> surface[s].should_be_desync] = [s \in Surfaces |-> FALSE]
    BY <2>1, ZenonT(30)
  <2>5. OnlyRolesWait(surface)
    BY <2>1, ZenonT(30) DEF OnlyRolesWait
  <2> QED
    BY <2>2, <2>3, <2>4, <2>5, ZenonT(30) DEF Promised!Init
<1>2. ASSUME SoundTree, [Next]_vars
      PROVE  [Promised!Next]_Promised!vars /\ OnlyRolesWait(surface)'
  BY <1>2, NextPromised
<1>3. Spec => []TreeSound
  BY AlwaysTree
<1> QED
  BY <1>1, <1>2, <1>3, PTL DEF Spec, AtomicCommits, Promised!Spec, SoundTree

=============================================================================
