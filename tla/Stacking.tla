------------------------------ MODULE Stacking ------------------------------
(***************************************************************************)
(* The stacking order of a window: the view hierarchy of subcompositor.c   *)
(* and the requests of subsurface.c, surface.c and xdg_surface.c that      *)
(* change it.  Each surface has two views; "view" shows its contents and   *)
(* holds the subsurfaces stacked above it, "under" holds those below.  All *)
(* views of a window are in one circular list, in the order in which they  *)
(* are drawn; a view knows its parent, its children and its last           *)
(* descendant in that list.                                                *)
(*                                                                         *)
(* Abstracted: sizes and positions; a point is the set of surfaces that    *)
(* contain it.  Subsurfaces stay synchronous (Surface has the others), and *)
(* every commit attaches something.  The toplevel keeps one subcompositor: *)
(* a new role finds it as empty as a new one would be (SubcompositorFree   *)
(* asserts it).                                                            *)
(*                                                                         *)
(* An operator named Wrong... is a deliberate bug in the operator that     *)
(* follows it.                                                             *)
(***************************************************************************)
EXTENDS Rings, Sequences, SequencesExt

CONSTANTS
  Surfaces,       \* the surfaces of a client
  Root,           \* the one that takes the xdg_surface role
  window, none,   \* the owner of the subcompositor's lists; no view or surface
  SelfPlacement,  \* clients place a subsurface next to itself
  OrphanRequests, \* clients place subsurfaces whose parent is gone
  Attachments,    \* what is attached to each surface: a buffer (TRUE), none (FALSE)
  Movers,         \* the subsurfaces that clients restack
  Mortal,         \* the surfaces that clients destroy
  MaxActions      \* bound: stacking requests recorded on a surface

ASSUME StackingAssumption ==
  /\ Root \in Surfaces /\ Mortal \subseteq Surfaces
  /\ Attachments \in [Surfaces -> SUBSET BOOLEAN]
  /\ MaxActions \in Nat

View(s) == <<s, "view">>
Under(s) == <<s, "under">>
Views == {View(s) : s \in Surfaces} \cup {Under(s) : s \in Surfaces}

\* The nodes of the lists of inferiors: the link of each view, and the head of
\* the subcompositor's list.
Links == Views \cup {window}

VARIABLES
  tree,    \* the fields of struct _View and of its links; children are sequences
  surface, \* the fields of struct _Surface and struct _Subsurface
  crashed  \* an assertion failed or a null pointer was used

vars == <<tree, surface, crashed>>

MakeViews ==
  [list |-> ListInit(Links),
   children |-> [v \in Links |-> <<>>],
   parent |-> [v \in Views |-> none],
   inferior |-> [v \in Views |-> v],
   subcompositor |-> [v \in Views |-> FALSE],
   unmapped |-> [v \in Views |-> FALSE],
   buffer |-> [v \in Views |-> FALSE]]

MakeSurface ==
  [alive |-> TRUE, role |-> FALSE, parent |-> none, pending |-> FALSE,
   cached |-> <<>>, subsurfaces |-> <<>>, actions |-> <<>>]

Init ==
  /\ tree = MakeViews
  /\ surface = [s \in Surfaces |-> MakeSurface]
  /\ crashed = FALSE

-----------------------------------------------------------------------------
\* subcompositor.c

\* v and the views above it in the hierarchy.
RECURSIVE Lineage(_, _)
Lineage(t, v) == IF v = none THEN {} ELSE {v} \cup Lineage(t, t.parent[v])

\* The nodes from n to head, or as many as fuel allows, in the order of next.
RECURSIVE Walk(_, _, _, _)
Walk(h, n, head, fuel) ==
  IF n = head \/ fuel = 0 THEN <<n>> ELSE <<n>> \o Walk(h, h.next[n], head, fuel - 1)

\* The nodes behind head on its ring, the last of which is head.
Following(h, head) == Walk(h, h.next[head], head, Cardinality(Links))

\* The inferior pointers of v and its ancestors that are old become new.
Bumped(t, v, old, new) ==
  [u \in Views |-> IF u \in Lineage(t, v) /\ t.inferior[u] = old
                   THEN new ELSE t.inferior[u]]

SubcompositorInsert(t, v) ==
  [t EXCEPT !.children[window] = Append(@, v),
            !.list = ListRelinkBefore(@, v, t.inferior[v], window)]

\* A view that is not in a list of siblings has no place behind it.
InsertBeside(siblings, sibling, child, offset) ==
  IF sibling \notin Range(siblings) THEN siblings
  ELSE InsertAt(siblings, (CHOOSE i \in DOMAIN siblings : siblings[i] = sibling) + offset,
                child)

ViewInsert(t, v, child) ==
  [t EXCEPT !.parent[child] = v,
            !.children[v] = Append(@, child),
            !.list = ListRelinkAfter(@, child, t.inferior[child], t.inferior[v]),
            !.inferior = Bumped(t, v, t.inferior[v], t.inferior[child])]

ViewInsertAfter(t, v, child, sibling) ==
  [t EXCEPT !.parent[child] = v,
            !.children[v] = InsertBeside(@, sibling, child, 1),
            !.list = ListRelinkAfter(@, child, t.inferior[child], t.inferior[sibling]),
            !.inferior = IF t.inferior[sibling] = t.inferior[v]
                         THEN Bumped(t, v, t.inferior[sibling], t.inferior[child])
                         ELSE @]

ViewInsertBefore(t, v, child, sibling) ==
  [t EXCEPT !.parent[child] = v,
            !.children[v] = InsertBeside(@, sibling, child, 0),
            !.list = ListRelinkBefore(@, child, t.inferior[child], sibling)]

Owner(t, v) == IF t.parent[v] = none THEN window ELSE t.parent[v]

WrongViewUnparent(t, child) ==
  LET above == t.parent[child]
  IN  [t EXCEPT
        !.parent[child] = none,
        !.children[Owner(t, child)] = SelectSeq(@, LAMBDA v : v # child),
        !.list = ListUnlink(@, child, t.inferior[child]),
        !.inferior = IF above = none \/ t.inferior[above] # t.inferior[child] THEN @
                     ELSE [t.inferior EXCEPT ![above] = t.list.last[child]]]

ViewUnparent(t, child) ==
  [t EXCEPT
    !.parent[child] = none,
    !.children[Owner(t, child)] = SelectSeq(@, LAMBDA v : v # child),
    !.list = ListUnlink(@, child, t.inferior[child]),
    !.inferior = IF t.parent[child] = none THEN @
                 ELSE Bumped(t, t.parent[child], t.inferior[child], t.list.last[child])]

\* Everything on the list that v is on, which should be v and its inferiors.
ViewSetSubcompositor(t, v, to) ==
  [t EXCEPT !.subcompositor =
    LET ring == Range(Following(t.list, v))
    IN  [u \in Views |-> IF u \in ring THEN to ELSE t.subcompositor[u]]]

\* A buffer maps the view that it is attached to.
ViewAttachBuffer(t, v, buffer) ==
  [t EXCEPT !.buffer[v] = buffer, !.unmapped[v] = @ /\ ~buffer]

ViewFreeable(t, v) == t.inferior[v] = v /\ t.list.last[v] = v

\* The views that are drawn, in order: an unmapped view is passed over with
\* all of its inferiors, and only views with a buffer are drawn.
RECURSIVE DrawnFrom(_, _, _)
DrawnFrom(t, n, fuel) ==
  IF n = window \/ fuel = 0 THEN <<>>
  ELSE IF t.unmapped[n] THEN DrawnFrom(t, t.list.next[t.inferior[n]], fuel - 1)
  ELSE (IF t.buffer[n] THEN <<n>> ELSE <<>>) \o DrawnFrom(t, t.list.next[n], fuel - 1)
Drawn(t) == DrawnFrom(t, t.list.next[window], Cardinality(Views))

\* The view of one of the surfaces hit that a pointer is in: from the last view
\* to the first.  It is window if the search does not end.
RECURSIVE LookupFrom(_, _, _, _)
LookupFrom(t, n, hit, fuel) ==
  IF n = window THEN none
  ELSE IF fuel = 0 THEN window
  ELSE IF t.unmapped[n] THEN LookupFrom(t, t.list.last[t.inferior[n]], hit, fuel - 1)
  ELSE IF t.buffer[n] /\ n[1] \in hit THEN n
  ELSE LookupFrom(t, t.list.last[n], hit, fuel - 1)

SubcompositorLookupView(t, hit) ==
  LookupFrom(t, t.list.last[window], hit, Cardinality(Views) + 1)

-----------------------------------------------------------------------------
\* subsurface.c: stacking requests.  A state st has the fields tree, surface
\* and crashed.

Siblings(sf, s, other) == sf[other].role /\ other # Root /\ sf[other].parent = sf[s].parent

ParentStart(t, v, s) == ViewInsert(ViewInsert(t, v, Under(s)), v, View(s))

ParentAbove(t, v, above, s) ==
  ViewInsertAfter(ViewInsertAfter(t, v, Under(s), above), v, View(s), Under(s))

ParentBelow(t, v, below, s) ==
  ViewInsertBefore(ViewInsertBefore(t, v, View(s), below), v, Under(s), View(s))

RunOneSurfaceAction(t, sf, a) ==
  LET p == sf[a.subsurface].parent
      target == t.parent[View(a.other)]
      out == ViewUnparent(ViewUnparent(t, View(a.subsurface)), Under(a.subsurface))
  IN  IF a.other # p /\ ~Siblings(sf, a.subsurface, a.other) THEN t
      ELSE IF a.type = "above"
           THEN IF a.other = p THEN ParentStart(out, View(p), a.subsurface)
                ELSE ParentAbove(out, target, View(a.other), a.subsurface)
           ELSE IF a.other = p THEN ParentStart(out, Under(p), a.subsurface)
                ELSE ParentBelow(out, target, Under(a.other), a.subsurface)

WrongRunSurfaceActions(st, p) ==
  [st EXCEPT
    !.tree = FoldRight(LAMBDA a, t : RunOneSurfaceAction(t, st.surface, a),
                       st.surface[p].actions, st.tree),
    !.surface[p].actions = <<>>]

\* The oldest request is at the end of the list, where this starts.
RunSurfaceActions(st, p) ==
  [st EXCEPT
    !.tree = FoldLeft(LAMBDA t, a : RunOneSurfaceAction(t, st.surface, a),
                      st.tree, st.surface[p].actions),
    !.surface[p].actions = <<>>]

-----------------------------------------------------------------------------
\* surface.c and subsurface.c: commits

\* A pending subsurface enters the hierarchy of its parent.
AttachPending(st, s) ==
  LET p == st.surface[s].parent
      to == st.tree.subcompositor[View(p)]
      under == ViewInsert(ViewSetSubcompositor(st.tree, Under(s), to), View(p), Under(s))
  IN  IF ~st.surface[s].pending THEN st
      ELSE [st EXCEPT
             !.tree = ViewInsert(ViewSetSubcompositor(under, View(s), to), View(p), View(s)),
             !.surface[s].pending = FALSE]

\* subsurface.c, Commit; the roots map no views.
RoleCommit(st, s) ==
  IF s = Root \/ ~st.surface[s].role \/ ~st.tree.subcompositor[View(s)] THEN st
  ELSE [st EXCEPT !.tree.unmapped =
         [v \in Views |->
            IF v = Under(s) THEN ~st.tree.buffer[View(s)]
            ELSE IF v = View(s) THEN @[v] \/ ~st.tree.buffer[View(s)]
            ELSE @[v]]]

RECURSIVE InternalCommit(_, _, _)

AfterParentCommit(st, s) ==
  LET attached == AttachPending(st, s)
      applied == IF st.surface[s].cached = <<>> THEN attached
                 ELSE InternalCommit(attached, s, st.surface[s].cached[1])
  IN  [applied EXCEPT !.surface[s].cached = <<>>]

InternalCommit(st, s, buffer) ==
  LET new == [st EXCEPT !.tree = ViewAttachBuffer(st.tree, View(s), buffer)]
      below == FoldLeft(AfterParentCommit, new, st.surface[s].subsurfaces)
      placed == IF st.surface[s].subsurfaces = <<>> THEN below
                ELSE RunSurfaceActions(below, s)
  IN  RoleCommit(placed, s)

-----------------------------------------------------------------------------
\* The end of roles and surfaces

\* Both views out of the window, each with its inferiors.
Detach(t, s) ==
  LET view == ViewSetSubcompositor(ViewUnparent(t, View(s)), View(s), FALSE)
  IN  ViewSetSubcompositor(ViewUnparent(view, Under(s)), Under(s), FALSE)

\* xdg_surface.c, Teardown
TeardownRoot(st) ==
  LET out == ViewUnparent(ViewUnparent(st.tree, View(Root)), Under(Root))
  IN  [st EXCEPT
        !.tree = ViewSetSubcompositor(ViewSetSubcompositor(out, View(Root), FALSE),
                                      Under(Root), FALSE),
        !.surface[Root].role = FALSE]

\* subsurface.c, Teardown
TeardownSubsurface(st, s) ==
  LET p == st.surface[s].parent
      gone == [st.surface EXCEPT ![s].role = FALSE, ![s].parent = none,
                                 ![s].pending = FALSE, ![s].cached = <<>>]
  IN  IF p = none THEN [st EXCEPT !.surface = gone]
      ELSE [st EXCEPT
             !.tree = IF st.surface[s].pending THEN @ ELSE Detach(@, s),
             !.surface = [gone EXCEPT
                ![p].subsurfaces = SelectSeq(@, LAMBDA c : c # s),
                ![p].actions = SelectSeq(@, LAMBDA a : a.subsurface # s)]]

Teardown(st, s) ==
  IF ~st.surface[s].role THEN st
  ELSE IF s = Root THEN TeardownRoot(st) ELSE TeardownSubsurface(st, s)

XLSubsurfaceParentDestroyed(st, s) ==
  [st EXCEPT !.tree = ViewUnparent(ViewUnparent(@, View(s)), Under(s)),
             !.surface[s].parent = none]

\* The subsurfaces are a list with the newest first.  Requests that name the
\* surface are forgotten (HandleOtherSurfaceDestroyed).
HandleSurfaceDestroy(st, s) ==
  LET down == Teardown(st, s)
      alone == FoldLeft(XLSubsurfaceParentDestroyed, down,
                        Reverse(down.surface[s].subsurfaces))
  IN  [alone EXCEPT
        !.surface = [t \in Surfaces |->
           IF t = s THEN [MakeSurface EXCEPT !.alive = FALSE]
           ELSE [@[t] EXCEPT !.actions = SelectSeq(@, LAMBDA a : a.other # s)]],
        !.crashed = @ \/ ~ViewFreeable(alone.tree, View(s))
                      \/ ~ViewFreeable(alone.tree, Under(s))]

-----------------------------------------------------------------------------
\* The requests of clients

Now == [tree |-> tree, surface |-> surface, crashed |-> crashed]

Become(st) ==
  /\ tree' = st.tree
  /\ surface' = st.surface
  /\ crashed' = st.crashed

\* xdg_surface.c, Setup: the window's lists get the two views of the root.
GetXdgSurface ==
  /\ surface[Root].alive /\ ~surface[Root].role
  /\ LET view == ViewSetSubcompositor(tree, View(Root), TRUE)
         both == ViewSetSubcompositor(view, Under(Root), TRUE)
     IN  tree' = SubcompositorInsert(SubcompositorInsert(both, Under(Root)), View(Root))
  /\ surface' = [surface EXCEPT ![Root].role = TRUE]
  /\ UNCHANGED crashed

\* The surface at the root of s's tree.
GetRootSurface(s) ==
  LET up[i \in Nat] == IF i = 0 THEN s
                       ELSE IF up[i - 1] = Root \/ surface[up[i - 1]].parent = none
                            THEN up[i - 1] ELSE surface[up[i - 1]].parent
  IN  up[Cardinality(Surfaces)]

GetSubsurface(s, p) ==
  /\ s # Root /\ p # s
  /\ surface[s].alive /\ surface[p].alive
  /\ ~surface[s].role
  /\ GetRootSurface(p) # s
  /\ surface' = [surface EXCEPT ![s].role = TRUE, ![s].parent = p, ![s].pending = TRUE,
                                ![p].subsurfaces = Append(@, s)]
  /\ UNCHANGED <<tree, crashed>>

\* place_above and place_below are recorded on the parent.  A subsurface that
\* has lost its parent has siblings all the same, and nothing to record on.
Place(s, other, type) ==
  /\ s # Root /\ surface[s].alive /\ surface[s].role /\ surface[other].alive
  /\ other = surface[s].parent \/ Siblings(surface, s, other)
  /\ other = s => SelfPlacement
  /\ IF surface[s].parent = none
     THEN /\ OrphanRequests
          /\ crashed' = TRUE
          /\ UNCHANGED <<tree, surface>>
     ELSE /\ Len(surface[surface[s].parent].actions) < MaxActions
          /\ surface' = [surface EXCEPT ![surface[s].parent].actions =
                           Append(@, [subsurface |-> s, type |-> type, other |-> other])]
          /\ UNCHANGED <<tree, crashed>>

\* A synchronous subsurface keeps the commit for its parent.
Commit(s, buffer) ==
  /\ surface[s].alive
  /\ IF s # Root /\ surface[s].role
     THEN /\ surface' = [surface EXCEPT ![s].cached = <<buffer>>]
          /\ UNCHANGED <<tree, crashed>>
     ELSE Become(InternalCommit(Now, s, buffer))

\* The role object is destroyed, the surface remains.
DestroyRole(s) ==
  /\ surface[s].alive /\ surface[s].role
  /\ Become(Teardown(Now, s))

DestroySurface(s) ==
  /\ surface[s].alive
  /\ Become(HandleSurfaceDestroy(Now, s))

Next ==
  \/ GetXdgSurface
  \/ \E s, p \in Surfaces : GetSubsurface(s, p)
  \/ \E s \in Movers, other \in Surfaces, type \in {"above", "below"} : Place(s, other, type)
  \/ \E s \in Surfaces : \E buffer \in Attachments[s] : Commit(s, buffer)
  \/ \E s \in Surfaces : DestroyRole(s)
  \/ \E s \in Mortal : DestroySurface(s)

Spec == Init /\ [][Next]_vars

-----------------------------------------------------------------------------
\* The order that the requests ask for

RECURSIVE Preorder(_, _)
Preorder(t, v) ==
  FoldLeft(LAMBDA order, child : order \o Preorder(t, child),
           IF v = window THEN <<>> ELSE <<v>>, t.children[v])

\* A surface and its subsurfaces, from the bottom to the top.
Shows(vs) == LET shown == SelectSeq(vs, LAMBDA v : v[2] = "view")
             IN  [i \in DOMAIN shown |-> shown[i][1]]
Stack(t, s) == Shows(t.children[Under(s)]) \o <<s>> \o Shows(t.children[View(s)])

Without(stack, s) == SelectSeq(stack, LAMBDA u : u # s)
IndexIn(stack, s) == CHOOSE i \in DOMAIN stack : stack[i] = s

\* What wl_subsurface promises of a place request: the surface is taken out of
\* the stack and put back just above or below the other one.
Placed(stack, a) ==
  IF ~\E i \in DOMAIN stack : stack[i] = a.other THEN stack
  ELSE LET rest == Without(stack, a.subsurface)
           at == IndexIn(rest, a.other)
       IN  InsertAt(rest, IF a.type = "above" THEN at + 1 ELSE at, a.subsurface)

\* The chain of parents of s reaches the window.
RECURSIVE InWindow(_, _)
InWindow(sf, s) ==
  IF s = Root THEN sf[Root].role
  ELSE sf[s].role /\ ~sf[s].pending /\ sf[s].parent # none /\ InWindow(sf, sf[s].parent)

-----------------------------------------------------------------------------
\* The surfaces, the views and the heap have their types.
TypeOK ==
  /\ Linked(tree.list, Links)
  /\ tree.children \in [Links -> Seq(Views)]
  /\ tree.parent \in [Views -> Views \cup {none}]
  /\ tree.inferior \in [Views -> Views \cup {window}]
  /\ tree.subcompositor \in [Views -> BOOLEAN]
  /\ tree.unmapped \in [Views -> BOOLEAN]
  /\ tree.buffer \in [Views -> BOOLEAN]
  /\ \A s \in Surfaces :
       /\ {surface[s].alive, surface[s].role, surface[s].pending} \subseteq BOOLEAN
       /\ surface[s].parent \in Surfaces \cup {none}
       /\ \A i \in DOMAIN surface[s].subsurfaces :
            surface[surface[s].subsurfaces[i]].parent = s
       /\ \A i \in DOMAIN surface[s].actions :
            /\ surface[surface[s].actions[i].subsurface].parent = s
            /\ surface[surface[s].actions[i].other].alive
  /\ crashed \in BOOLEAN

\* The list of inferiors of a window is its tree of views in preorder (the
\* comment that opens subcompositor.c), for windows and for trees outside one.
ListIsPreorder ==
  /\ Following(tree.list, window) = Append(Preorder(tree, window), window)
  /\ \A v \in Views : tree.parent[v] = none /\ ~tree.subcompositor[v] =>
       Following(tree.list, v) = Append(Tail(Preorder(tree, v)), v)

\* Every view points to its last descendant, whatever was moved below it.
InferiorIsLast == \A v \in Views : tree.inferior[v] = Last(Preorder(tree, v))

\* A view has the subcompositor exactly while its surface is in the window; no
\* role, parent or window that goes away leaves a pointer behind.
SubcompositorCurrent ==
  \A s \in Surfaces :
    /\ tree.subcompositor[View(s)] = InWindow(surface, s)
    /\ tree.subcompositor[Under(s)] = InWindow(surface, s)

\* ViewFree's assertions hold and no null pointer is used.
NoAbort == ~crashed

\* Whatever was inserted, moved, unmapped and destroyed, the list, the inferior
\* pointers and the subcompositor pointers of all views agree with the tree.
TreeConsistent == ListIsPreorder /\ InferiorIsLast /\ SubcompositorCurrent /\ NoAbort

\* What the pointer finds at a point is the topmost view that is drawn there.
LookupFindsDrawn ==
  \A hit \in SUBSET Surfaces :
    LET drawn == SelectSeq(Drawn(tree), LAMBDA v : v[1] \in hit)
    IN  SubcompositorLookupView(tree, hit) = (IF drawn = <<>> THEN none ELSE Last(drawn))

\* When the cached state of a subsurface in a window is applied, the subsurface
\* is drawn if it has a buffer and its parent is drawn, and without a buffer
\* nothing of it or of the subsurfaces above and below it remains.
CommitMaps ==
    \A s \in Surfaces \ {Root} :
       /\ surface[s].cached # <<>> /\ surface'[s].cached = <<>>
       /\ InWindow(surface', s)
       => LET drawn == Range(Drawn(tree'))
              own == Range(Preorder(tree', Under(s))) \cup Range(Preorder(tree', View(s)))
          IN  IF surface[s].cached[1]
              THEN View(surface'[s].parent) \in drawn => View(s) \in drawn
              ELSE own \cap drawn = {}

\* A commit of the parent carries out the requests recorded on it in the order
\* in which they were made, on top of the subsurfaces it adds.
Places(asked(_, _)) ==
  \A p \in Surfaces :
    LET requests == surface[p].actions
        added == SelectSeq(surface[p].subsurfaces, LAMBDA s : surface[s].pending)
    IN  /\ requests # <<>> /\ surface'[p].actions = <<>>
        /\ surface'[p].subsurfaces = surface[p].subsurfaces
        /\ \A s \in Surfaces : surface'[s].alive = surface[s].alive
        /\ \A i \in DOMAIN requests : asked(p, requests[i])
        => Stack(tree', p) = FoldLeft(Placed, Stack(tree, p) \o added, requests)

\* The same for all requests but those to be placed just above the parent.
CommitPlaces == Places(LAMBDA p, a : a.type = "above" => a.other # p)

\* A commit leaves the surfaces stacked, and mapped, as was asked for.
CommitsAsAsked == [][CommitPlaces /\ CommitMaps]_vars

\* All requests, as the protocol has them.
CommitPlacesAll == [][Places(LAMBDA p, a : TRUE)]_vars

=============================================================================
