----------------------------- MODULE WindowCache -----------------------------
(***************************************************************************)
(* The cache of the window tree that dnd.c keeps while a drag goes on over *)
(* windows of other X clients: filled by reading the tree, kept up to date *)
(* from hierarchy events, asked for the toplevel under the pointer.        *)
(* Around it the X server, the only one who knows the tree.                *)
(*                                                                         *)
(* Abstracted: one point; whether the geometry and the shape of a window   *)
(* contain it are two Booleans.  The replies to one batch of requests are  *)
(* of one moment; only the list of the children of the root window is older.*)
(***************************************************************************)
EXTENDS Naturals, Sequences, SequencesExt, FiniteSets

CONSTANTS
  Root, Windows,
  FirstWindows, \* the children of the root window at first, topmost first
  ShortLived,   \* a window may be destroyed while its creation is unread
  MaxChanges    \* bound: changes of the tree

VARIABLES
  server,   \* the window tree, and the windows whose events are selected
  xqueue,   \* events not yet handled
  cache,    \* the WindowCache
  reading,  \* the children of the root window as last read, or <<Root>>
  changes,
  misled    \* the events whose handlers go wrong, see Misled below

cacheVars == <<server, xqueue, cache, reading, changes, misled>>

\* Nodes of the lists of children: the entries, and the sentinel of each entry.
Entry(w) == <<"entry", w>>
ChildList(w) == <<"children", w>>
Null == <<"null", Root>>
Nodes == {Entry(w) : w \in Windows \cup {Root}} \cup {ChildList(w) : w \in Windows \cup {Root}}
NotReading == <<Root>>

-----------------------------------------------------------------------------
(* The X server. *)

Below(w) == IF Len(server.order[w]) = 0 THEN {} ELSE ToSet(server.order[w])
Exists(w) == \E p \in Windows \cup {Root} : w \in Below(p)
ParentOf(w) == CHOOSE p \in Windows \cup {Root} : w \in Below(p)

\* The sibling under w, "above" in ConfigureNotify: None is Root.
Above(order, w) ==
  LET i == CHOOSE j \in DOMAIN order : order[j] = w
  IN IF i = Len(order) THEN Root ELSE order[i + 1]

Move(order, w, i) == InsertAt(Remove(order, w), i, w)

Event(type, parent, w) == [type |-> type, event |-> parent, window |-> w, above |-> Root, in |-> FALSE]

Configured(w, order, in) ==
  [Event("Configure", ParentOf(w), w) EXCEPT !.above = Above(order, w), !.in = in]

\* An event reaches those who selected for it on "event".
Notify(sv, events) == xqueue' = xqueue \o SelectSeq(events, LAMBDA e : e.event \in sv.selected)

Change(sv, events, cause) ==
  /\ changes < MaxChanges /\ changes' = changes + 1
  /\ server' = sv
  /\ Notify(server, events)
  /\ misled' = misled \cup cause
  /\ UNCHANGED <<cache, reading>>

\* A change of the children of the root window between the two reads is missed.
Raced(p) == IF p = Root /\ reading # NotReading THEN {"raced"} ELSE {}

CreateWindow(w, p) ==
  /\ w \notin server.born /\ (p = Root \/ Exists(p))
  /\ Change([server EXCEPT !.order[p] = <<w>> \o @, !.born = @ \cup {w}],
            <<Event("Create", p, w)>>, Raced(p))

DestroyWindow(w) ==
  /\ Exists(w) /\ Below(w) = {}
  /\ (\E i \in DOMAIN xqueue : xqueue[i].type = "Create" /\ xqueue[i].window = w) => ShortLived
  /\ LET p == ParentOf(w) IN
     Change([server EXCEPT !.order[p] = Remove(@, w), !.selected = @ \ {w}], <<Event("Destroy", p, w)>>, {})

MapWindow(w) ==
  /\ Exists(w)
  /\ LET up == w \in server.mapped IN
     Change([server EXCEPT !.mapped = IF up THEN @ \ {w} ELSE @ \cup {w}],
            <<Event(IF up THEN "Unmap" ELSE "Map", ParentOf(w), w)>>, {})

MoveWindow(w) ==
  /\ Exists(w)
  /\ LET in == w \notin server.in IN
     Change([server EXCEPT !.in = IF in THEN @ \cup {w} ELSE @ \ {w}],
            <<Configured(w, server.order[ParentOf(w)], in)>>, {})

\* The topmost of several windows becomes the lowest: the handler ignores it.
RestackWindow(w) ==
  /\ Exists(w)
  /\ LET p == ParentOf(w) IN
     \E i \in DOMAIN server.order[p] :
       LET order == Move(server.order[p], w, i) IN
       /\ order # server.order[p]
       /\ Change([server EXCEPT !.order[p] = order], <<Configured(w, order, w \in server.in)>>,
                 Raced(p) \cup IF server.order[p][1] = w /\ i = Len(order) THEN {"lowered"} ELSE {})

CirculateSubwindows(p) ==
  /\ Len(server.order[p]) > 1
  /\ \E place \in {"Top", "Bottom"} :
       LET order == server.order[p]
           w == order[IF place = "Top" THEN Len(order) ELSE 1]
       IN Change([server EXCEPT !.order[p] = Move(order, w, IF place = "Top" THEN 1 ELSE Len(order))],
                 <<Event("Circulate" \o place, p, w)>>, {"circulated"})

ReparentWindow(w, p) ==
  /\ Exists(w) /\ Below(w) = {} /\ p \notin {w, ParentOf(w)} /\ (p = Root \/ Exists(p))
  /\ Change([server EXCEPT !.order[p] = <<w>> \o @, !.order[ParentOf(w)] = Remove(@, w)],
            <<[Event("Reparent", ParentOf(w), w) EXCEPT !.above = p], [Event("Reparent", p, w) EXCEPT !.above = p]>>,
            {"reparented"})

\* A window manager sets or deletes WM_STATE; a client changes its shape.
ChangeState(w) ==
  /\ Exists(w)
  /\ Change([server EXCEPT !.wmstate = IF w \in @ THEN @ \ {w} ELSE @ \cup {w}],
            <<Event("Property", w, w)>>, {})

ChangeShape(w) ==
  /\ Exists(w)
  /\ Change([server EXCEPT !.shape = IF w \in @ THEN @ \ {w} ELSE @ \cup {w}],
            <<Event("Shape", w, w)>>, {})

-----------------------------------------------------------------------------
(* dnd.c *)

\* Using an entry that is gone, or NULL.
Broken(c) == [c EXCEPT !.broken = TRUE]
Usable(c, n) == n # Null /\ n[2] \in c.entries

AddAfter(c, entry, after) ==
  IF ~Usable(c, after) \/ ~Usable(c, c.next[after]) THEN Broken(c)
  ELSE [c EXCEPT !.next = [@ EXCEPT ![entry] = c.next[after], ![after] = entry],
                 !.last = [@ EXCEPT ![entry] = after, ![c.next[after]] = entry]]

UnlinkWindowCacheEntry(c, e) ==
  IF ~Usable(c, c.last[e]) \/ ~Usable(c, c.next[e]) THEN Broken(c)
  ELSE [c EXCEPT !.next[c.last[e]] = c.next[e], !.last[c.next[e]] = c.last[e]]

AddChild(c, p, w) ==
  AddAfter([c EXCEPT !.entries = @ \cup {w}, !.parent[w] = p,
                     !.next[ChildList(w)] = ChildList(w), !.last[ChildList(w)] = ChildList(w),
                     !.mapped = IF w \in server.mapped THEN @ \cup {w} ELSE @ \ {w},
                     !.in = IF w \in server.in THEN @ \cup {w} ELSE @ \ {w},
                     !.shape = IF w \in server.shape THEN @ \cup {w} ELSE @ \ {w},
                     !.selected = @ \cup {w}],
           Entry(w), ChildList(p))

\* The windows of a subtree, each after its parent and its lower siblings.
RECURSIVE Subtree(_, _)
Subtree(p, order) ==
  IF order = <<>> THEN <<>>
  ELSE LET w == order[Len(order)] IN
       (IF Exists(w) THEN <<<<p, w>>>> \o Subtree(w, server.order[w]) ELSE <<>>)
       \o Subtree(p, Front(order))

\* order is the reply to XQueryTree; windows that are gone are left out.
AddChildren(c, p, order) == FoldLeft(LAMBDA d, e : AddChild(d, e[1], e[2]), c, Subtree(p, order))

EmptyCache ==
  [live |-> FALSE, broken |-> FALSE, entries |-> {}, parent |-> [w \in Windows |-> Root],
   next |-> [n \in Nodes |-> Null], last |-> [n \in Nodes |-> Null],
   mapped |-> {}, in |-> {}, shape |-> {}, dirty |-> {}, toplevel |-> {}, other |-> {}, selected |-> {}]

MakeRootWindowEntry ==
  [EmptyCache EXCEPT !.live = TRUE, !.entries = {Root}, !.selected = {Root},
                     !.next[ChildList(Root)] = ChildList(Root), !.last[ChildList(Root)] = ChildList(Root)]

\* The entries in a list of children.  A list that does not come back to its
\* sentinel is cut off.
RECURSIVE Following(_, _, _)
Following(c, n, bound) ==
  IF n[1] = "children" \/ bound = 0 \/ ~Usable(c, n) THEN <<>>
  ELSE <<n[2]>> \o Following(c, c.next[n], bound - 1)
ChildrenOf(c, w) == Following(c, c.next[ChildList(w)], Cardinality(Windows))

RECURSIVE Inferiors(_, _)
Inferiors(c, w) ==
  {w} \cup UNION {Inferiors([c EXCEPT !.entries = @ \ {w}], v) : v \in ToSet(ChildrenOf(c, w)) \ {w}}

\* Reverting to the old event mask is as good as selecting nothing.
FreeWindowCacheEntry(c, w) ==
  LET gone == Inferiors(c, w)
      d == IF w = Root THEN c ELSE UnlinkWindowCacheEntry(c, Entry(w))
  IN [d EXCEPT !.entries = @ \ gone, !.dirty = @ \ gone, !.selected = @ \ gone]

HandleCirculateNotify(c, e) ==
  LET w == Entry(e.window)
      d == UnlinkWindowCacheEntry(c, w)
  IN IF ~{e.event, e.window} \subseteq c.entries THEN c
     ELSE IF c.parent[e.window] # e.event \/ d.broken THEN Broken(d)  \* XLAssert
     ELSE IF e.type = "CirculateTop" THEN AddAfter(d, d.next[w], ChildList(e.event))
     ELSE AddAfter(d, d.next[w], d.last[ChildList(e.event)])

RECURSIVE FindEntry(_, _, _, _)
FindEntry(c, n, w, bound) ==
  IF n[1] = "children" \/ bound = 0 \/ ~Usable(c, n) THEN Null
  ELSE IF n[2] = w THEN n ELSE FindEntry(c, c.next[n], w, bound - 1)

WrongHandleConfigureNotify(c, e) ==
  LET w == Entry(e.window)
      moved == e.in # (e.window \in c.in)
      d == [c EXCEPT !.in = IF e.in THEN @ \cup {e.window} ELSE @ \ {e.window},
                     !.dirty = IF moved THEN @ \cup {e.window} ELSE @]
      sentinel == ChildList(e.event)
      sibling == FindEntry(d, d.next[sentinel], e.above, Cardinality(Windows))
      unlinked == UnlinkWindowCacheEntry(d, w)
  IN CASE e.window \notin c.entries -> Broken(c)
       [] e.window \in c.entries /\ e.above = Root ->
            IF d.last[w] = sentinel \/ unlinked.broken THEN d ELSE AddAfter(unlinked, w, unlinked.last[sentinel])
       [] OTHER ->
            IF (d.next[w] # sentinel /\ d.next[w][2] = e.above) \/ sibling = Null \/ unlinked.broken THEN d
            ELSE AddAfter(unlinked, w, sibling)

\* The event is used without a look at whether the window is known.  What is
\* taken for the bottom of the list is its top.
HandleConfigureNotify(c, e) ==
  LET w == Entry(e.window)
      moved == e.in # (e.window \in c.in)
      d == [c EXCEPT !.in = IF e.in THEN @ \cup {e.window} ELSE @ \ {e.window},
                     !.dirty = IF moved THEN @ \cup {e.window} ELSE @,
                     !.shape = IF moved THEN @ \ {e.window} ELSE @]
      sentinel == ChildList(e.event)
      sibling == FindEntry(d, d.next[sentinel], e.above, Cardinality(Windows))
      unlinked == UnlinkWindowCacheEntry(d, w)
  IN CASE e.window \notin c.entries -> Broken(c)
       [] e.window \in c.entries /\ e.event \notin c.entries -> d
       [] e.window \in c.entries /\ e.event \in c.entries /\ e.above = Root ->
            IF d.last[w] = sentinel THEN d
            ELSE IF unlinked.broken THEN unlinked
            ELSE AddAfter(unlinked, w, unlinked.last[sentinel])
       [] OTHER ->
            IF (d.next[w] # sentinel /\ d.next[w][2] = e.above) \/ sibling = Null THEN d
            ELSE IF unlinked.broken THEN unlinked
            ELSE AddAfter(unlinked, w, unlinked.last[sibling])

\* Nothing is added if the window is gone by now.
HandleCreateNotify(c, e) ==
  IF e.event \notin c.entries \/ e.window \in c.entries \/ ~Exists(e.window) THEN c
  ELSE AddChildren(AddChild(c, e.event, e.window), e.window, server.order[e.window])

HandleMapNotify(c, e) ==
  IF e.window \in c.entries THEN [c EXCEPT !.mapped = @ \cup {e.window}] ELSE c
HandleUnmapNotify(c, e) == [c EXCEPT !.mapped = @ \ {e.window}]

\* The window is linked after the parent, not into the list of its children.
HandleReparentNotify(c, e) ==
  LET p == e.above
      d == [UnlinkWindowCacheEntry(c, Entry(e.window)) EXCEPT !.parent[e.window] = p]
  IN IF ~{p, e.window} \subseteq c.entries THEN c
     ELSE AddAfter(d, Entry(e.window), d.last[Entry(p)])

HandleDestroyNotify(c, e) == IF e.window \in c.entries THEN FreeWindowCacheEntry(c, e.window) ELSE c

HandlePropertyNotify(c, e) == [c EXCEPT !.toplevel = @ \ {e.window}, !.other = @ \ {e.window}]

\* Reading the shape of a window that is gone fails and changes nothing.
EnsureShape(c, w, force) ==
  IF (~force /\ w \notin c.dirty) \/ ~Exists(w) THEN c
  ELSE [c EXCEPT !.shape = IF w \in server.shape THEN @ \cup {w} ELSE @ \ {w}, !.dirty = @ \ {w}]

HandleShapeNotify(c, e) == IF e.window \in c.entries THEN EnsureShape(c, e.window, TRUE) ELSE c

ProcessEventForWindowCache(c, e) ==
  CASE e.type \in {"CirculateTop", "CirculateBottom"} -> HandleCirculateNotify(c, e)
    [] e.type = "Configure" -> HandleConfigureNotify(c, e)
    [] e.type = "Create" -> HandleCreateNotify(c, e)
    [] e.type = "Destroy" -> HandleDestroyNotify(c, e)
    [] e.type = "Map" -> HandleMapNotify(c, e)
    [] e.type = "Reparent" -> HandleReparentNotify(c, e)
    [] e.type = "Unmap" -> HandleUnmapNotify(c, e)
    [] e.type = "Property" -> HandlePropertyNotify(c, e)
    [] e.type = "Shape" -> HandleShapeNotify(c, e)

\* What is known of WM_STATE is kept.
IsToplevelWindow(c, w) ==
  IF w \in c.toplevel \cup c.other THEN c
  ELSE IF Exists(w) /\ w \in server.wmstate THEN [c EXCEPT !.toplevel = @ \cup {w}]
  ELSE [c EXCEPT !.other = @ \cup {w}]

\* <<the window found, the cache after it>>; Root stands for None.  depth ends
\* the search of a tree that is no longer one.
RECURSIVE FindToplevelWindow1(_, _, _)
FindToplevelWindow1(c, order, depth) ==
  LET w == order[1]
      d == EnsureShape(c, w, FALSE)
      e == IsToplevelWindow(d, w)
  IN IF order = <<>> \/ depth = 0 THEN <<Root, c>>
     ELSE IF w \notin c.mapped THEN FindToplevelWindow1(c, Tail(order), depth)
     ELSE IF ~(w \in d.in /\ w \in d.shape) THEN FindToplevelWindow1(d, Tail(order), depth)
     ELSE IF w \in e.toplevel THEN <<w, e>>
     ELSE FindToplevelWindow1(e, ChildrenOf(e, w), depth - 1)

FindToplevelWindow(c) == FindToplevelWindow1(c, ChildrenOf(c, Root), Cardinality(Windows))

-----------------------------------------------------------------------------
(* Steps of the translator. *)

\* AllocWindowCache: the children of the root window are read ...
AllocWindowCache ==
  /\ ~cache.live /\ ~cache.broken /\ reading = NotReading /\ xqueue = <<>> /\ misled = {}
  /\ reading' = server.order[Root]
  /\ UNCHANGED <<server, xqueue, cache, changes, misled>>

\* ... then events are selected, and the windows themselves are read.
ReadTree ==
  /\ reading # NotReading
  /\ cache' = AddChildren(MakeRootWindowEntry, Root, reading)
  /\ server' = [server EXCEPT !.selected = cache'.selected]
  /\ reading' = NotReading
  /\ UNCHANGED <<xqueue, changes, misled>>

HandleXEvent ==
  /\ xqueue # <<>> /\ ~cache.broken
  /\ xqueue' = Tail(xqueue)
  /\ cache' = IF cache.live THEN ProcessEventForWindowCache(cache, Head(xqueue)) ELSE cache
  /\ server' = [server EXCEPT !.selected = cache'.selected]
  /\ UNCHANGED <<reading, changes, misled>>

\* XLDoDragMotion
FindToplevel ==
  /\ cache.live /\ ~cache.broken
  /\ cache' = FindToplevelWindow(cache)[2]
  /\ cache' # cache
  /\ UNCHANGED <<server, xqueue, reading, changes, misled>>

\* FinishDrag
FreeWindowCache ==
  /\ cache.live /\ ~cache.broken
  /\ cache' = [EmptyCache EXCEPT !.selected = FreeWindowCacheEntry(cache, Root).selected]
  /\ server' = [server EXCEPT !.selected = cache'.selected]
  /\ UNCHANGED <<xqueue, reading, changes, misled>>

CacheInit ==
  /\ server = [order |-> [p \in Windows \cup {Root} |-> IF p = Root THEN FirstWindows ELSE <<>>],
               born |-> ToSet(FirstWindows), mapped |-> ToSet(FirstWindows), in |-> Windows,
               shape |-> Windows, wmstate |-> ToSet(FirstWindows), selected |-> {}]
  /\ xqueue = <<>> /\ cache = EmptyCache /\ reading = NotReading
  /\ changes = 0 /\ misled = {}

CacheNext ==
  \/ \E w \in Windows :
       \/ DestroyWindow(w) \/ MapWindow(w) \/ MoveWindow(w) \/ RestackWindow(w)
       \/ ChangeState(w) \/ ChangeShape(w)
       \/ \E p \in Windows \cup {Root} : CreateWindow(w, p) \/ ReparentWindow(w, p)
  \/ \E p \in Windows \cup {Root} : CirculateSubwindows(p)
  \/ AllocWindowCache \/ ReadTree \/ HandleXEvent \/ FindToplevel \/ FreeWindowCache

CacheSpec == CacheInit /\ [][CacheNext]_cacheVars

-----------------------------------------------------------------------------
(* Properties. *)

CacheTypeOK ==
  /\ cache.entries \subseteq Windows \cup {Root} /\ cache.selected \subseteq Windows \cup {Root}
  /\ cache.next \in [Nodes -> Nodes \cup {Null}] /\ cache.last \in [Nodes -> Nodes \cup {Null}]
  /\ misled \subseteq {"raced", "lowered", "circulated", "reparented"}

\* The toplevel under the pointer: the topmost window that contains it decides.
RECURSIVE TrueToplevel(_)
TrueToplevel(order) ==
  LET w == order[1] IN
  IF order = <<>> THEN Root
  ELSE IF w \notin server.mapped \cap server.in \cap server.shape THEN TrueToplevel(Tail(order))
  ELSE IF w \in server.wmstate THEN w
  ELSE TrueToplevel(server.order[w])

\* With every event handled, the cache has the windows of the server in their order.
TreeCurrent ==
  cache.live /\ xqueue = <<>> =>
    /\ cache.entries = {Root} \cup {w \in Windows : Exists(w)}
    /\ \A w \in cache.entries : ChildrenOf(cache, w) = server.order[w]

\* ... and finds the window that is under the pointer.
ToplevelFound ==
  cache.live /\ xqueue = <<>> => FindToplevelWindow(cache)[1] = TrueToplevel(server.order[Root])

\* Events are selected only while there is a cache, and no freed entry is used.
NoEventsSelected == ~cache.live => server.selected = {}

\* But for changes between the two reads, and events whose handlers go wrong.
CacheCurrent ==
  misled = {} => TreeCurrent /\ ToplevelFound /\ NoEventsSelected /\ ~cache.broken

\* "If event->xconfigure.above is None, this window is at the bottom.  If it is
\* anywhere else, move it there."
OrderKept == misled \subseteq {"lowered"} => TreeCurrent

=============================================================================
