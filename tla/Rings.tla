-------------------------------- MODULE Rings --------------------------------
(***************************************************************************)
(* The circular doubly linked lists of subcompositor.c.  A heap of list    *)
(* nodes is a record of two functions, next and last; each operator is the *)
(* function of that name, applied to a heap.  There is no type for a list: *)
(* it is whatever can be reached from a node, which is how a view that is  *)
(* taken out of a window keeps its descendants as a list of their own.     *)
(*                                                                         *)
(* An operator named Wrong... is a deliberate bug in the operator that     *)
(* follows it.                                                             *)
(***************************************************************************)
EXTENDS Naturals, FiniteSets

\* One node per list.
ListInit(nodes) == [next |-> [n \in nodes |-> n], last |-> [n \in nodes |-> n]]

\* Put start ... end, a list of their own, behind dest.
ListRelinkAfter(h, start, end, dest) ==
  [next |-> [h.next EXCEPT ![end] = h.next[dest], ![dest] = start],
   last |-> [h.last EXCEPT ![start] = dest, ![h.next[dest]] = end]]

ListInsertAfter(h, after, item) == ListRelinkAfter(h, item, item, after)

ListInsertBefore(h, before, item) == ListRelinkAfter(h, item, item, h.last[before])

ListRelinkBefore(h, start, end, dest) ==
  ListRelinkAfter(h, start, end, h.last[dest])

WrongListUnlink(h, start, end) ==
  [next |-> [h.next EXCEPT ![h.last[start]] = h.next[end], ![end] = start],
   last |-> [h.last EXCEPT ![start] = end]]

\* Take start ... end out of their list, and make them a list of their own.
ListUnlink(h, start, end) ==
  [next |-> [h.next EXCEPT ![h.last[start]] = h.next[end], ![end] = start],
   last |-> [h.last EXCEPT ![h.next[end]] = h.last[start], ![start] = end]]

-----------------------------------------------------------------------------
\* A heap in which next and last are functions on its nodes, each the inverse
\* of the other: every node is on exactly one ring.
Linked(h, nodes) ==
  /\ h.next \in [nodes -> nodes]
  /\ h.last \in [nodes -> nodes]
  /\ \A n \in nodes : h.next[h.last[n]] = n /\ h.last[h.next[n]] = n
=============================================================================
