------------------------------ MODULE MCDrawing ------------------------------
(***************************************************************************)
(* What a window draws: which views, in which order (Stacking), and into   *)
(* which buffer (BackBuffers).  The two do not interact; "active" is the   *)
(* one that takes steps, the other stays in its initial state, so that     *)
(* their state spaces add up and do not multiply.                          *)
(***************************************************************************)
EXTENDS BackBuffers, MCStacking

VARIABLE active

DrawingInit ==
  /\ active \in {"buffers", "stacking"}
  /\ BuffersInit
  /\ Init

DrawingNext ==
  \/ active = "buffers" /\ BuffersNext /\ UNCHANGED <<active, vars>>
  \/ active = "stacking" /\ Next /\ UNCHANGED <<active, bufferVars>>

DrawingSpec == DrawingInit /\ [][DrawingNext]_<<active, bufferVars, vars>>

\* No definition tells one part of the window from another.
PartsSymmetry == Permutations(Parts)

\* No guard and none of the properties of swaps and fences reads which parts
\* of a buffer or of the screen are stale: two states that differ only there
\* are the same to those properties.
WithoutContents ==
  << views, prior, screen.exposed,
     [target EXCEPT !.buffers = [i \in Slots |-> [@[i] EXCEPT !.stale = {}]]] >>

\* The component that is at rest does not tell states apart.
ActiveOnly == <<active, IF active = "stacking" THEN vars ELSE WithoutContents>>

-----------------------------------------------------------------------------
(* The properties of Stacking, where it takes steps. *)

\* Surfaces, their recorded requests and the views have their types.
ViewsTypeOK == active = "stacking" => TypeOK

\* Whatever was inserted, moved, unmapped and destroyed, the list, the inferior
\* pointers and the subcompositor pointers of all views agree with the tree.
ViewsConsistent == active = "stacking" => TreeConsistent

\* A commit leaves the surfaces stacked, and mapped, as was asked for: the
\* requests recorded on a parent are carried out in their order, and what has a
\* buffer below a drawn parent is drawn.
StackedAsAsked == [][active = "stacking" => CommitPlaces /\ CommitMaps]_vars

=============================================================================
