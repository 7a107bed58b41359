------------------------------ MODULE MCStacking ------------------------------
(* What the surfaces of the runs attach. *)
EXTENDS Stacking

\* The root keeps its buffer, subsurfaces are mapped and unmapped.
SubsurfacesUnmap == [s \in Surfaces |-> IF s = Root THEN {TRUE} ELSE BOOLEAN]
=============================================================================
