-------------------------- MODULE MCSelectionOwner --------------------------
(***************************************************************************)
(* SelectionOwner for model checking: one client that asks for two         *)
(* conversions in one MULTIPLE request.                                    *)
(***************************************************************************)
EXTENDS SelectionOwner

CONSTANTS propertyA, propertyB

BothTexts == {<<[target |-> "text", property |-> propertyA], [target |-> "latin", property |-> propertyB]>>}

=============================================================================
