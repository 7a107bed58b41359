----------------------------- MODULE MCTextInput -----------------------------
(***************************************************************************)
(* TextInput for model checking: one client with one text input, and one   *)
(* key that the input method may replace.                                  *)
(***************************************************************************)
EXTENDS TextInput

OneClient(s) == "c1"
OnlyOwner(i) == "c1"
OneKey == {[focus |-> 1, commit |-> 1, draw |-> 0, key |-> 1, im |-> 1]}

=============================================================================
