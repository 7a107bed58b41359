------------------------------ MODULE Positioner ------------------------------
(***************************************************************************)
(* Where a popup is put (positioner.c).  The two axes are computed apart,  *)
(* by the same rules; an anchor or a gravity is what it says of each axis: *)
(* "start" is left or top, "end" right or bottom, "middle" neither.        *)
(*                                                                         *)
(* p is a positioner: for each axis its offset, its anchor rectangle (at,  *)
(* length), the length of the popup, anchor and gravity, and the           *)
(* adjustments allowed.  An extent [at, length] is what an output or a     *)
(* popup covers of an axis, in window coordinates; parent is where the     *)
(* geometry of the parent starts.  The factor is an integer, for which     *)
(* input_delta_x and input_delta_y are 0.                                  *)
(***************************************************************************)
EXTENDS Integers

\* The division of C.
Quotient(a, b) == IF a >= 0 THEN a \div b ELSE -((-a) \div b)

Last(extent) == extent.at + extent.length - 1
Inside(extent, output) == extent.at >= output.at /\ Last(extent) <= Last(output)
Mirrored(side) == CASE side = "start" -> "end" [] side = "end" -> "start" [] OTHER -> side

\* The setters refuse an empty popup and an empty anchor rectangle.
SetSize(axis) == axis.length >= 1
SetAnchorRect(axis) == axis.anchorLength >= 1
XLCheckPositionerComplete(p) == \A a \in {"x", "y"} : SetSize(p[a]) /\ SetAnchorRect(p[a])

\* In surface coordinates.
CalculatePosition(axis) ==
  LET anchored == axis.offset + axis.anchorAt +
        CASE axis.anchor = "start" -> 0
          [] axis.anchor = "end" -> axis.anchorLength
          [] OTHER -> axis.anchorLength \div 2
  IN anchored - CASE axis.gravity = "start" -> axis.length
                  [] axis.gravity = "end" -> 0
                  [] OTHER -> axis.length \div 2

WrongSlide(axis, popup, output) ==
  IF Inside(popup, output) THEN popup.at
  ELSE IF popup.at < output.at THEN output.at
  ELSE popup.at - (Last(popup) - Last(output)) + 1

\* Back into the output; the gravity chooses which edge is looked at first.
Slide(axis, popup, output) ==
  LET after == Last(popup) > Last(output)
      before == popup.at < output.at
      back == popup.at - (Last(popup) - Last(output))
  IN IF Inside(popup, output) THEN popup.at
     ELSE IF axis.gravity = "start" THEN IF before THEN output.at ELSE IF after THEN back ELSE popup.at
     ELSE IF after THEN back ELSE IF before THEN output.at ELSE popup.at

TrySlideX(p, popup, output) == Slide(p.x, popup, output)
TrySlideY(p, popup, output) == Slide(p.y, popup, output)

\* To the other side of the anchor, if it is inside the output there.
Flip(axis, popup, output, parent, factor) ==
  LET new == [axis EXCEPT !.anchor = Mirrored(@), !.gravity = Mirrored(@)]
      at == CalculatePosition(new) * factor + parent
  IN IF Inside(popup, output) \/ new = axis \/ ~Inside([popup EXCEPT !.at = at], output)
     THEN popup.at ELSE at

TryFlipX(p, popup, output, parent, factor) == Flip(p.x, popup, output, parent, factor)
TryFlipY(p, popup, output, parent, factor) == Flip(p.y, popup, output, parent, factor)

\* What is left in the output.  The length is that from where the popup was, so
\* the part that is in front of the output is not taken off it.
Resize(popup, output) ==
  LET first == IF popup.at < output.at THEN output.at ELSE popup.at
      last == IF Last(popup) > Last(output) THEN Last(output) ELSE Last(popup)
      length == last - popup.at + 1
  IN IF Inside(popup, output) \/ length <= 0 THEN popup ELSE [at |-> first, length |-> length]

TryResizeX(popup, output) == Resize(popup, output)
TryResizeY(popup, output) == Resize(popup, output)

\* Flip, slide, then resize, for one axis.
Adjusted(p, a, popup, output, parent, factor) ==
  LET may == p.adjustments[a]
      axis == a = "x"
      flipped == IF "flip" \notin may THEN popup ELSE [popup EXCEPT !.at =
                   IF axis THEN TryFlipX(p, popup, output, parent, factor) ELSE TryFlipY(p, popup, output, parent, factor)]
      slid == IF "slide" \notin may THEN flipped ELSE [flipped EXCEPT !.at =
                IF axis THEN TrySlideX(p, flipped, output) ELSE TrySlideY(p, flipped, output)]
  IN IF "resize" \notin may THEN slid
     ELSE IF axis THEN TryResizeX(slid, output) ELSE TryResizeY(slid, output)

\* GetOutputAt: the first output that has the corner of the popup, if any.
Has(output, x, y) ==
  /\ x \in output.x.at .. Last(output.x)
  /\ y \in output.y.at .. Last(output.y)

\* Popups as they were asked for, then adjusted to the output; outputs is a
\* sequence of them, of an extent for each axis.
Unadjusted(p, parent, factor) ==
  [a \in {"x", "y"} |-> [at |-> CalculatePosition(p[a]) * factor + parent[a], length |-> p[a].length * factor]]

ApplyConstraintAdjustment(p, outputs, parent, factor) ==
  LET popup == Unadjusted(p, parent, factor)
      at == {i \in DOMAIN outputs : Has(outputs[i], popup.x.at, popup.y.at)}
      output == outputs[CHOOSE i \in at : \A j \in at : i <= j]
  IN IF at = {} THEN popup
     ELSE [a \in {"x", "y"} |-> Adjusted(p, a, popup[a], output[a], parent[a], factor)]

\* In surface coordinates of the parent.
XLPositionerCalculateGeometry(p, outputs, parent, factor) ==
  LET popup == ApplyConstraintAdjustment(p, outputs, parent, factor)
  IN [a \in {"x", "y"} |-> [at |-> Quotient(popup[a].at - parent[a], factor),
                            length |-> Quotient(popup[a].length, factor)]]

-----------------------------------------------------------------------------
(* Properties, of a positioner p that is complete. *)

\* Both axes: an adjustment that can bring the popup into the output does so,
\* whatever it undoes of the one before it; without any, or where the popup is
\* inside as it was asked for, it stays there.  A popup whose corner is on no
\* output is not adjusted.
Answers(p, outputs, parent, factor) ==
  LET asked == Unadjusted(p, parent, factor)
      got == ApplyConstraintAdjustment(p, outputs, parent, factor)
      on == {i \in DOMAIN outputs : Has(outputs[i], asked.x.at, asked.y.at)}
  IN \A a \in {"x", "y"} :
       /\ on = {} \/ p.adjustments[a] = {} => got[a] = asked[a]
       /\ \A i \in on : on = {i} =>
            LET fits == asked[a].length <= outputs[i][a].length
                inside == Inside(got[a], outputs[i][a]) IN
            /\ Inside(asked[a], outputs[i][a]) => got[a] = asked[a]
            /\ "slide" \in p.adjustments[a] /\ fits => inside
            /\ "resize" \in p.adjustments[a] /\ "slide" \notin p.adjustments[a] => inside
            /\ p.adjustments[a] = {"flip"} => inside \/ got[a] = asked[a]

\* The client is told a place that is where the window is put, to the unit.
Told(p, outputs, parent, factor) ==
  LET put == ApplyConstraintAdjustment(p, outputs, parent, factor)
      told == XLPositionerCalculateGeometry(p, outputs, parent, factor)
  IN \A a \in {"x", "y"} :
       /\ told[a].at * factor - (put[a].at - parent[a]) \in 1 - factor .. factor - 1
       /\ put[a].length - told[a].length * factor \in 0 .. factor - 1

PopupPlaced(p, outputs, parent, factor) ==
  Answers(p, outputs, parent, factor) /\ Told(p, outputs, parent, factor)

\* "Otherwise, resize the popup to fit inside cx, cx1."  A popup longer than
\* the output that was slid before stays as long, past the end of the output.
ResizedToFit(p, outputs, parent, factor) ==
  LET asked == Unadjusted(p, parent, factor)
      got == ApplyConstraintAdjustment(p, outputs, parent, factor)
  IN \A a \in {"x", "y"} : \A i \in DOMAIN outputs :
       Has(outputs[i], asked.x.at, asked.y.at) /\ "resize" \in p.adjustments[a]
         => Inside(got[a], outputs[i][a])

=============================================================================
