------------------------------ MODULE Barriers ------------------------------
(***************************************************************************)
(* The pointer barriers that keep a pointer inside a region                *)
(* (pointer_constraints.c, ComputeBarrier and ApplyLines).  A region is a  *)
(* list of boxes in the banded order of the X server; each box becomes a   *)
(* "line", a rectangle with the set of its sides that are closed.  Where a *)
(* box touches a box of the band above, both are cut so that the shared    *)
(* part of their sides can be opened.  The X server then gets one barrier  *)
(* for each closed side.  Boxes are half open, as pixman's are.            *)
(***************************************************************************)
EXTENDS Integers, SequencesExt

Sides == {"top", "left", "bottom", "right"}

\* Lines already made, the index of the one being worked on, and whether
\* the buffer was large enough so far.
Failed(lines) == [lines |-> lines, idx |-> Len(lines), ok |-> FALSE]

Working(lines, idx) == [lines |-> lines, idx |-> idx, ok |-> TRUE]

\* LineMove with the code around each of its uses: line i becomes two lines
\* that meet at x, open to each other.
Split(lines, i, x) ==
  SubSeq(lines, 1, i - 1)
    \o << [lines[i] EXCEPT !.x2 = x, !.edges = @ \ {"right"}],
          [lines[i] EXCEPT !.x1 = x, !.edges = @ \ {"left"}] >>
    \o SubSeq(lines, i + 1, Len(lines))

Open(lines, i, side) == [lines EXCEPT ![i].edges = @ \ {side}]

\* The lines of the band above line i that end where line i begins: the
\* code walks them from the last one to the first.
FindLastBandEnd(lines, i) ==
  LET above == { j \in 1 .. i - 1 : lines[j].y1 # lines[i].y1 }
  IN  IF above = {} THEN 0 ELSE Max(above)

LastBand(lines, i) ==
  LET last == FindLastBandEnd(lines, i)
  IN  IF last = 0 \/ (last > 0 => lines[last].y2 # lines[i].y1)
      THEN {}
      ELSE { k \in 1 .. last :
               \A m \in k .. last : lines[m].y2 = lines[last].y2 }

Overlap(a, b) == a.x1 < b.x2 /\ a.x2 > b.x1

\* Line i lies entirely under line k: line k is cut at both of its ends.
InsideAbove(lines, k, i, max) ==
  LET cur   == lines[i]
      left  == IF lines[k].x1 # cur.x1 THEN 1 ELSE 0
      right == IF lines[k].x2 # cur.x2 THEN 1 ELSE 0
      a     == IF left = 1 THEN Split(lines, k, cur.x1) ELSE lines
      b     == IF right = 1 THEN Split(a, k + left, cur.x2) ELSE a
  IN  IF left + right > 0 /\ i + left + right > max
      THEN Failed(lines)
      ELSE Working(Open(Open(b, k + left, "bottom"),
                        i + left + right, "top"),
                   i + left + right)

WrongOverlapsLeft(lines, k, i, max) ==
  LET a == Split(lines, k, lines[i].x1)
      b == Split(a, i + 1, lines[k].x2)
  IN  IF i + 2 > max
      THEN Failed(lines)
      ELSE Working(Open(Open(b, k, "bottom"), i + 1, "top"), i + 2)

\* Case A: line k begins and ends to the left of line i; what is left of
\* line i, on its right, overlaps nothing (the walk goes from the right).
OverlapsLeft(lines, k, i, max) ==
  LET a == Split(lines, k, lines[i].x1)
      b == Split(a, i + 1, lines[k].x2)
  IN  IF i + 2 > max
      THEN Failed(lines)
      ELSE Working(Open(Open(b, k + 1, "bottom"), i + 1, "top"), i + 2)

RECURSIVE MaybeCloseTopEdge(_, _)

\* Case B: line k begins and ends to the right of line i.  The rest of line
\* i, on its left, may overlap more lines and is worked on again.
OverlapsRight(lines, k, i, max) ==
  LET a    == Split(lines, k, lines[i].x2)
      b    == Split(a, i + 1, lines[k].x1)
      rest == MaybeCloseTopEdge(
                Working(Open(Open(b, k, "bottom"), i + 2, "top"), i + 1), max)
  IN  IF i + 2 > max
      THEN Failed(lines)
      ELSE [rest EXCEPT !.idx = @ + 1]

\* Case C: line k lies entirely over line i, which is cut at both ends of
\* line k; its left part is worked on again.
InsideBelow(lines, k, i, max) ==
  LET tem   == lines[k]
      right == IF tem.x2 # lines[i].x2 THEN 1 ELSE 0
      a     == Split(lines, i, tem.x1)
      b     == IF right = 1 THEN Split(a, i + 1, tem.x2) ELSE a
      rest  == MaybeCloseTopEdge(
                 Working(Open(Open(b, k, "bottom"), i + 1, "top"), i), max)
      whole == Split(lines, i, tem.x2)
  IN  IF i + 1 > max
      THEN Failed(lines)
      ELSE IF tem.x1 # lines[i].x1
           THEN [rest EXCEPT !.idx = @ + 1 + right]
           ELSE Working(Open(Open(whole, k, "bottom"), i, "top"), i + 1)

MaybeCloseTopEdge(s, max) ==
  LET i        == s.idx
      lines    == [s.lines EXCEPT ![i].edges = @ \cup {"top"}]
      touching == { k \in LastBand(lines, i) : Overlap(lines[k], lines[i]) }
      k        == Max(touching)
  IN  IF touching = {}
      THEN [s EXCEPT !.lines = lines]
      ELSE IF lines[k].x1 <= lines[i].x1 /\ lines[k].x2 >= lines[i].x2
      THEN InsideAbove(lines, k, i, max)
      ELSE IF lines[k].x1 < lines[i].x1
      THEN OverlapsLeft(lines, k, i, max)
      ELSE IF lines[k].x2 > lines[i].x2
      THEN OverlapsRight(lines, k, i, max)
      ELSE InsideBelow(lines, k, i, max)

Line(box, edges) == [x1 |-> box.x1, y1 |-> box.y1,
                     x2 |-> box.x2, y2 |-> box.y2, edges |-> edges]

\* One box.  A box that continues the last line of its band extends it.
AddBox(s, box, max) ==
  LET l     == Len(s.lines)
      lines == IF l > 0 /\ s.lines[l].y1 = box.y1 /\ s.lines[l].x2 = box.x1
               THEN [s.lines EXCEPT ![l].x2 = box.x2]
               ELSE Append(s.lines, Line(box, Sides \ {"top"}))
      done  == IF l = 0
               THEN Working(<<Line(box, Sides)>>, 1)
               ELSE MaybeCloseTopEdge(Working(lines, Len(lines)), max)
  IN  IF ~s.ok THEN s
      ELSE IF done.ok /\ done.idx < max THEN done
      ELSE Failed(done.lines)

ComputeBarrier(boxes) ==
  LET max  == 6 * Len(boxes)
      made == FoldLeft(LAMBDA s, box : AddBox(s, box, max),
                       Working(<<>>, 0), boxes)
      l    == Len(made.lines)
  IN  IF l = 0 THEN made
      ELSE [made EXCEPT !.lines[l].edges = @ \cup {"right"}]

\* The barriers the X server is given for the lines: the pixels along which
\* each one holds the pointer back, from Low to High when it is as long as
\* the screen.
Low  == -32768
High == 32767

Barrier(side, from, to, at) ==
  [side |-> side, from |-> from, to |-> to, at |-> at]

ApplyLines(lines) ==
  IF Len(lines) = 1 /\ lines[1].edges = Sides
  THEN { Barrier("top", Low, High, lines[1].y1),
         Barrier("bottom", Low, High, lines[1].y2 - 1),
         Barrier("left", Low, High, lines[1].x1),
         Barrier("right", Low, High, lines[1].x2 - 1) }
  ELSE UNION { LET line == lines[i]
                   All  == { Barrier("top", line.x1, line.x2 - 1, line.y1),
                             Barrier("bottom", line.x1, line.x2 - 1,
                                     line.y2 - 1),
                             Barrier("left", line.y1, line.y2 - 1, line.x1),
                             Barrier("right", line.y1, line.y2 - 1,
                                     line.x2 - 1) }
               IN  { b \in All : b.side \in line.edges } : i \in DOMAIN lines }
-----------------------------------------------------------------------------
(* What the barriers of a region must do.                                  *)

\* The canonical boxes of a set of pixels, as pixman keeps them: the rows
\* with the same spans that follow each other form a band.
SpansOf(cells, y) ==
  LET xs == { c[1] : c \in { d \in cells : d[2] = y } }
  IN  { span \in { <<a, b>> \in xs \X { x + 1 : x \in xs } : a < b } :
          /\ span[1] .. span[2] - 1 \subseteq xs
          /\ span[1] - 1 \notin xs /\ span[2] \notin xs }

Rectangles(cells, height) ==
  LET Same(y, z) == \A r \in y .. z : SpansOf(cells, r) = SpansOf(cells, y)
      bands == { <<y, z>> \in (0 .. height - 1) \X (0 .. height - 1) :
                   /\ y <= z /\ SpansOf(cells, y) # {} /\ Same(y, z)
                   /\ y > 0 => SpansOf(cells, y - 1) # SpansOf(cells, y)
                   /\ z < height - 1
                        => SpansOf(cells, z + 1) # SpansOf(cells, z) }
      boxes == UNION { { [x1 |-> s[1], y1 |-> band[1],
                          x2 |-> s[2], y2 |-> band[2] + 1] :
                           s \in SpansOf(cells, band[1]) } : band \in bands }
      Before(a, b) == a.y1 < b.y1 \/ (a.y1 = b.y1 /\ a.x1 < b.x1)
  IN  [i \in 1 .. Cardinality(boxes) |->
         CHOOSE b \in boxes :
           Cardinality({ a \in boxes : Before(a, b) }) = i - 1]

Beside(cell, side) ==
  CASE side = "top"    -> <<cell[1], cell[2] - 1>>
    [] side = "bottom" -> <<cell[1], cell[2] + 1>>
    [] side = "left"   -> <<cell[1] - 1, cell[2]>>
    [] OTHER           -> <<cell[1] + 1, cell[2]>>

Blocks(b, cell, side) ==
  LET flat  == side \in {"top", "bottom"}
      along == IF flat THEN cell[1] ELSE cell[2]
      at    == IF flat THEN cell[2] ELSE cell[1]
  IN  b.side = side /\ b.at = at /\ b.from <= along /\ along <= b.to

\* The barriers of any region confine the pointer to exactly the region: a
\* step out of it is blocked at every pixel, a step from one pixel of it to
\* another at none; and no region needs more lines than the buffer holds, so
\* that the failure of ComputeBarrier, which ends the confinement, never
\* happens (pointer_constraints.c, ComputeBarrier, MaybeCloseTopEdge and
\* ApplyLines).
ConfinesExactly(cells, height) ==
  LET made     == ComputeBarrier(Rectangles(cells, height))
      barriers == ApplyLines(made.lines)
  IN  /\ made.ok
      /\ \A cell \in cells, side \in Sides :
           (\E b \in barriers : Blocks(b, cell, side))
             <=> Beside(cell, side) \notin cells
=============================================================================
