------------------------------- MODULE ImText -------------------------------
(***************************************************************************)
(* The text and geometry computations of text_input.c: positions in UTF-8  *)
(* text, the chunks it is sent in, the preedit buffer, the answer to a     *)
(* string conversion, the place of the preedit area.                       *)
(*                                                                         *)
(* A text is the sequence of the octets that its characters take; directions*)
(* by word and by line are left out.  3998 is ChunkLimit.                  *)
(***************************************************************************)
EXTENDS Integers, Sequences, SequencesExt, FiniteSetsExt

CONSTANT ChunkLimit

Sized(text) == FoldLeft(LAMBDA sum, octets : sum + octets, 0, text)
Offset(text, chars) == Sized(SubSeq(text, 1, chars))

Position(text, chars) == [bytepos |-> Offset(text, chars), charpos |-> chars]
Invalid == [bytepos |-> -1, charpos |-> -1]

\* The character at which a scan from the start first reaches the byte.
Reached(text, byte) ==
  LET scan[n \in Nat] == IF n >= Len(text) \/ Offset(text, n) >= byte THEN n ELSE scan[n + 1]
  IN scan[0]

TextPositionFromBytePosition(text, byte) ==
  LET n == Reached(text, byte) IN
  IF byte < 0 \/ Offset(text, n) # byte THEN Invalid ELSE Position(text, n)

TextPositionFromCharPosition(text, chars) ==
  IF chars > Len(text) THEN Invalid ELSE Position(text, IF chars < 0 THEN 0 ELSE chars)

\* Forwards the end of the text is far enough.  Backwards the number of steps that
\* are left is counted down from below 0, until the start of the text is passed.
MoveCaret(text, caret, by) ==
  IF by < 0 THEN Invalid ELSE Position(text, Min({caret.charpos + by, Len(text)}))

-----------------------------------------------------------------------------
(* Sending text. *)

\* Where a chunk that starts after "start" characters ends; behind the end of
\* the text there is its NUL.
ChunkEnd(text, start) ==
  LET skip(n) == IF n < Len(text) THEN text[n + 1] ELSE 1
      end[n \in Nat] ==
        IF Offset(text, n) + skip(n) - Offset(text, start) >= ChunkLimit \/ n >= Len(text) THEN n
        ELSE end[n + 1]
  IN end[start]

\* CommitString: the chunks, each <<start, end>> in characters.
Chunks(text) ==
  LET from[n \in Nat] ==
        IF n >= Len(text) THEN <<>> ELSE <<<<n, ChunkEnd(text, n)>>>> \o from[ChunkEnd(text, n)]
  IN from[0]

\* PreeditString: each chunk with the cursor in it, which may lie behind its end.
PreeditChunks(text, cursor) ==
  LET at(start) == IF cursor = -1 \/ cursor < Offset(text, start) THEN -1 ELSE cursor - Offset(text, start)
  IN [i \in DOMAIN Chunks(text) |->
        LET c == Chunks(text)[i] IN [text |-> SubSeq(text, c[1] + 1, c[2]), cursor |-> at(c[1])]]

\* What the client displays after "done": each chunk took the place of the last.
Displayed(text, cursor) ==
  IF text = <<>> THEN [text |-> <<>>, cursor |-> -1] ELSE PreeditChunks(text, cursor)[Len(Chunks(text))]

-----------------------------------------------------------------------------
(* The preedit buffer; a failure changes nothing. *)

PreeditDeleteChars(text, first, length) ==
  IF first + length > Len(text) THEN [done |-> FALSE, text |-> text]
  ELSE [done |-> TRUE, text |-> SubSeq(text, 1, first) \o SubSeq(text, first + length + 1, Len(text))]

PreeditInsertChars(text, first, inserted) ==
  IF first > Len(text) THEN text
  ELSE SubSeq(text, 1, first) \o inserted \o SubSeq(text, first + 1, Len(text))

-----------------------------------------------------------------------------
(* StringConversionCallback *)

FindTextSections(text, caret, direction, factor) ==
  LET end == TextPositionFromCharPosition(text,
               IF direction = "forward" THEN caret.charpos + factor ELSE caret.charpos - factor)
  IN IF caret.charpos > end.charpos THEN <<end, caret>> ELSE <<caret, end>>

\* Text that ends within a character cannot be encoded: <<>>.
EncodeIMString(text, start, size) ==
  LET first == Reached(text, start)
      last == Reached(text, start + size)
  IN IF Offset(text, last) # start + size THEN <<>> ELSE SubSeq(text, first + 1, last)

\* outcome: "failure", "text" or "abort"; deleted: octets before and after the cursor.
Conversion(text, cursor, position, direction, factor) ==
  LET caret == MoveCaret(text, cursor, position)
      range == FindTextSections(text, caret, direction, factor)
      start == range[1]  end == range[2]
      answer == EncodeIMString(text, start.bytepos, end.bytepos - start.bytepos + 1)
      failure == [outcome |-> "failure", text |-> <<>>, deleted |-> <<0, 0>>]
  IN IF text = <<>> \/ cursor = Invalid \/ caret = Invalid \/ factor < 1 \/ Invalid \in {start, end}
     THEN failure
     ELSE IF end.bytepos >= Sized(text) THEN [failure EXCEPT !.outcome = "abort"]  \* XLAssert
     ELSE IF answer = <<>> THEN failure
     ELSE [outcome |-> "text", text |-> answer,
           deleted |-> <<Max({0, cursor.bytepos - start.bytepos}), Max({0, end.bytepos - cursor.bytepos})>>]

-----------------------------------------------------------------------------
(* FitRect: r is placed at the lower right corner of the caret; heights are *)
(* unsigned shorts.                                                         *)

FitWidth(r, width) ==
  LET moved == IF r.x + r.width < width THEN r
               ELSE IF r.width > width \div 2 THEN [r EXCEPT !.x = 0]
               ELSE [r EXCEPT !.x = @ - (r.x + r.width - 1 - width)]
  IN IF moved.x + moved.width >= width THEN [moved EXCEPT !.x = 0, !.width = width] ELSE moved

WrongFitHeight(r, height, caret) ==
  IF r.y + r.height < height THEN r ELSE [r EXCEPT !.y = caret.y - r.height]

FitHeight(r, height, caret) ==
  LET flipped == [r EXCEPT !.y = caret.y - r.height]
      above == caret.y
      below == (height - caret.y - caret.height) % 65536
  IN CASE r.y + r.height < height -> r
       [] r.y + r.height >= height /\ flipped.y >= 0 /\ flipped.y + flipped.height < height -> flipped
       [] OTHER -> IF above > below THEN [r EXCEPT !.y = 0, !.height = above]
                   ELSE [r EXCEPT !.y = caret.y + caret.height, !.height = below]

FitRect(r, view, caret) ==
  LET fitted == FitHeight(FitWidth(r, view.width), view.height, caret)
  IN IF fitted.width <= 0 \/ fitted.height <= 0 THEN r ELSE fitted

-----------------------------------------------------------------------------
(* Properties of every text and rectangle. *)

\* A position found from a byte or from a character is the one that has both.
PositionsAgree(text, n) ==
  /\ n \in 0 .. Len(text) => /\ TextPositionFromCharPosition(text, n) = Position(text, n)
                             /\ TextPositionFromBytePosition(text, Offset(text, n)) = Position(text, n)
  /\ (\A m \in 0 .. Len(text) : Offset(text, m) # n) => TextPositionFromBytePosition(text, n) = Invalid

\* The chunks are the text, each is shorter than the limit, and the chunk that
\* has the cursor is sent with it.
ChunksWhole(text, n) ==
  LET sent == PreeditChunks(text, Offset(text, n)) IN
  /\ FlattenSeq([i \in DOMAIN sent |-> sent[i].text]) = text
  /\ \A i \in DOMAIN sent : sent[i].text # <<>> /\ Sized(sent[i].text) < ChunkLimit
  /\ n \in 0 .. Len(text) - 1 =>
       \E i \in DOMAIN sent : LET c == Chunks(text)[i] IN
         n \in c[1] .. c[2] /\ sent[i].cursor = Offset(text, n) - Offset(text, c[1])

\* What is asked for reaches the end of the text.
ReachesEnd(text, n, by, direction, factor) ==
  n + by + (IF direction = "forward" THEN factor ELSE 0) >= Len(text)

\* What is deleted for a conversion lies in the text and cuts no character in two; and
\* the assertion that what is asked for lies before the end of the text fails only
\* where it does not.
ConversionInside(text, n, by, direction, factor) ==
  LET c == Conversion(text, Position(text, n), by, direction, factor)
      at == Offset(text, n)
      ends == {Offset(text, k) : k \in 0 .. Len(text)}
  IN /\ c.outcome = "text" => at - c.deleted[1] \in ends /\ at + c.deleted[2] \in ends
     /\ c.outcome = "abort" => ReachesEnd(text, n, by, direction, factor)

\* The preedit area is inside the view, and off the caret, if the caret is inside.
AreaFits(r, view, caret) ==
  LET f == FitRect(r, view, caret) IN
  f # r => /\ f.x >= 0 /\ f.x + f.width <= view.width
           /\ f.y >= 0 /\ f.y + f.height <= view.height
           /\ f.y + f.height <= caret.y \/ f.y >= caret.y + caret.height

\* "Otherwise, move the rectangle leftwards until it fits."
KeepsItsWidth(r, view) ==
  r.width <= view.width \div 2 => FitWidth(r, view.width).width = r.width

\* "Verify that some assumptions hold."  Where the end of the text is asked for, they
\* do not.
NeverAborts(text, n, by, direction, factor) ==
  Conversion(text, Position(text, n), by, direction, factor).outcome # "abort"

\* "Move the buffer and text position backwards."
MovesBackwards(text, n, by) ==
  by < 0 /\ n + by >= 0 => MoveCaret(text, Position(text, n), by) = Position(text, n + by)

\* "Also tell the client to delete the extracted part of the buffer."
DeletesWhatItReturns(text, n, by, direction, factor) ==
  LET c == Conversion(text, Position(text, n), by, direction, factor) IN
  c.outcome = "text" => c.deleted[1] + c.deleted[2] = Sized(c.text)

=============================================================================
