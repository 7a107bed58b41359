------------------------------- MODULE MCInput -------------------------------
(***************************************************************************)
(* Components that do not interact, checked in one run: the pointer of a   *)
(* seat, its constraints, popups with grabs and text inputs; and the       *)
(* algorithms that place popups, cut text and draw barriers, on a set of   *)
(* samples.  "active" is the one that takes steps, the others stay in an   *)
(* initial state, so the state spaces add up and do not multiply.          *)
(***************************************************************************)
EXTENDS Integers, Sequences, FiniteSets

VARIABLES
  active,
  pointer, xevents, focusSeat, windows, told, misused, actions,
  constraints, confinements, mouse, locked, surface, hung, changes,
  popups, popupSeat, configures, agreed, popupCount, popupCrash,
  keyboard, infos, inputs, xim, held, forwarded, pressed, count,
  sample

pointerVars == <<pointer, xevents, focusSeat, windows, told, misused, actions>>
constraintVars == <<constraints, confinements, mouse, locked, surface, hung, changes>>
popupVars == <<popups, popupSeat, configures, agreed, popupCount, popupCrash>>
textVars == <<keyboard, infos, inputs, xim, held, forwarded, pressed, count>>

-----------------------------------------------------------------------------
(* The instances. *)

\* Two surfaces of two clients; a click, a gesture or a move of the window.
ClientOfSurface(s) == IF s = "s1" THEN "c1" ELSE "c2"

Mouse ==
  INSTANCE Pointer WITH
    Surfaces <- {"s1", "s2"}, ClientOf <- ClientOfSurface,
    Buttons <- {1, 2}, Gestures <- {"pinch", "swipe"},
    SurfacesVanish <- FALSE, UnmapsHeld <- FALSE, SlowManager <- FALSE, LateRequests <- FALSE,
    SerialsAdvance <- TRUE, MaxInputs <- 3, inputs <- actions

\* A place inside and one outside of the region, a window in two positions.
Locks ==
  INSTANCE PointerConstraints WITH
    Constraints <- {"c1"}, Surfaces <- {"s1", "s2"}, Seats <- {"m"},
    Places <- {1, 2}, Origins <- {3, 9}, Regions <- {{1}}, HasChildren <- {},
    SurfacesDie <- FALSE, MaxChanges <- 3

\* A menu and its submenu.
ParentOf(p) == IF p = "p1" THEN "top" ELSE "p1"

Menus ==
  INSTANCE Popup WITH
    Popups <- {"p1", "p2"}, Parent <- ParentOf, Top <- "top",
    SeatGoes <- FALSE, MaxPresses <- 2, MaxMoves <- 3

\* Two text inputs of one client: two changes of the focus with two commits, or one
\* and a key; one change with a restart of the input method, and a key or two changes
\* of the preedit.
OwnerOfInput(i) == "c1"
Steps(focus, commit, draw, key, im) ==
  [focus |-> focus, commit |-> commit, draw |-> draw, key |-> key, im |-> im]

Texts ==
  INSTANCE TextInput WITH
    Clients <- {"c1", "c2"}, Surfaces <- {"s1", "s2"}, ClientOf <- ClientOfSurface,
    Inputs <- {1, 2}, OwnerOf <- OwnerOfInput, Keys <- {"k"}, OtherKey <- "m",
    Unfiltered <- {"press"}, StartsAgain <- FALSE, TakesBack <- FALSE, ChunkLimit <- 5,
    Budgets <- {Steps(2, 2, 0, 0, 0), Steps(2, 1, 0, 1, 0), Steps(1, 1, 0, 1, 1), Steps(1, 1, 2, 0, 1)}

Positions == INSTANCE Positioner
Grids == INSTANCE Barriers

-----------------------------------------------------------------------------
(* The samples. *)

\* Positioners that are special on one axis, and an output narrower than the
\* largest popup.
Sides == {"start", "middle", "end"}
Axis ==
  [offset : {0, 1}, anchorAt : {0, 2}, anchorLength : {1, 3}, length : {1, 3, 6},
   anchor : Sides, gravity : Sides]
PlainAxis ==
  [offset |-> 0, anchorAt |-> 1, anchorLength |-> 1, length |-> 2,
   anchor |-> "end", gravity |-> "end"]
Adjustments == {[x |-> a, y |-> a] : a \in SUBSET {"flip", "slide", "resize"}}
OutputsOf == <<[x |-> [at |-> -1, length |-> 5], y |-> [at |-> 0, length |-> 5]]>>

PositionSamples ==
  [kind : {"position"},
   positioner : [x : Axis, y : {PlainAxis}, adjustments : Adjustments]
                  \cup [x : {PlainAxis}, y : Axis, adjustments : Adjustments],
   parent : {[x |-> 0, y |-> 1], [x |-> 2, y |-> 0]},
   factor : 1 .. 2]

\* Texts of characters of one and two octets; the octet or character, and the
\* conversion, that is asked for.
TextSamples ==
  [kind : {"text"}, text : UNION {[1 .. k -> 1 .. 2] : k \in 0 .. 4}, n : 0 .. 5,
   by : -1 .. 2, direction : {"forward", "backward"}, factor : 0 .. 2]

\* Preedit areas that begin at the lower right corner of a caret.
ViewSize == [width |-> 7, height |-> 8]
AreaSamples ==
  {[kind |-> "area", caret |-> c,
    area |-> [x |-> c.x + c.width, y |-> c.y + c.height, width |-> w, height |-> h]] :
     c \in {d \in [x : 0 .. 5, y : 0 .. 5, width : 0 .. 1, height : 0 .. 2] :
              d.y + d.height <= ViewSize.height},
     w \in 0 .. 5, h \in 0 .. 5}

\* Every region of two small grids.
RegionSamples ==
  UNION {[kind : {"region"}, height : {size[2]},
          cells : (SUBSET ((0 .. size[1] - 1) \X (0 .. size[2] - 1))) \ {{}}] :
           size \in {<<4, 3>>, <<3, 4>>}}

NoSample == [kind |-> "none"]

-----------------------------------------------------------------------------
(* The specification. *)

InputInit ==
  /\ active \in {"pointer", "constraints", "popups", "text", "samples"}
  /\ Mouse!PointerInit /\ pointer.at = "s1"
  /\ Locks!ConstraintInit /\ (active # "constraints" => surface["s1"].origin = 3)
  /\ Menus!PopupInit
  /\ Texts!TextInit /\ (active # "text" => count = Steps(1, 1, 2, 0, 1))
  /\ sample = NoSample

TakeSample ==
  /\ sample = NoSample
  /\ sample' \in PositionSamples \cup TextSamples \cup AreaSamples \cup RegionSamples

InputNext ==
  /\ UNCHANGED active
  /\ \/ /\ active = "pointer" /\ Mouse!PointerNext
        /\ UNCHANGED <<constraintVars, popupVars, textVars, sample>>
     \/ /\ active = "constraints" /\ Locks!ConstraintNext
        /\ UNCHANGED <<pointerVars, popupVars, textVars, sample>>
     \/ /\ active = "popups" /\ Menus!PopupNext
        /\ UNCHANGED <<pointerVars, constraintVars, textVars, sample>>
     \/ /\ active = "text" /\ Texts!TextNext
        /\ UNCHANGED <<pointerVars, constraintVars, popupVars, sample>>
     \/ /\ active = "samples" /\ TakeSample
        /\ UNCHANGED <<pointerVars, constraintVars, popupVars, textVars>>

InputSpec ==
  InputInit /\ [][InputNext]_<<active, pointerVars, constraintVars, popupVars, textVars, sample>>

-----------------------------------------------------------------------------
(* The properties of the instances: each is about the component that takes *)
(* steps, and says what its module says of it.                             *)

\* The seat, constraints, popups and text inputs have their types.
InputTypeOK ==
  CASE active = "pointer" -> Mouse!PointerTypeOK
    [] active = "constraints" -> Locks!ConstraintTypeOK
    [] active = "popups" -> Menus!PopupTypeOK
    [] active = "text" -> Texts!TextTypeOK
    [] OTHER -> TRUE

\* A client is told of the pointer only in the surface it is in, but that a pointer
\* made there may leave before it enters; the focus is locked exactly while buttons
\* are held, and the cursor is the client's (seat.c).
PointerSound == active = "pointer" => Mouse!PointerSound

\* Constraints, barriers and seats agree across commits, motion, moving windows
\* and whatever goes away (pointer_constraints.c).
ConstraintsSound == active = "constraints" => Locks!ConstraintsSound

\* Grabs of popups are nested, held by a seat that is there, and popups are where
\* their clients agreed to (xdg_popup.c).
PopupsSound == active = "popups" => Menus!PopupsSound

\* Text inputs were told of the focus and of the preedit text, one of a client is
\* enabled, and keys the input method replaced are known (text_input.c).
TextInputsSound == active = "text" => Texts!TextInputsSound

\* A popup that can be brought onto its output by the adjustments it allows is,
\* and its client is told where it is (positioner.c).
PopupPlaced ==
  sample.kind = "position" =>
    Positions!PopupPlaced(sample.positioner, OutputsOf, sample.parent, sample.factor)

\* Positions in a text agree, its chunks are the text, what is deleted for a
\* conversion are characters of it, the server aborts only on conversions that reach
\* its end, and the preedit area stays off the caret (text_input.c).
TextsRight ==
  /\ sample.kind = "text" =>
       /\ Texts!PositionsAgree(sample.text, sample.n)
       /\ sample.n <= Len(sample.text) =>
            /\ Texts!ChunksWhole(sample.text, sample.n)
            /\ Texts!ConversionInside(sample.text, sample.n, sample.by, sample.direction, sample.factor)
  /\ sample.kind = "area" => Texts!AreaFits(sample.area, ViewSize, sample.caret)

\* The barriers of a region confine the pointer to exactly the region
\* (pointer_constraints.c).
ConfinesExactly ==
  sample.kind = "region" => Grids!ConfinesExactly(sample.cells, sample.height)

=============================================================================
