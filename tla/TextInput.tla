------------------------------ MODULE TextInput ------------------------------
(***************************************************************************)
(* The keyboard focus of a seat and its keys (seat.c), and text input by   *)
(* an X input method (text_input.c).  Around them the X server, the input  *)
(* method, and the clients as far as events tell them something.           *)
(*                                                                         *)
(* One seat has the input method; locales, styles but the preedit          *)
(* callbacks, caret styles, modifiers and the surrounding text (see ImText) *)
(* are abstracted.  A key is known                                         *)
(* by its keycode; the input method may make another key of it.            *)
(***************************************************************************)
EXTENDS ImText

CONSTANTS
  Clients, Surfaces, ClientOf(_),
  Inputs, OwnerOf(_),
  Keys, OtherKey,     \* keycodes, and the one the input method makes of them
  Unfiltered,         \* what it may let pass at once: "press", "release"
  StartsAgain,        \* it may start a preedit text without ending the one before
  TakesBack,          \* a client that asked for a rectangle may ask for the one in force
                      \* again before it commits
  Budgets             \* bounds on the steps of each kind, one of which a behaviour starts with

VARIABLES
  keyboard,  \* the keyboard part of the Seat
  infos,     \* focus_surface of the TextInputClientInfo of each client
  inputs,    \* the TextInputs
  xim,       \* current_xim and xim_style
  held,      \* key events the input method thinks about
  forwarded, \* core events put back by it
  pressed,   \* the keys each client takes for pressed
  count      \* steps of each kind that are left

textVars == <<keyboard, infos, inputs, xim, held, forwarded, pressed, count>>

None == "none"
NoBuffer == <<0>>
NoKeys == [k \in Keys |-> None]

NewState == [flags |-> {}, enabled |-> FALSE, rect |-> None]

NoInput ==
  [state |-> "unborn", xic |-> FALSE, buffer |-> NoBuffer, caret |-> 0, pending |-> NewState,
   current |-> NewState, map |-> NoKeys, entered |-> None, shown |-> <<>>, asked |-> None]

Attached(c) == {i \in Inputs : inputs[i].state = "attached" /\ OwnerOf(i) = c}
FocusOf(i) == IF inputs[i].state = "attached" THEN infos[OwnerOf(i)] ELSE None
Bounded(kind) == count[kind] > 0 /\ count' = [count EXCEPT ![kind] = @ - 1]

-----------------------------------------------------------------------------
(* One text input. *)

\* Nothing is sent that is longer than a chunk here; see ImText.
UpdatePreedit(in) ==
  [in EXCEPT !.shown = IF in.buffer = NoBuffer THEN <<>> ELSE Displayed(in.buffer, -1).text]

HandleICDestroyed(in) ==
  IF in.buffer = NoBuffer THEN in ELSE UpdatePreedit([in EXCEPT !.buffer = NoBuffer])

DestroyIC(in) == IF in.xic THEN HandleICDestroyed([in EXCEPT !.xic = FALSE]) ELSE in

InputDoLeave(in) ==
  [DestroyIC(in) EXCEPT !.current = NewState, !.map = NoKeys, !.entered = None]

InputDoEnter(in, s) ==
  UpdatePreedit([in EXCEPT !.entered = s, !.buffer = NoBuffer])

\* creates: XCreateIC succeeds.  Whether an IC exists is all of it here;
\* DoGeometryAllocation asserts that there is a focus surface.
CreateIC(in, focus, creates) ==
  IF xim = None \/ focus = None THEN in ELSE [in EXCEPT !.xic = creates]

-----------------------------------------------------------------------------
(* All text inputs. *)

\* NoticeEnter and NoticeLeave for every client: FocusInCallback, FocusOutCallback.
Refocus(ins, old, new) ==
  [i \in Inputs |->
     LET c == OwnerOf(i)
         left == IF old[c] = None THEN ins[i] ELSE InputDoLeave(ins[i])
     IN IF ins[i].state # "attached" \/ old[c] = new[c] THEN ins[i]
        ELSE IF new[c] = None THEN left ELSE InputDoEnter(left, new[c])]

Noticed(focus) == [c \in Clients |-> IF Attached(c) # {} /\ focus # None /\ ClientOf(focus) = c THEN focus ELSE None]

\* Leaving a surface takes the keys of the client, entering one gives it those pressed.
Pressed(focus) ==
  [c \in Clients |->
     IF focus # None /\ ClientOf(focus) = c THEN keyboard.keys ELSE {}]

\* The client forgets the keys with the surface: wl_keyboard.leave.
SetFocusSurface(focus) ==
  /\ keyboard' = [keyboard EXCEPT !.focus = focus]
  /\ infos' = Noticed(focus)
  /\ inputs' = Refocus(inputs, infos, infos')
  /\ pressed' = Pressed(focus)

\* DispatchFocusIn and DispatchFocusOut
ChangeFocus(focus) ==
  /\ keyboard.live /\ focus # keyboard.focus
  /\ Bounded("focus")
  /\ SetFocusSurface(focus)
  /\ UNCHANGED <<xim, held, forwarded>>

\* ClearFocusSurface, when the surface with the focus is destroyed.
DestroyFocusSurface ==
  /\ keyboard.focus # None
  /\ Bounded("focus")
  /\ SetFocusSurface(None)
  /\ UNCHANGED <<xim, held, forwarded>>

\* NoticeDeviceDisabled: the focus goes first, then HandleSeatDestroyed.
DisableSeat ==
  /\ keyboard.live
  /\ keyboard' = [keyboard EXCEPT !.live = FALSE, !.focus = None]
  /\ infos' = [c \in Clients |-> None]
  /\ inputs' = LET left == Refocus(inputs, infos, infos') IN
               [i \in Inputs |-> IF left[i].state = "attached" THEN [DestroyIC(left[i]) EXCEPT !.state = "detached"]
                                 ELSE left[i]]
  /\ pressed' = Pressed(None)
  /\ UNCHANGED <<xim, held, forwarded, count>>

-----------------------------------------------------------------------------
(* Requests of the clients. *)

\* For an inert seat a resource without data is made, whose requests use it
\* nevertheless; clients do not use it here.  A client that has the focus when
\* it makes its first text input is focused now.
GetTextInput(i) ==
  /\ inputs[i].state = "unborn"
  /\ keyboard.live
  /\ LET c == OwnerOf(i)
         focused == keyboard.focus # None /\ ClientOf(keyboard.focus) = c
         new == [NoInput EXCEPT !.state = "attached"]
     IN /\ infos' = [infos EXCEPT ![c] = IF focused THEN keyboard.focus ELSE @]
        /\ inputs' = [inputs EXCEPT ![i] = IF infos'[c] = None THEN new ELSE InputDoEnter(new, infos'[c])]
  /\ UNCHANGED <<keyboard, xim, held, forwarded, pressed, count>>

\* HandleResourceDestroy: with the last text input the info goes.
Destroy(i) ==
  /\ inputs[i].state \in {"attached", "detached"}
  /\ infos' = IF Attached(OwnerOf(i)) = {i} THEN [infos EXCEPT ![OwnerOf(i)] = None] ELSE infos
  /\ inputs' = [inputs EXCEPT ![i] = [NoInput EXCEPT !.state = "gone"]]
  /\ UNCHANGED <<keyboard, xim, held, forwarded, pressed, count>>

Request(i, in) ==
  /\ inputs[i].state \in {"attached", "detached"}
  /\ in # inputs[i]
  /\ inputs' = [inputs EXCEPT ![i] = in]
  /\ UNCHANGED <<keyboard, infos, xim, held, forwarded, pressed>>

\* The pending flags are clobbered: what was set before is forgotten.
Enable(i, enable) ==
  /\ Request(i, [inputs[i] EXCEPT !.pending.flags = {"enabled"}, !.pending.enabled = enable,
                                  !.asked = None])
  /\ UNCHANGED count

\* A rectangle that is the current one already is not recorded, even where
\* another one is pending.
SetCursorRectangle(i, r) ==
  LET in == inputs[i]
      same == "rect" \in in.current.flags /\ "enabled" \notin in.pending.flags /\ r = in.current.rect
  IN /\ ~TakesBack => ~(same /\ "rect" \in in.pending.flags)
     /\ Request(i, IF same THEN [in EXCEPT !.asked = r]
                   ELSE [in EXCEPT !.pending.flags = @ \cup {"rect"}, !.pending.rect = r, !.asked = r])
     /\ UNCHANGED count

\* The pending state stays for the next commit if this one is not heard.
Ignored(i) ==
  LET in == inputs[i] IN
  \/ FocusOf(i) = None
  \/ /\ "enabled" \in in.pending.flags /\ in.pending.enabled
     /\ \E j \in Attached(OwnerOf(i)) \ {i} : inputs[j].current.enabled

\* The fields without a flag have been filled with what they were.
Applied(in) ==
  LET p == in.pending  c == in.current IN
  IF "enabled" \in p.flags THEN p
  ELSE [c EXCEPT !.flags = @ \cup p.flags,
                 !.rect = IF "rect" \in p.flags THEN p.rect ELSE @]

Commit(i) ==
  LET in == inputs[i]
      after == [in EXCEPT !.current = Applied(in), !.pending.flags = {}]
      enables == "enabled" \in in.pending.flags /\ in.pending.enabled
  IN /\ ~Ignored(i)
     /\ Bounded("commit")
     /\ \E creates \in BOOLEAN :
          Request(i, IF enables /\ ~in.xic THEN CreateIC(after, FocusOf(i), creates) ELSE after)

-----------------------------------------------------------------------------
(* The input method. *)

\* IMDestroyCallback: the connection to it is lost.
IMDestroyed ==
  /\ xim # None /\ xim' = None
  /\ inputs' = [i \in Inputs |-> IF inputs[i].state = "attached" THEN DestroyIC(inputs[i]) ELSE inputs[i]]
  /\ held' = <<>>
  /\ UNCHANGED <<keyboard, infos, forwarded, pressed, count>>

\* The order in which styles are tried, as it is by default (InitInputStyles).
StyleOrder == <<"position", "area", "nothing", "callbacks">>

\* The first of them that the input method supports.
CheckStyles(supported) ==
  LET usable == SelectSeq(StyleOrder, LAMBDA style : style \in supported)
  IN IF usable = <<>> THEN "unstyled" ELSE Head(usable)

\* IMInstantiateCallback and HandleNewIM; understood: the locale is.
NewIM(supported, understood) ==
  /\ Bounded("im")
  /\ xim' = IF understood THEN CheckStyles(supported) ELSE None
  /\ \E creates \in BOOLEAN :
       inputs' = [i \in Inputs |->
         LET in == DestroyIC(inputs[i]) IN
         IF inputs[i].state # "attached" THEN inputs[i]
         ELSE IF understood /\ in.current.enabled /\ FocusOf(i) # None THEN [in EXCEPT !.xic = creates] ELSE in]
  /\ held' = <<>>
  /\ UNCHANGED <<keyboard, infos, forwarded, pressed>>

HasCallbacks(i) == inputs[i].xic /\ xim = "callbacks"

Preedit(i, in) ==
  /\ HasCallbacks(i)
  /\ inputs' = [inputs EXCEPT ![i] = in]
  /\ UNCHANGED <<keyboard, infos, xim, held, forwarded, pressed, count>>

\* A buffer that is there is thrown away.  The client is told by the first draw.
PreeditStart(i) ==
  /\ ~StartsAgain => inputs[i].buffer = NoBuffer
  /\ Preedit(i, [inputs[i] EXCEPT !.buffer = <<>>])

PreeditDone(i) == Preedit(i, UpdatePreedit([inputs[i] EXCEPT !.buffer = NoBuffer]))

\* A deletion that fails ends the change.
PreeditDraw(i, first, length, text) ==
  LET in == inputs[i]
      left == PreeditDeleteChars(in.buffer, first, length)
      drawn == UpdatePreedit([in EXCEPT !.buffer = PreeditInsertChars(left.text, first, text),
                                        !.caret = first + Len(text)])
  IN /\ in.buffer # NoBuffer /\ HasCallbacks(i)
     /\ Bounded("draw")
     /\ inputs' = [inputs EXCEPT ![i] = IF length > 0 /\ ~left.done THEN in ELSE drawn]
     /\ UNCHANGED <<keyboard, infos, xim, held, forwarded, pressed>>

-----------------------------------------------------------------------------
(* Keys. *)

FindEnabledTextInput(c) == {i \in Attached(c) : inputs[i].current.enabled}

\* The keys that are sent in place of others; None in the map and as a keycode
\* stands for 0: the key itself.
InsertKeycode(in, k, used) == [in EXCEPT !.map[k] = used]
RemoveKeysym(in, k) == [in EXCEPT !.map[k] = None]
GetKeycode(in, k) == in.map[k]

\* Releases are not looked up.
LookupString(type, keysym) == IF type = "press" THEN keysym ELSE None

\* The keycode for a keysym, unless it is that of key k anyway.
CalculateKeycodeForEvent(k, keysym) == IF keysym = k THEN None ELSE keysym

\* An event the input method did not want.  The type that is compared with
\* XI_KeyRelease is GenericEvent: the map is neither looked into nor cleared.
FilterInputCallback(k, type) == CalculateKeycodeForEvent(k, LookupString(type, k))

SendKeyboardKey(focus, key, type) ==
  pressed' = [pressed EXCEPT ![ClientOf(focus)] = IF type = "press" THEN @ \cup {key} ELSE @ \ {key}]

HandleRawKey(k, type) ==
  keyboard' = [keyboard EXCEPT !.keys = IF type = "press" THEN @ \cup {k} ELSE @ \ {k}]

SentAs(k, keycode) == IF keycode = None THEN k ELSE keycode

\* The input method still has an event of this key, which it would not overtake.
Awaited(k) ==
  \/ \E i \in DOMAIN held : held[i].key = k
  \/ \E i \in DOMAIN forwarded : forwarded[i].event.key = k

\* HandleRawKey, then DispatchKey for the window with the focus: the event
\* carries it, the translator uses its own.
DispatchKey(k, type) ==
  LET focus == keyboard.focus
      filters == IF focus = None THEN {} ELSE {i \in FindEnabledTextInput(ClientOf(focus)) : inputs[i].xic}
  IN /\ keyboard.live /\ (type = "press") = (k \notin keyboard.keys)
     /\ type = "press" => Bounded("key")
     /\ type = "release" => count' = count
     /\ HandleRawKey(k, type)
     /\ \/ /\ filters # {}
           /\ held' = Append(held, [key |-> k, type |-> type, window |-> focus])
           /\ UNCHANGED pressed
        \/ /\ focus = None
           /\ UNCHANGED <<held, pressed>>
        \/ /\ focus # None
           /\ type \notin Unfiltered \/ Awaited(k) => filters = {}
           /\ SendKeyboardKey(focus, SentAs(k, FilterInputCallback(k, type)), type)
           /\ held' = held
     /\ UNCHANGED <<infos, inputs, xim, forwarded>>

\* The input method takes a press for itself or sends it back, as the key it
\* was or as another one.  It sends every release back as it was.
Decide ==
  /\ held # <<>> /\ held' = Tail(held)
  /\ \/ Head(held).type = "press" /\ forwarded' = forwarded
     \/ \E sym \in {Head(held).key, OtherKey} :
          /\ Head(held).type = "release" => sym = Head(held).key
          /\ forwarded' = Append(forwarded, [event |-> Head(held), keysym |-> sym])
  /\ UNCHANGED <<keyboard, infos, inputs, xim, pressed, count>>

WrongDispatchedKey(in, k, type, keysym) == CalculateKeycodeForEvent(k, LookupString(type, keysym))

\* A release is sent for the key that its press was sent for.
DispatchedKey(in, k, type, keysym) ==
  IF type = "press" THEN CalculateKeycodeForEvent(k, LookupString(type, keysym)) ELSE GetKeycode(in, k)

\* XLSeatDispatchCoreKeyEvent.  The text input knows that surface s has the
\* focus; so does the seat.
XLSeatDispatchCoreKeyEvent(s, k, type) == keyboard.focus = s => SendKeyboardKey(s, k, type)

XLTextInputDispatchCoreEvent ==
  LET e == Head(forwarded)
      k == e.event.key
      type == e.event.type
      s == e.event.window
      chosen == FindEnabledTextInput(ClientOf(s))
      i == CHOOSE j \in chosen : TRUE
      used == DispatchedKey(inputs[i], k, type, e.keysym)
  IN /\ forwarded # <<>> /\ forwarded' = Tail(forwarded)
     /\ IF infos[ClientOf(s)] # s \/ chosen = {} \/ (chosen # {} /\ ~inputs[i].xic)
        THEN UNCHANGED <<inputs, pressed>>
        ELSE /\ XLSeatDispatchCoreKeyEvent(s, SentAs(k, used), type)
             /\ inputs' = [inputs EXCEPT ![i] =
                             IF type = "press" THEN InsertKeycode(@, k, used) ELSE RemoveKeysym(@, k)]
     /\ UNCHANGED <<keyboard, infos, xim, held, count>>

-----------------------------------------------------------------------------
TextInit ==
  /\ keyboard = [live |-> TRUE, focus |-> None, keys |-> {}]
  /\ infos = [c \in Clients |-> None]
  /\ inputs = [i \in Inputs |-> NoInput]
  /\ xim = None /\ held = <<>> /\ forwarded = <<>>
  /\ pressed = [c \in Clients |-> {}]
  /\ count \in Budgets

TextNext ==
  \/ \E s \in Surfaces \cup {None} : ChangeFocus(s)
  \/ DestroyFocusSurface \/ DisableSeat \/ IMDestroyed
  \/ \E supported \in {{"callbacks"}, {"callbacks", "position"}}, understood \in BOOLEAN : NewIM(supported, understood)
  \/ \E i \in Inputs :
       \/ GetTextInput(i) \/ Destroy(i) \/ Commit(i)
       \/ \E enable \in BOOLEAN : Enable(i, enable)
       \/ \E r \in {"here", "there"} : SetCursorRectangle(i, r)
       \/ PreeditStart(i) \/ PreeditDone(i)
       \/ \E first \in 0 .. 1, length \in 0 .. 1, t \in {<<>>, <<2>>} : PreeditDraw(i, first, length, t)
  \/ \E k \in Keys, type \in {"press", "release"} : DispatchKey(k, type)
  \/ Decide \/ XLTextInputDispatchCoreEvent

TextSpec == TextInit /\ [][TextNext]_textVars

-----------------------------------------------------------------------------
(* Properties. *)

TextTypeOK ==
  /\ keyboard.focus \in Surfaces \cup {None} /\ keyboard.keys \subseteq Keys
  /\ \A c \in Clients : infos[c] \in Surfaces \cup {None}
  /\ \A i \in Inputs : /\ inputs[i].state \in {"unborn", "attached", "detached", "gone"}
                       /\ inputs[i].entered \in Surfaces \cup {None}

\* Every text input of a client was told of the surface that has the focus.
FocusTold ==
  \A i \in Inputs :
    LET focus == keyboard.focus IN
    inputs[i].entered = (IF inputs[i].state = "attached" /\ focus # None /\ ClientOf(focus) = OwnerOf(i)
                         THEN focus ELSE None)

\* At most one text input of a client is enabled, and only while it has the
\* focus; an IC is there only for a text input with the focus.
OneEnabled ==
  /\ \A c \in Clients : \A i, j \in FindEnabledTextInput(c) : i = j
  /\ \A i \in Inputs : inputs[i].state = "attached" /\ inputs[i].current.enabled => FocusOf(i) # None
  /\ \A i \in Inputs : inputs[i].xic => FocusOf(i) # None /\ xim # None

\* A client displays the text of the preedit buffer, and none without an IC; if the
\* input method ends a preedit text before it starts the next (StartsAgain).
PreeditTold ==
  \A i \in Inputs :
    /\ inputs[i].buffer # NoBuffer => inputs[i].xic /\ inputs[i].shown = inputs[i].buffer
    /\ inputs[i].buffer = NoBuffer => inputs[i].shown = <<>>

\* Once nothing is pending, the cursor rectangle that is in force, if one is, is the
\* one that was asked for last since the text input was enabled; for clients that do
\* not go back to the rectangle in force before they commit another (TakesBack).
RectangleKept ==
  \A i \in Inputs :
    "rect" \notin inputs[i].pending.flags /\ inputs[i].asked # None
      /\ FocusOf(i) # None /\ "rect" \in inputs[i].current.flags =>
        inputs[i].current.rect = inputs[i].asked

\* A client that was told of the input method's key instead of the one on the
\* keyboard can be told of its release: the text input remembers the key it
\* stands for, until the focus leaves or the text input is destroyed.
RenamedKeyKnown ==
  \A c \in Clients : OtherKey \in pressed[c] =>
    \E i \in Inputs : /\ OwnerOf(i) = c
                      /\ inputs[i].state = "gone" \/ (\E k \in Keys : inputs[i].map[k] = OtherKey)

\* "... so the correct keycode can be looked up upon the next KeyRelease event."
\* Once no key is down and the input method is done, a client takes no key for
\* pressed that was sent in place of another.
RenamedKeyReleased ==
  keyboard.keys = {} /\ held = <<>> /\ forwarded = <<>> /\ xim # None =>
    \A i \in Inputs, k \in Keys : inputs[i].map[k] \notin pressed[OwnerOf(i)]

TextInputsSound == FocusTold /\ OneEnabled /\ PreeditTold /\ RectangleKept /\ RenamedKeyKnown

=============================================================================
