---------------------------- MODULE DrawingProofs ----------------------------
(***************************************************************************)
(* Proofs about what the subcompositor draws with, for every set of parts  *)
(* of a window and every set of list nodes: the back buffers of a window   *)
(* and the damage it remembers (BackBuffers), and the list operations that *)
(* keep every node on exactly one ring (Rings).                            *)
(*                                                                         *)
(* The operators of BackBuffers take and return the whole state, so the    *)
(* invariant is one of records: TargetOK of a render target, StateOK of a  *)
(* state.  Each lemma says of one operator that it preserves them, in the  *)
(* order in which the operators are built from each other.                 *)
(***************************************************************************)
EXTENDS BackBuffers, Rings, TLAPS

TargetInv(t) == t \in TargetType /\ TargetOK(t)

StateType == [views : ViewsType, prior : PriorType, target : TargetType, screen : ScreenType]

StateOK(s) == s \in StateType /\ TargetOK(s.target)

-----------------------------------------------------------------------------

LEMMA Choices ==
  ASSUME NEW ch \in StepChoices
  PROVE  ch.flip \in BOOLEAN /\ ch.age \in Ages
BY FlipsAssumption, FreshAgesAssumption DEF StepChoices

LEMMA CreateOK ==
  ASSUME NEW age \in Ages
  PROVE  CreateBackBuffer(age) \in BackBuffer /\ BufferOK(CreateBackBuffer(age))
<1>1. CreateBackBuffer(age) \in BackBuffer
  BY DEF CreateBackBuffer, BackBuffer
<1>2. LET b == CreateBackBuffer(age)
      IN  b.fence = "reset" /\ ~b.busy /\ ~b.sync /\ ~b.serial
  BY DEF CreateBackBuffer
<1> QED BY <1>1, <1>2 DEF BufferOK

LEMMA NoBufferOK == NoBuffer \in BackBuffer /\ ~NoBuffer.exists
<1>1. CreateBackBuffer(0) \in BackBuffer
  BY CreateOK DEF Ages, MaxAge
<1> QED BY <1>1 DEF NoBuffer, BackBuffer

LEMMA FreeOK ==
  ASSUME NEW t, TargetInv(t)
  PROVE  TargetInv(FreeBackBuffers(t))
<1>1. FreeBackBuffers(t) \in TargetType
  BY NoBufferOK DEF TargetInv, TargetType, FreeBackBuffers
<1>2. /\ FreeBackBuffers(t).current = -1
      /\ \A i \in Slots : ~FreeBackBuffers(t).buffers[i].exists
  BY NoBufferOK DEF TargetInv, TargetType, FreeBackBuffers
<1>3. TargetOK(FreeBackBuffers(t))
  BY <1>2 DEF TargetOK, Slots
<1> QED BY <1>1, <1>3 DEF TargetInv

\* Awaiting makes a buffer that is not busy safe to draw to.
LEMMA AwaitOK ==
  ASSUME NEW b \in BackBuffer, BufferOK(b), b.exists, ~b.busy
  PROVE  LET a == MaybeAwaitBuffer(b)
         IN  a \in BackBuffer /\ BufferOK(a) /\ a.exists /\ a.fence = "reset"
<1> DEFINE a == [b EXCEPT !.sync = FALSE, !.serial = FALSE, !.fence = "reset"]
<1>1. CASE b.sync
  <2>1. a \in BackBuffer /\ a.busy = b.busy /\ a.exists = b.exists
        /\ a.sync = FALSE /\ a.serial = FALSE /\ a.fence = "reset"
    BY DEF BackBuffer
  <2> HIDE DEF a
  <2>2. BufferOK(a)
    BY <2>1 DEF BufferOK
  <2> QED BY <1>1, <2>1, <2>2 DEF MaybeAwaitBuffer, a
<1>2. CASE ~b.sync
  BY <1>2 DEF MaybeAwaitBuffer, BufferOK
<1> QED BY <1>1, <1>2

LEMMA PickOK ==
  ASSUME NEW t, TargetInv(t)
  PROVE  /\ PickSlot(t) \in Slots
         /\ t.buffers[PickSlot(t)].exists => ~t.buffers[PickSlot(t)].busy
BY DEF TargetInv, TargetOK, TargetType, PickSlot, Slots, BufferOK

LEMMA EnsureOK ==
  ASSUME NEW t, TargetInv(t), NEW age \in Ages
  PROVE  TargetInv(EnsurePicture(t, age)) /\ EnsurePicture(t, age).current \in Slots
<1>1. CASE t.current # -1
  BY <1>1 DEF EnsurePicture, TargetInv, TargetType, Slots
<1>2. CASE t.current = -1
  <2> DEFINE i == PickSlot(t)
             b == IF t.buffers[i].exists THEN t.buffers[i] ELSE CreateBackBuffer(age)
             a == MaybeAwaitBuffer(b)
             e == [t EXCEPT !.buffers[i] = a, !.current = i,
                            !.just_presented = @ /\ t.buffers[i].exists]
  <2>1. i \in Slots /\ (t.buffers[i].exists => ~t.buffers[i].busy)
    BY PickOK
  <2>2. t.buffers[i] \in BackBuffer
    BY <2>1 DEF TargetInv, TargetType
  <2>3. b \in BackBuffer /\ BufferOK(b) /\ b.exists /\ ~b.busy
    <3>1. CASE t.buffers[i].exists
      BY <2>1, <2>2, <3>1 DEF TargetInv, TargetOK
    <3>2. CASE ~t.buffers[i].exists
      BY ZenonT(30), <3>2, CreateOK DEF CreateBackBuffer
    <3> QED BY <3>1, <3>2
  <2>4. a \in BackBuffer /\ BufferOK(a) /\ a.exists /\ a.fence = "reset"
    <3> HIDE DEF b
    <3> QED BY <2>3, AwaitOK
  <2>5. EnsurePicture(t, age) = e
    BY <1>2 DEF EnsurePicture
  <2>6. t.buffers[i].exists \in BOOLEAN
    BY <2>2 DEF BackBuffer
  <2> HIDE DEF i, a
  <2>7. /\ e \in TargetType
        /\ e.current = i
        /\ e.buffers[i] = a
        /\ \A j \in Slots \ {i} : e.buffers[j] = t.buffers[j]
    BY <2>1, <2>4, <2>6 DEF TargetInv, TargetType, Slots
  <2> HIDE DEF e
  <2>8. TargetOK(e)
    BY <1>2, <2>1, <2>4, <2>7 DEF TargetInv, TargetOK, BufferOK, Slots
  <2> QED BY <2>1, <2>5, <2>7, <2>8 DEF TargetInv
<1> QED BY <1>1, <1>2

\* Drawing makes parts of the current buffer current.
LEMMA DrawOK ==
  ASSUME NEW t, TargetInv(t), NEW region, NEW age \in Ages
  PROVE  LET d == Draw(t, region, age)
         IN  /\ TargetInv(d)
             /\ d.current \in Slots
             /\ d.buffers[d.current].stale \subseteq Parts \ region
<1> DEFINE e == EnsurePicture(t, age)
           d == [e EXCEPT !.buffers[e.current].stale = @ \ region]
<1>1. TargetInv(e) /\ e.current \in Slots
  BY EnsureOK
<1>2. Draw(t, region, age) = d
  BY DEF Draw
<1> HIDE DEF e
<1>3. e.buffers[e.current] \in BackBuffer
  BY <1>1 DEF TargetInv, TargetOK, TargetType, Slots
<1>4. /\ d \in TargetType
      /\ d.current = e.current
      /\ d.buffers[e.current] = [e.buffers[e.current] EXCEPT !.stale = @ \ region]
      /\ \A i \in Slots \ {e.current} : d.buffers[i] = e.buffers[i]
  BY <1>1, <1>3 DEF TargetInv, TargetType, BackBuffer
<1> HIDE DEF d
<1>5. d.buffers[e.current].stale \subseteq Parts \ region
  BY <1>3, <1>4 DEF BackBuffer
<1>6. \A i \in Slots :
        LET b == e.buffers[i]
            n == d.buffers[i]
        IN  /\ n.exists = b.exists /\ n.busy = b.busy /\ n.sync = b.sync
            /\ n.serial = b.serial /\ n.event = b.event /\ n.fence = b.fence
  BY <1>3, <1>4 DEF BackBuffer
<1>7. TargetOK(d)
  <2>1. \A i \in Slots : BufferOK(e.buffers[i]) => BufferOK(d.buffers[i])
    BY <1>6 DEF BufferOK
  <2> QED BY <1>1, <1>4, <1>6, <2>1 DEF TargetInv, TargetOK
<1> QED BY <1>1, <1>2, <1>4, <1>5, <1>7 DEF TargetInv

LEMMA AgeOtherOK ==
  ASSUME NEW b \in BackBuffer, b.exists => BufferOK(b) /\ b.fence # "reset"
  PROVE  LET a == AgeOther(b)
         IN  /\ a \in BackBuffer
             /\ a.exists => BufferOK(a) /\ ~a.busy /\ a.fence # "reset"
<1> DEFINE age == IF b.age \in 1 .. MaxAge - 1 THEN b.age + 1 ELSE b.age
           a == [b EXCEPT !.sync = TRUE, !.busy = FALSE, !.age = age]
<1>1. CASE b.exists
  <2>1. age \in Ages
    BY DEF BackBuffer, Ages, MaxAge
  <2> HIDE DEF age
  <2>2. a \in BackBuffer /\ a.busy = FALSE /\ a.sync = TRUE /\ a.serial = b.serial
        /\ a.event = b.event /\ a.fence = b.fence
    BY <2>1 DEF BackBuffer
  <2>3. AgeOther(b) = a
    BY <1>1 DEF AgeOther, age
  <2> HIDE DEF a
  <2>4. BufferOK(a)
    BY <1>1, <2>2 DEF BufferOK
  <2> QED BY <1>1, <2>2, <2>3, <2>4
<1>2. CASE ~b.exists
  BY <1>2 DEF AgeOther
<1> QED BY <1>1, <1>2

LEMMA SwapOK ==
  ASSUME NEW t, TargetInv(t), t.current \in Slots
  PROVE  TargetInv(SwapBackBuffers(t))
<1> DEFINE c == t.current
           u == SwapBackBuffers(t)
           new == [t.buffers[c] EXCEPT !.busy = TRUE, !.serial = TRUE, !.age = 1,
                                       !.fence = "held",
                                       !.event = FALSE]
<1>1. t.buffers[c] \in BackBuffer
  BY DEF TargetInv, TargetOK, TargetType, Slots
<1>2. new \in BackBuffer /\ BufferOK(new) /\ new.exists /\ new.fence # "reset"
  <2>1. 1 \in Ages
    BY DEF Ages, MaxAge
  <2>2. /\ new \in BackBuffer /\ new.exists = t.buffers[c].exists
        /\ new.busy = TRUE /\ new.event = FALSE /\ new.fence = "held"
    BY <1>1, <2>1 DEF BackBuffer
  <2>3. t.buffers[c].exists
    BY DEF TargetInv, TargetOK
  <2> HIDE DEF new
  <2> QED BY <2>2, <2>3 DEF BufferOK
<1>3. \A i \in Slots \ {c} :
        LET a == AgeOther(t.buffers[i])
        IN  /\ a \in BackBuffer
            /\ a.exists => BufferOK(a) /\ ~a.busy /\ a.fence # "reset"
  BY AgeOtherOK DEF TargetInv, TargetOK, TargetType
<1>4. /\ u.current = -1
      /\ u.just_presented = t.just_presented
      /\ u.buffers = [i \in Slots |-> IF i = c THEN new ELSE AgeOther(t.buffers[i])]
      /\ DOMAIN u = DOMAIN t
  BY ZenonT(30) DEF SwapBackBuffers, TargetInv, TargetType
<1>5. u.buffers \in [Slots -> BackBuffer]
  <2> HIDE DEF new, u
  <2> QED BY <1>2, <1>3, <1>4
<1>6. u \in TargetType
  BY ZenonT(30), <1>5 DEF SwapBackBuffers, TargetInv, TargetType
<1> HIDE DEF u, new
<1>7. u.buffers[c] = new /\ \A i \in Slots \ {c} : u.buffers[i] = AgeOther(t.buffers[i])
  BY <1>4
<1>8. TargetOK(u)
  BY <1>2, <1>3, <1>4, <1>7 DEF TargetOK, Slots
<1> QED BY <1>6, <1>8 DEF TargetInv, u

-----------------------------------------------------------------------------
(* The subcompositor. *)

LEMMA ShowType ==
  ASSUME NEW s \in StateType, NEW stale \in SUBSET Parts, NEW region \in SUBSET Parts,
         NEW ch \in StepChoices
  PROVE  /\ Show(s, stale, region, ch) \in StateType
         /\ Show(s, stale, region, ch).target = s.target
         /\ Show(s, stale, region, ch).views = s.views
         /\ Show(s, stale, region, ch).prior = s.prior
BY Choices DEF StateType, ScreenType, Show

LEMMA PresentOK ==
  ASSUME NEW s, StateOK(s), NEW region \in SUBSET Parts, NEW ch \in StepChoices
  PROVE  StateOK(PresentToWindow(s, region, ch))
<1> DEFINE shown == Show(s, {}, region, ch)
           freed == FreeBackBuffers(s.target)
           t == [freed EXCEPT !.just_presented = TRUE]
<1>1. shown \in StateType /\ shown.target = s.target
  BY ShowType DEF StateOK
<1>2. TargetInv(freed)
  BY FreeOK DEF StateOK, StateType, TargetInv
<1> HIDE DEF shown, freed
<1>3. /\ t \in TargetType
      /\ t.buffers = freed.buffers
      /\ t.current = freed.current
  BY <1>2 DEF TargetInv, TargetType
<1> HIDE DEF t
<1>4. TargetOK(t)
  BY <1>2, <1>3 DEF TargetInv, TargetOK
<1>5. PresentToWindow(s, region, ch) = [shown EXCEPT !.target = t]
  BY <1>1 DEF PresentToWindow, shown, t, freed, StateType
<1> QED BY <1>1, <1>3, <1>4, <1>5 DEF StateOK, StateType

LEMMA FinishOK ==
  ASSUME NEW s, StateOK(s), s.target.current \in Slots, NEW region \in SUBSET Parts,
         NEW ch \in StepChoices
  PROVE  StateOK(FinishRender(s, region, ch))
<1> DEFINE t == SwapBackBuffers(s.target)
           swapped == [s EXCEPT !.target = t]
           stale == s.target.buffers[s.target.current].stale
<1>1. CASE region \cap s.views.covered = {}
  BY <1>1 DEF FinishRender
<1>2. CASE region \cap s.views.covered # {}
  <2>1. TargetInv(t)
    BY SwapOK DEF StateOK, StateType, TargetInv
  <2> HIDE DEF t
  <2>2. swapped \in StateType /\ swapped.target = t
    BY <2>1 DEF TargetInv, StateOK, StateType
  <2>3. stale \in SUBSET Parts
    BY DEF StateOK, StateType, TargetType, BackBuffer
  <2>4. FinishRender(s, region, ch) = Show(swapped, stale, region, ch)
    BY <1>2 DEF FinishRender, t
  <2> HIDE DEF swapped, stale
  <2> QED BY <2>1, <2>2, <2>3, <2>4, ShowType DEF StateOK, TargetInv
<1> QED BY <1>1, <1>2

\* The state between drawing and finishing.
LEMMA DrawnOK ==
  ASSUME NEW s, StateOK(s), NEW region \in SUBSET Parts, NEW ch \in StepChoices
  PROVE  LET d == [s EXCEPT !.target = Draw(@, region, ch.age)]
         IN  /\ StateOK(d)
             /\ d.target.current \in Slots
             /\ d.target.buffers[d.target.current].stale \subseteq Parts \ region
             /\ d.views = s.views /\ d.screen = s.screen
<1> DEFINE t == Draw(s.target, region, ch.age)
<1>1. /\ TargetInv(t) /\ t.current \in Slots
      /\ t.buffers[t.current].stale \subseteq Parts \ region
  BY Choices, DrawOK DEF StateOK, StateType, TargetInv
<1> HIDE DEF t
<1>2. LET d == [s EXCEPT !.target = t]
      IN  /\ d \in StateType /\ d.target = t
          /\ d.views = s.views /\ d.screen = s.screen
  BY <1>1 DEF TargetInv, StateOK, StateType
<1> QED BY <1>1, <1>2 DEF StateOK, TargetInv, t

LEMMA ClearDamageOK ==
  ASSUME NEW s, StateOK(s)
  PROVE  StateOK(ClearDamage(s)) /\ StateOK(ClearAdditional(s))
BY DEF StateOK, StateType, ViewsType, ClearDamage, ClearAdditional

LEMMA CompositeOK ==
  ASSUME NEW s, StateOK(s), NEW region \in SUBSET Parts, NEW ch \in StepChoices
  PROVE  StateOK(Composite1(s, region, ch))
<1>1. CASE CanPresent(s)
  BY <1>1, PresentOK, ClearDamageOK DEF Composite1
<1>2. CASE ~CanPresent(s)
  <2> DEFINE d == [s EXCEPT !.target = Draw(@, region, ch.age)]
  <2>1. StateOK(d) /\ d.target.current \in Slots
    BY DrawnOK
  <2>2. Composite1(s, region, ch) = ClearDamage(FinishRender(d, region, ch))
    BY <1>2 DEF Composite1
  <2> HIDE DEF d
  <2> QED BY <2>1, <2>2, FinishOK, ClearDamageOK
<1> QED BY <1>1, <1>2

LEMMA RedrawOK ==
  ASSUME NEW s, StateOK(s), NEW ch \in StepChoices
  PROVE  StateOK(SubcompositorRedraw(s, ch))
BY CompositeOK, ClearDamageOK DEF SubcompositorRedraw

LEMMA StoreOK ==
  ASSUME NEW s, StateOK(s), NEW region \in SUBSET Parts
  PROVE  StateOK(StorePreviousDamage(s, region))
<1> DEFINE p == [stored |-> IF s.prior.stored = 2 THEN 2 ELSE s.prior.stored + 1,
                 last |-> region, before |-> s.prior.last]
<1>1. p \in PriorType
  BY DEF StateOK, StateType, PriorType
<1>2. StorePreviousDamage(s, region) = [s EXCEPT !.prior = p]
  BY DEF StorePreviousDamage, StateOK, StateType
<1> HIDE DEF p
<1> QED BY <1>1, <1>2 DEF StateOK, StateType

LEMMA UpdateOK ==
  ASSUME NEW s, StateOK(s), NEW ch \in StepChoices
  PROVE  StateOK(SubcompositorUpdate(s, ch))
<1>1. StateOK(SubcompositorComposite(s, ch))
  <2> DEFINE age == TargetAge(s.target)
             damage == s.views.damage \cup s.views.additional
             stored == StorePreviousDamage(s, damage)
             region == damage \cup PriorDamage(s, age)
  <2>1. damage \in SUBSET Parts /\ region \in SUBSET Parts
    BY DEF StateOK, StateType, ViewsType, PriorType, PriorDamage
  <2>2. StateOK(stored)
    BY <2>1, StoreOK
  <2>3. \/ SubcompositorComposite(s, ch) = s
        \/ SubcompositorComposite(s, ch) = SubcompositorRedraw(s, ch)
        \/ SubcompositorComposite(s, ch) = SubcompositorRedraw(stored, ch)
        \/ SubcompositorComposite(s, ch) = ClearAdditional(Composite1(stored, region, ch))
    BY DEF SubcompositorComposite
  <2> HIDE DEF stored, region
  <2>4. StateOK(SubcompositorRedraw(s, ch)) /\ StateOK(SubcompositorRedraw(stored, ch))
    BY <2>2, RedrawOK
  <2>5. StateOK(ClearAdditional(Composite1(stored, region, ch)))
    BY <2>1, <2>2, CompositeOK, ClearDamageOK
  <2> QED BY <2>3, <2>4, <2>5
<1>2. CASE s.views.garbaged \/ s.views.resized
  <2> DEFINE n == NoteTargetSize(s)
             r == SubcompositorRedraw(n, ch)
  <2>1. StateOK(n)
    <3> DEFINE f == FreeBackBuffers(s.target)
    <3>1. TargetInv(f)
      BY FreeOK DEF StateOK, StateType, TargetInv
    <3>2. n = IF s.views.resized THEN [s EXCEPT !.target = f] ELSE s
      BY DEF NoteTargetSize
    <3> HIDE DEF f, n
    <3>3. StateOK([s EXCEPT !.target = f])
      BY <3>1 DEF StateOK, StateType, TargetInv
    <3> QED BY <3>2, <3>3
  <2>2. StateOK(r)
    <3> HIDE DEF n
    <3> QED BY <2>1, RedrawOK
  <2>3. SubcompositorUpdate(s, ch) =
          [r EXCEPT !.views.garbaged = FALSE, !.views.resized = FALSE]
    BY <1>2 DEF SubcompositorUpdate
  <2> HIDE DEF r
  <2>4. StateOK([r EXCEPT !.views.garbaged = FALSE, !.views.resized = FALSE])
    BY <2>2 DEF StateOK, StateType, ViewsType
  <2> QED BY <2>3, <2>4
<1> QED BY <1>1, <1>2 DEF SubcompositorUpdate

\* New contents leave flags and fences alone.
LEMMA OutdateOK ==
  ASSUME NEW s, StateOK(s), NEW region \in SUBSET Parts
  PROVE  /\ StateOK(Outdate(s, region))
         /\ Outdate(s, region).views = s.views
         /\ Outdate(s, region).prior = s.prior
         /\ Outdate(s, region).screen = [s.screen EXCEPT !.stale = @ \cup region]
<1> DEFINE buffers == [i \in Slots |-> OutdateBuffer(s.target.buffers[i], region)]
           t == [s.target EXCEPT !.buffers = buffers]
           o == [s EXCEPT !.screen.stale = @ \cup region, !.target = t]
<1>1. \A i \in Slots : s.target.buffers[i] \in BackBuffer
  BY DEF StateOK, StateType, TargetType
<1>2. buffers \in [Slots -> BackBuffer]
  BY <1>1 DEF BackBuffer, OutdateBuffer
<1>3. \A i \in Slots :
        LET b == s.target.buffers[i]
            n == buffers[i]
        IN  /\ n.exists = b.exists /\ n.busy = b.busy /\ n.sync = b.sync
            /\ n.serial = b.serial /\ n.event = b.event /\ n.fence = b.fence
  BY <1>1 DEF BackBuffer, OutdateBuffer
<1>4. Outdate(s, region) = o
  BY DEF Outdate, StateOK, StateType, TargetType
<1> HIDE DEF buffers
<1>5. t \in TargetType /\ t.buffers = buffers /\ t.current = s.target.current
  BY <1>2 DEF StateOK, StateType, TargetType
<1> HIDE DEF t
<1>6. TargetOK(t)
  <2>1. \A i \in Slots : BufferOK(s.target.buffers[i]) => BufferOK(buffers[i])
    BY <1>3 DEF BufferOK
  <2> QED BY <1>3, <1>5, <2>1 DEF StateOK, TargetOK
<1> DEFINE c == [s.screen EXCEPT !.stale = @ \cup region]
<1>7. c \in ScreenType
  BY DEF StateOK, StateType, ScreenType
<1>8. o = [s EXCEPT !.screen = c, !.target = t]
  BY DEF StateOK, StateType, ScreenType
<1> HIDE DEF o
<1>9. /\ o \in StateType /\ o.target = t
      /\ o.views = s.views /\ o.prior = s.prior /\ o.screen = c
  <2> HIDE DEF c
  <2> QED BY <1>5, <1>7, <1>8 DEF StateOK, StateType
<1> QED BY <1>4, <1>6, <1>9 DEF StateOK

-----------------------------------------------------------------------------
(* The invariant. *)

Inv == StateOK(State)

LEMMA SetStateOK ==
  ASSUME NEW s, StateOK(s), SetState(s)
  PROVE  Inv'
<1>1. State' = s
  BY DEF SetState, State, StateOK, StateType
<1> QED BY <1>1 DEF Inv, State

LEMMA InitOK == BuffersInit => Inv
<1> SUFFICES ASSUME BuffersInit PROVE Inv
  OBVIOUS
<1>1. target \in TargetType /\ target.current = -1
      /\ \A i \in Slots : ~target.buffers[i].exists
  BY NoBufferOK DEF BuffersInit, InitTarget, TargetType
<1>2. TargetOK(target)
  BY <1>1 DEF TargetOK, Slots
<1>3. State \in StateType
  BY <1>1 DEF BuffersInit, InitViews, State, StateType, ViewsType, PriorType, ScreenType
<1> QED BY <1>2, <1>3 DEF Inv, StateOK, State

LEMMA StepOK == Inv /\ [BuffersNext]_bufferVars => Inv'
<1> SUFFICES ASSUME Inv, [BuffersNext]_bufferVars PROVE Inv'
  OBVIOUS
<1> USE DEF Inv
<1>0. /\ views \in ViewsType /\ prior \in PriorType /\ target \in TargetType
      /\ screen \in ScreenType /\ State.views = views /\ State.screen = screen
      /\ State.target = target /\ State.prior = prior
      /\ TargetOK(target)
  BY DEF StateOK, StateType, State
<1>1. CASE Damage
  <2>1. PICK region \in SUBSET views.covered, presentable \in BOOLEAN :
          SetState([Outdate(State, region) EXCEPT
                      !.views.damage = @ \cup region, !.views.presentable = presentable])
    BY ZenonT(30), <1>1 DEF Damage
  <2>2. region \in SUBSET Parts
    BY <1>0 DEF ViewsType
  <2> DEFINE o == Outdate(State, region)
             n == [o EXCEPT !.views.damage = @ \cup region,
                            !.views.presentable = presentable]
  <2>3. StateOK(o)
    BY <2>2, OutdateOK
  <2> HIDE DEF o
  <2>4. StateOK(n)
    BY <2>2, <2>3 DEF StateOK, StateType, ViewsType
  <2>5. SetState(n)
    BY <2>1 DEF o
  <2> HIDE DEF n
  <2> QED BY <2>4, <2>5, SetStateOK
<1>2. CASE Uncover
  <2>1. PICK region \in SUBSET views.covered :
          SetState([Outdate(State, region) EXCEPT
                      !.views.covered = @ \ region, !.views.additional = @ \cup region])
    BY ZenonT(30), <1>2 DEF Uncover
  <2>2. region \in SUBSET Parts
    BY <1>0 DEF ViewsType
  <2> DEFINE o == Outdate(State, region)
             n == [o EXCEPT !.views.covered = @ \ region,
                            !.views.additional = @ \cup region]
  <2>3. StateOK(o)
    BY <2>2, OutdateOK
  <2> HIDE DEF o
  <2>4. StateOK(n)
    BY <2>2, <2>3 DEF StateOK, StateType, ViewsType
  <2>5. SetState(n)
    BY <2>1 DEF o
  <2> HIDE DEF n
  <2> QED BY <2>4, <2>5, SetStateOK
<1>3. CASE Cover
  <2>1. PICK region \in SUBSET (Parts \ views.covered) :
          SetState([Outdate(State, region) EXCEPT
                      !.views.covered = @ \cup region, !.views.damage = @ \cup region])
    BY ZenonT(30), <1>3 DEF Cover
  <2> DEFINE o == Outdate(State, region)
             n == [o EXCEPT !.views.covered = @ \cup region,
                            !.views.damage = @ \cup region]
  <2>2. region \in SUBSET Parts
    OBVIOUS
  <2>3. StateOK(o)
    BY <2>2, OutdateOK
  <2> HIDE DEF o
  <2>4. StateOK(n)
    BY <2>2, <2>3 DEF StateOK, StateType, ViewsType
  <2>5. SetState(n)
    BY <2>1 DEF o
  <2> HIDE DEF n
  <2> QED BY <2>4, <2>5, SetStateOK
<1>4. CASE Garbage
  <2> DEFINE n == [State EXCEPT !.views.garbaged = TRUE]
  <2>1. StateOK(n)
    BY DEF StateOK, StateType, ViewsType
  <2>2. SetState(n)
    BY <1>4 DEF Garbage
  <2> HIDE DEF n
  <2> QED BY <2>1, <2>2, SetStateOK
<1>5. CASE Resize
  <2> DEFINE o == Outdate(State, Parts)
             n == [o EXCEPT !.views.resized = TRUE]
  <2>1. StateOK(o)
    BY OutdateOK
  <2> HIDE DEF o
  <2>2. StateOK(n)
    BY <2>1 DEF StateOK, StateType, ViewsType
  <2>3. SetState(n)
    BY <1>5 DEF Resize, o
  <2> HIDE DEF n
  <2> QED BY <2>2, <2>3, SetStateOK
<1>6. CASE Update
  BY <1>6, UpdateOK, SetStateOK DEF Update
<1>7. CASE LoseContents
  <2>1. screen' \in ScreenType /\ UNCHANGED <<views, prior, target>>
    BY <1>0, <1>7 DEF LoseContents, ScreenType
  <2> QED BY <1>0, <2>1 DEF StateOK, StateType, State
<1>8. CASE SubcompositorExpose
  <2>1. PICK region \in SUBSET screen.exposed, ch \in StepChoices :
          SetState([Composite1(State, region, ch) EXCEPT !.screen.exposed = @ \ region])
    BY <1>8 DEF SubcompositorExpose
  <2>2. region \in SUBSET Parts
    BY <1>0 DEF ScreenType
  <2> DEFINE c == Composite1(State, region, ch)
             n == [c EXCEPT !.screen.exposed = @ \ region]
  <2>3. StateOK(c)
    BY <2>2, CompositeOK
  <2> HIDE DEF c
  <2>4. StateOK(n)
    BY <2>3 DEF StateOK, StateType, ScreenType
  <2>5. SetState(n)
    BY <2>1 DEF c
  <2> HIDE DEF n
  <2> QED BY <2>4, <2>5, SetStateOK
<1>9. CASE TriggerFence
  <2>1. PICK i \in Slots :
          /\ target.buffers[i].exists
          /\ target.buffers[i].fence = "held"
          /\ target' = [target EXCEPT !.buffers[i].fence = "triggered",
                                      !.buffers[i].event = TRUE]
          /\ UNCHANGED <<views, prior, screen>>
    BY ZenonT(30), <1>9 DEF TriggerFence
  <2> DEFINE b == target.buffers[i]
             n == [b EXCEPT !.fence = "triggered", !.event = TRUE]
  <2>2. b \in BackBuffer
    BY <1>0 DEF TargetType
  <2>3. /\ n \in BackBuffer /\ n.exists = b.exists /\ n.busy = b.busy
        /\ n.sync = b.sync /\ n.serial = b.serial /\ n.fence = "triggered"
    BY <2>2 DEF BackBuffer
  <2>4. target' = [target EXCEPT !.buffers[i] = n]
    BY <2>1, Zenon
  <2>5. /\ target' \in TargetType /\ target'.current = target.current
        /\ target'.buffers[i] = n
        /\ \A j \in Slots \ {i} : target'.buffers[j] = target.buffers[j]
    BY <1>0, <2>3, <2>4 DEF TargetType
  <2> HIDE DEF n
  <2>6. TargetOK(target')
    BY <1>0, <2>1, <2>3, <2>5 DEF TargetOK, BufferOK
  <2> QED BY <1>0, <2>1, <2>5, <2>6 DEF StateOK, StateType, State
<1>10. CASE HandlePresentIdleNotify
  <2>1. PICK i \in Slots :
          /\ target.buffers[i].exists
          /\ target.buffers[i].event
          /\ target' = [target EXCEPT !.buffers[i] = NoteIdle(@)]
          /\ UNCHANGED <<views, prior, screen>>
    BY <1>10 DEF HandlePresentIdleNotify
  <2> DEFINE b == target.buffers[i]
             n == NoteIdle(b)
  <2>2. b \in BackBuffer /\ BufferOK(b)
    BY <1>0, <2>1 DEF TargetType, TargetOK
  <2>3. /\ n \in BackBuffer /\ n.exists = b.exists /\ n.fence = b.fence
        /\ n.event = FALSE
        /\ \/ n.busy = b.busy /\ n.sync = b.sync /\ n.serial = b.serial
           \/ b.serial /\ n.busy = FALSE /\ n.sync = TRUE /\ n.serial = FALSE
    BY <2>2 DEF NoteIdle, BackBuffer
  <2>4. target' = [target EXCEPT !.buffers[i] = n]
    BY <2>1
  <2>5. /\ target' \in TargetType /\ target'.current = target.current
        /\ target'.buffers[i] = n
        /\ \A j \in Slots \ {i} : target'.buffers[j] = target.buffers[j]
    BY <1>0, <2>3, <2>4 DEF TargetType
  <2> HIDE DEF n
  <2>6. BufferOK(n) /\ (n.busy => b.busy)
    BY <2>2, <2>3 DEF BufferOK
  <2>7. TargetOK(target')
    <3>1. \A j \in Slots : target'.buffers[j].exists => BufferOK(target'.buffers[j])
      BY <1>0, <2>5, <2>6 DEF TargetOK
    <3>2. \A j \in Slots : /\ target'.buffers[j].exists = target.buffers[j].exists
                           /\ target'.buffers[j].fence = target.buffers[j].fence
                           /\ target'.buffers[j].busy => target.buffers[j].busy
      BY <2>3, <2>5, <2>6
    <3> QED BY <1>0, <2>5, <3>1, <3>2 DEF TargetOK
  <2> QED BY <1>0, <2>1, <2>5, <2>7 DEF StateOK, StateType, State
<1>11. CASE UNCHANGED bufferVars
  BY <1>11 DEF bufferVars, State
<1> QED BY <1>1, <1>2, <1>3, <1>4, <1>5, <1>6, <1>7, <1>8, <1>9, <1>10, <1>11 DEF BuffersNext

\* The two facts of StateOK about the variables of the module.
THEOREM BackBuffersInv == BuffersSpec => []Inv
BY InitOK, StepOK, PTL DEF BuffersSpec

LEMMA InvTarget ==
  ASSUME Inv
  PROVE  BuffersTypeOK /\ TargetInv(target)
BY DEF Inv, StateOK, StateType, State, BuffersTypeOK, TargetInv

\* The types hold for every set of parts; in particular the age of a buffer
\* and the number of regions in the damage ring stay within their bounds.
THEOREM TypeCorrect == BuffersSpec => []BuffersTypeOK
<1>1. Inv => BuffersTypeOK
  BY InvTarget
<1> QED BY <1>1, BackBuffersInv, PTL

\* Flags, serials and fences of both buffers agree after every operation of
\* the render target and every event of the server.
THEOREM TargetConsistent == BuffersSpec => []ConsistentTarget
<1>1. Inv => ConsistentTarget
  BY InvTarget DEF TargetInv, ConsistentTarget
<1> QED BY <1>1, BackBuffersInv, PTL

\* EnsurePicture never fails its assertion: it picks a buffer that is not busy.
THEOREM PickNotBusy == BuffersSpec => []PickedNotBusy
<1>1. Inv => PickedNotBusy
  BY InvTarget, PickOK DEF PickedNotBusy
<1> QED BY <1>1, BackBuffersInv, PTL

\* MaybeAwaitBuffer never waits for a fence that nobody will trigger.
THEOREM FencesTrigger == BuffersSpec => []FenceWillTrigger
<1>1. Inv => FenceWillTrigger
  BY InvTarget DEF TargetInv, TargetOK, BufferOK, FenceWillTrigger
<1> QED BY <1>1, BackBuffersInv, PTL

\* A buffer that can be drawn to without waiting is not read by the server.
THEOREM DrawnNotRead == BuffersSpec => []NotReadWhenDrawn
<1>1. Inv => NotReadWhenDrawn
  BY InvTarget DEF TargetInv, TargetOK, BufferOK, NotReadWhenDrawn
<1> QED BY <1>1, BackBuffersInv, PTL

-----------------------------------------------------------------------------
(* WindowCurrent, with a server that copies: the damage that is drawn is also *)
(* the region that is presented, so what the rest of the back buffer holds    *)
(* does not matter.                                                           *)

Recorded(s) ==
  \/ s.views.garbaged \/ s.views.resized
  \/ s.screen.stale \subseteq s.views.damage \cup s.views.additional

CopyInv(s) ==
  /\ StateOK(s)
  /\ s.views.covered = Parts
  /\ s.screen.exposed = {}
  /\ Recorded(s)

\* A copying presentation makes exactly the region current that was drawn.
LEMMA ShowCopy ==
  ASSUME NEW s \in StateType, NEW stale, NEW region, stale \cap region = {},
         NEW ch, ~ch.flip
  PROVE  Show(s, stale, region, ch).screen.stale = s.screen.stale \ region
BY DEF Show, StateType, ScreenType

LEMMA ShowRest ==
  ASSUME NEW s \in StateType, NEW stale, NEW region, NEW ch
  PROVE  LET r == Show(s, stale, region, ch)
         IN  /\ r.views = s.views
             /\ r.screen.exposed = s.screen.exposed
BY DEF Show, StateType, ScreenType

\* What becomes of s when region is drawn and copied to the window.
Copied(s, region, c) ==
  /\ c.views = [s.views EXCEPT !.damage = {}]
  /\ c.screen.stale = s.screen.stale \ region
  /\ c.screen.exposed = s.screen.exposed

LEMMA CompositeCopy ==
  ASSUME NEW s, StateOK(s), s.views.covered = Parts,
         NEW region \in SUBSET Parts, region # {},
         NEW ch \in StepChoices, ~ch.flip
  PROVE  Copied(s, region, Composite1(s, region, ch))
<1>0. s \in StateType
  BY DEF StateOK
<1>1. \A r : r \in StateType =>
        /\ ClearDamage(r).views = [r.views EXCEPT !.damage = {}]
        /\ ClearDamage(r).screen = r.screen
  BY DEF ClearDamage, StateType, ViewsType
<1>2. CASE CanPresent(s)
  <2> DEFINE p == PresentToWindow(s, region, ch)
             shown == Show(s, {}, region, ch)
  <2>1. /\ shown.views = s.views
        /\ shown.screen.stale = s.screen.stale \ region
        /\ shown.screen.exposed = s.screen.exposed
    BY <1>0, ShowCopy, ShowRest
  <2>2. shown \in StateType
    BY <1>0, ShowType
  <2>3. p.views = shown.views /\ p.screen = shown.screen
    <3> HIDE DEF shown
    <3>1. p = [shown EXCEPT !.target = [FreeBackBuffers(@) EXCEPT !.just_presented = TRUE]]
      BY DEF PresentToWindow, shown
    <3> HIDE DEF p
    <3> QED BY <2>2, <3>1 DEF StateType
  <2>4. p \in StateType
    BY PresentOK DEF StateOK
  <2>5. Composite1(s, region, ch) = ClearDamage(p)
    BY <1>2 DEF Composite1
  <2> HIDE DEF p, shown
  <2> QED BY <1>1, <2>1, <2>3, <2>4, <2>5 DEF Copied
<1>3. CASE ~CanPresent(s)
  <2> DEFINE d == [s EXCEPT !.target = Draw(@, region, ch.age)]
             f == FinishRender(d, region, ch)
             stale == d.target.buffers[d.target.current].stale
             swapped == [d EXCEPT !.target = SwapBackBuffers(@)]
  <2>1. /\ StateOK(d) /\ d.target.current \in Slots
        /\ stale \subseteq Parts \ region
        /\ d.views = s.views /\ d.screen = s.screen
    BY DrawnOK
  <2> HIDE DEF d
  <2>2. f \in StateType
    BY <2>1, FinishOK DEF StateOK
  <2>3. f = Show(swapped, stale, region, ch)
    BY <2>1 DEF FinishRender
  <2>4. TargetInv(SwapBackBuffers(d.target))
    BY <2>1, SwapOK DEF StateOK, StateType, TargetInv
  <2>5. swapped \in StateType /\ swapped.views = d.views /\ swapped.screen = d.screen
    <3> DEFINE t == SwapBackBuffers(d.target)
    <3>1. swapped = [d EXCEPT !.target = t]
      OBVIOUS
    <3> HIDE DEF t, swapped
    <3>2. t \in TargetType
      BY <2>4 DEF TargetInv, t
    <3> QED BY <2>1, <3>1, <3>2 DEF StateOK, StateType
  <2> HIDE DEF stale, swapped
  <2>6. stale \cap region = {}
    BY <2>1
  <2>7. /\ f.views = s.views
        /\ f.screen.stale = s.screen.stale \ region
        /\ f.screen.exposed = s.screen.exposed
    <3>1. /\ f.views = swapped.views
          /\ f.screen.exposed = swapped.screen.exposed
      BY <2>3, <2>5, ShowRest
    <3>2. f.screen.stale = swapped.screen.stale \ region
      BY <2>3, <2>5, <2>6, ShowCopy
    <3> HIDE DEF f
    <3> QED BY <2>1, <2>5, <3>1, <3>2
  <2>8. Composite1(s, region, ch) = ClearDamage(f)
    BY <1>3 DEF Composite1, d
  <2> HIDE DEF f
  <2> QED BY <1>1, <2>2, <2>7, <2>8 DEF Copied
<1> QED BY <1>2, <1>3

\* After an update that drew all damage, everything the window shows is current.
LEMMA CleanCopy ==
  ASSUME NEW s, CopyInv(s), NEW region \in SUBSET Parts, region # {},
         s.screen.stale \subseteq region, NEW ch \in StepChoices, ~ch.flip
  PROVE  LET r == ClearAdditional(Composite1(s, region, ch))
         IN  /\ r.views.covered = Parts
             /\ r.screen.exposed = {}
             /\ r.screen.stale = {}
<1> DEFINE c == Composite1(s, region, ch)
<1>1. /\ c.views = [s.views EXCEPT !.damage = {}]
      /\ c.screen.stale = s.screen.stale \ region
      /\ c.screen.exposed = s.screen.exposed
  <2>1. StateOK(s) /\ s.views.covered = Parts
    BY DEF CopyInv
  <2>2. Copied(s, region, c)
    BY <2>1, CompositeCopy
  <2> QED BY <2>2 DEF Copied
<1>2. c \in StateType /\ s \in StateType
  BY CompositeOK DEF StateOK, CopyInv
<1> HIDE DEF c
<1>3. ClearAdditional(c).views = [c.views EXCEPT !.additional = {}]
      /\ ClearAdditional(c).screen = c.screen
  BY <1>2 DEF ClearAdditional, StateType
<1>4. c.views.covered = Parts
  BY <1>1, <1>2 DEF CopyInv, StateType, ViewsType
<1>5. [c.views EXCEPT !.additional = {}].covered = Parts
  BY <1>2, <1>4 DEF StateType, ViewsType
<1> QED BY <1>1, <1>3, <1>5 DEF CopyInv, c

Clean(r) == r.views.covered = Parts /\ r.screen.exposed = {} /\ r.screen.stale = {}

LEMMA RedrawCopy ==
  ASSUME NEW s, CopyInv(s), NEW ch \in StepChoices, ~ch.flip
  PROVE  Clean(SubcompositorRedraw(s, ch))
<1>1. s.screen.stale \subseteq Parts
  BY DEF CopyInv, StateOK, StateType, ScreenType
<1> QED BY <1>1, PartsAssumption, CleanCopy DEF SubcompositorRedraw, Clean

LEMMA UpdateCopy ==
  ASSUME NEW s, CopyInv(s), NEW ch \in StepChoices, ~ch.flip
  PROVE  CopyInv(SubcompositorUpdate(s, ch))
<1> DEFINE u == SubcompositorUpdate(s, ch)
<1>0. StateOK(s) /\ StateOK(u)
  BY UpdateOK DEF CopyInv
<1>1. CASE s.views.garbaged \/ s.views.resized
  <2> DEFINE n == NoteTargetSize(s)
             r == SubcompositorRedraw(n, ch)
  <2>1. TargetInv(FreeBackBuffers(s.target))
    BY <1>0, FreeOK DEF StateOK, StateType, TargetInv
  <2>2. CopyInv(n)
    <3> DEFINE f == FreeBackBuffers(s.target)
               e == [s EXCEPT !.target = f]
    <3>1. n = IF s.views.resized THEN e ELSE s
      BY DEF NoteTargetSize
    <3> HIDE DEF f, n
    <3>2. e \in StateType /\ e.target = f /\ e.views = s.views /\ e.screen = s.screen
      BY <1>0, <2>1 DEF StateOK, StateType, TargetInv, f
    <3> HIDE DEF e
    <3>3. CopyInv(e)
      BY <2>1, <3>2 DEF CopyInv, StateOK, TargetInv, Recorded, f
    <3> QED BY <3>1, <3>3
  <2> HIDE DEF n
  <2>3. Clean(r)
    BY <2>2, RedrawCopy
  <2>4. r \in StateType
    BY <2>2, RedrawOK DEF CopyInv, StateOK
  <2>5. u = [r EXCEPT !.views.garbaged = FALSE, !.views.resized = FALSE]
    BY <1>1 DEF SubcompositorUpdate, n
  <2> HIDE DEF r
  <2> DEFINE v == [r EXCEPT !.views.garbaged = FALSE, !.views.resized = FALSE]
  <2>6. v.screen = r.screen /\ v.views.covered = r.views.covered
    BY <2>4 DEF StateType, ViewsType
  <2> HIDE DEF v, u
  <2>7. u = v
    BY <2>5 DEF v
  <2>8. CopyInv(u)
    BY <1>0, <2>3, <2>6, <2>7 DEF CopyInv, Clean, Recorded
  <2> QED BY <2>8 DEF u
<1>2. CASE ~(s.views.garbaged \/ s.views.resized)
  <2> DEFINE age == TargetAge(s.target)
             damage == s.views.damage \cup s.views.additional
             stored == StorePreviousDamage(s, damage)
             region == damage \cup PriorDamage(s, age)
             last == ClearAdditional(Composite1(stored, region, ch))
  <2>1. damage \in SUBSET Parts /\ region \in SUBSET Parts
    BY <1>0 DEF StateOK, StateType, ViewsType, PriorType, PriorDamage
  <2>2. s.screen.stale \subseteq damage
    BY <1>2 DEF CopyInv, Recorded
  <2>3. stored.views = s.views /\ stored.screen = s.screen
    BY <1>0 DEF StorePreviousDamage, StateOK, StateType
  <2>4. CopyInv(stored)
    <3>1. StateOK(stored)
      BY <1>0, <2>1, StoreOK
    <3> HIDE DEF stored
    <3> QED BY <2>3, <3>1 DEF CopyInv, Recorded
  <2>5. u = SubcompositorComposite(s, ch)
    BY <1>2 DEF SubcompositorUpdate
  <2>6. \/ u = s
        \/ u = SubcompositorRedraw(s, ch)
        \/ u = SubcompositorRedraw(stored, ch)
        \/ damage # {} /\ u = last
    BY <2>5 DEF SubcompositorComposite
  <2>7. Clean(SubcompositorRedraw(s, ch)) /\ Clean(SubcompositorRedraw(stored, ch))
    <3> HIDE DEF stored
    <3> QED BY <2>4, RedrawCopy
  <2>8. damage # {} => Clean(last)
    <3>1. stored.screen.stale \subseteq region
      BY <2>2, <2>3
    <3>2. damage # {} => region # {}
      OBVIOUS
    <3> HIDE DEF stored, region, damage
    <3> QED BY <2>1, <2>4, <3>1, <3>2, CleanCopy DEF Clean
  <2>9. Clean(u) => CopyInv(u)
    <3> HIDE DEF u
    <3> QED BY <1>0 DEF CopyInv, Clean, Recorded
  <2> HIDE DEF last, stored, damage, u
  <2>10. CopyInv(u)
    BY <2>6, <2>7, <2>8, <2>9
  <2> QED BY <2>10 DEF u
<1> QED BY <1>1, <1>2

LEMMA InitCopy == BuffersInit => CopyInv(State)
<1> SUFFICES ASSUME BuffersInit PROVE CopyInv(State)
  OBVIOUS
<1>1. StateOK(State)
  BY InitOK DEF Inv
<1> QED BY <1>1 DEF BuffersInit, InitViews, State, CopyInv, Recorded

LEMMA SetStateCopy ==
  ASSUME NEW s, CopyInv(s), SetState(s)
  PROVE  CopyInv(State)'
<1>1. State' = s
  BY DEF SetState, State, CopyInv, StateOK, StateType
<1> QED BY <1>1

\* What a new state records: the invariant when views, damage and the screen
\* become stale in the same region.
LEMMA StepCopy ==
  ASSUME Flips = {FALSE}, ~Uncovering, ~Exposures, CopyInv(State), [BuffersNext]_bufferVars
  PROVE  CopyInv(State)'
<1>0. /\ views \in ViewsType /\ screen \in ScreenType /\ State.views = views
      /\ State.screen = screen /\ State.target = target /\ State.prior = prior
      /\ views.covered = Parts /\ screen.exposed = {} /\ Inv
  BY DEF StateOK, StateType, State, CopyInv, Inv
<1>00. Inv'
  BY <1>0, StepOK
<1>1. CASE Damage
  <2>1. PICK region \in SUBSET views.covered, presentable \in BOOLEAN :
          SetState([Outdate(State, region) EXCEPT
                      !.views.damage = @ \cup region, !.views.presentable = presentable])
    BY ZenonT(30), <1>1 DEF Damage
  <2> DEFINE o == Outdate(State, region)
             v == [views EXCEPT !.damage = @ \cup region, !.presentable = presentable]
  <2>2. /\ o.views = views /\ o \in StateType
        /\ o.screen = [screen EXCEPT !.stale = @ \cup region]
    BY <1>0, OutdateOK DEF Inv, StateOK
  <2>3. views' = v /\ screen' = o.screen
    <3> HIDE DEF o
    <3> QED BY <1>0, <2>1, <2>2 DEF SetState, StateType, ViewsType, o
  <2>4. /\ views'.covered = Parts /\ screen'.exposed = {}
        /\ views'.garbaged = views.garbaged /\ views'.resized = views.resized
        /\ views'.damage = views.damage \cup region
        /\ views'.additional = views.additional
        /\ screen'.stale = screen.stale \cup region
    BY <1>0, <2>2, <2>3 DEF ViewsType, ScreenType
  <2> QED BY <1>0, <1>00, <2>4 DEF CopyInv, Recorded, Inv, State
<1>4. CASE Garbage
  <2>1. views' = [views EXCEPT !.garbaged = TRUE] /\ screen' = screen
    BY <1>0, <1>4 DEF Garbage, SetState, State
  <2>2. views'.covered = Parts /\ views'.garbaged
    BY <1>0, <2>1 DEF ViewsType
  <2> QED BY <1>0, <1>00, <2>1, <2>2 DEF CopyInv, Recorded, Inv, State
<1>5. CASE Resize
  <2> DEFINE o == Outdate(State, Parts)
  <2>1. SetState([o EXCEPT !.views.resized = TRUE])
    BY <1>5 DEF Resize
  <2>2. /\ o.views = views /\ o \in StateType
        /\ o.screen = [screen EXCEPT !.stale = @ \cup Parts]
    BY <1>0, OutdateOK DEF Inv, StateOK
  <2>3. views' = [views EXCEPT !.resized = TRUE] /\ screen' = o.screen
    <3> HIDE DEF o
    <3> QED BY <1>0, <2>1, <2>2 DEF SetState, StateType, ViewsType, o
  <2>4. views'.covered = Parts /\ views'.resized /\ screen'.exposed = {}
    BY <1>0, <2>2, <2>3 DEF ViewsType, ScreenType
  <2> QED BY <1>0, <1>00, <2>4 DEF CopyInv, Recorded, Inv, State
<1>6. CASE Update
  <2>1. PICK ch \in StepChoices : SetState(SubcompositorUpdate(State, ch))
    BY <1>6 DEF Update
  <2>2. ~ch.flip
    BY DEF StepChoices
  <2> QED BY <2>1, <2>2, UpdateCopy, SetStateCopy
<1>9. CASE TriggerFence \/ HandlePresentIdleNotify \/ UNCHANGED bufferVars
  <2>1. UNCHANGED <<views, screen>>
    BY ZenonT(30), <1>9 DEF TriggerFence, HandlePresentIdleNotify, bufferVars
  <2> QED BY <1>0, <1>00, <2>1 DEF CopyInv, Recorded, Inv, State
<1>10. ~Uncover /\ ~Cover /\ ~LoseContents /\ ~SubcompositorExpose
  BY ZenonT(30), <1>0 DEF Uncover, Cover, LoseContents, SubcompositorExpose
<1> QED BY <1>1, <1>4, <1>5, <1>6, <1>9, <1>10 DEF BuffersNext

\* With a server that copies presented pixmaps, and as long as views keep
\* covering the window and its contents are not lost, damage is never forgotten:
\* what the window does not show yet is recorded.  (The runs of BackBuffers
\* show that none of the three assumptions can be dropped.)
THEOREM CopyKeepsCurrent ==
  ASSUME Flips = {FALSE}, ~Uncovering, ~Exposures
  PROVE  BuffersSpec => []WindowCurrent
<1>1. CopyInv(State) => WindowCurrent
  BY DEF CopyInv, Recorded, State, WindowCurrent
<1>2. CopyInv(State) /\ [BuffersNext]_bufferVars => CopyInv(State)'
  BY StepCopy
<1> QED BY <1>1, <1>2, InitCopy, PTL DEF BuffersSpec

-----------------------------------------------------------------------------
(* The lists of subcompositor.c.                                           *)

\* A new heap is linked: every node is a list of its own (ListInit).
THEOREM ListInitLinked ==
  ASSUME NEW nodes
  PROVE  Linked(ListInit(nodes), nodes)
BY DEF Linked, ListInit

\* What is put behind a node must be a whole ring, and dest must not be its
\* end: ListRelinkAfter checks neither, its callers have to see to it.
THEOREM ListRelinkAfterLinked ==
  ASSUME NEW nodes, NEW h, Linked(h, nodes),
         NEW start \in nodes, NEW end \in nodes, NEW dest \in nodes,
         h.next[end] = start, dest # end
  PROVE  Linked(ListRelinkAfter(h, start, end, dest), nodes)
<1> DEFINE g == ListRelinkAfter(h, start, end, dest)
           after == h.next[dest]
<1>1. /\ after \in nodes /\ h.last[start] = end /\ h.last[after] = dest
      /\ after # start
  BY DEF Linked
<1>2. /\ g.next = [h.next EXCEPT ![end] = after, ![dest] = start]
      /\ g.last = [h.last EXCEPT ![start] = dest, ![after] = end]
  BY DEF ListRelinkAfter
<1>3. g.next \in [nodes -> nodes] /\ g.last \in [nodes -> nodes]
  <2>1. g.next \in [nodes -> nodes]
    BY SMTT(30), <1>1, <1>2 DEF Linked
  <2>2. g.last \in [nodes -> nodes]
    BY SMTT(30), <1>1, <1>2 DEF Linked
  <2> QED BY <2>1, <2>2
<1>4. ASSUME NEW n \in nodes
      PROVE  g.next[g.last[n]] = n /\ g.last[g.next[n]] = n
  <2>1. /\ g.next[end] = after /\ g.next[dest] = start
        /\ g.last[start] = dest /\ g.last[after] = end
    BY <1>1, <1>2 DEF Linked
  <2>2. g.next[g.last[n]] = n
    <3>1. CASE n = start \/ n = after
      BY <3>1, <2>1
    <3>2. CASE n # start /\ n # after
      <4>1. g.last[n] = h.last[n] /\ h.last[n] # end /\ h.last[n] # dest
        BY <3>2, <1>1, <1>2 DEF Linked
      <4> QED BY <4>1, <1>2 DEF Linked
    <3> QED BY <3>1, <3>2
  <2>3. g.last[g.next[n]] = n
    <3>1. CASE n = end \/ n = dest
      BY <3>1, <2>1
    <3>2. CASE n # end /\ n # dest
      <4>1. g.next[n] = h.next[n] /\ h.next[n] # start /\ h.next[n] # after
        BY <3>2, <1>1, <1>2 DEF Linked
      <4> QED BY <4>1, <1>1, <1>2 DEF Linked
    <3> QED BY <3>1, <3>2
  <2> QED BY <2>2, <2>3
<1> HIDE DEF g
<1> QED BY <1>3, <1>4 DEF Linked, g

\* ListUnlink keeps a heap linked whatever start and end are, and leaves end
\* before start: what it took out can be put elsewhere by ListRelinkAfter.
THEOREM ListUnlinkLinked ==
  ASSUME NEW nodes, NEW h, Linked(h, nodes),
         NEW start \in nodes, NEW end \in nodes
  PROVE  /\ Linked(ListUnlink(h, start, end), nodes)
         /\ ListUnlink(h, start, end).next[end] = start
<1> DEFINE g == ListUnlink(h, start, end)
           before == h.last[start]
           after == h.next[end]
<1>1. /\ before \in nodes /\ after \in nodes
      /\ h.next[before] = start /\ h.last[after] = end
  BY DEF Linked
<1>2. /\ g.next = [h.next EXCEPT ![before] = after, ![end] = start]
      /\ g.last = [h.last EXCEPT ![after] = before, ![start] = end]
  BY DEF ListUnlink
<1>3. g.next \in [nodes -> nodes] /\ g.last \in [nodes -> nodes]
  BY SMTT(30), <1>1, <1>2 DEF Linked
<1>4. ASSUME NEW n \in nodes
      PROVE  g.next[g.last[n]] = n /\ g.last[g.next[n]] = n
  <2>1. g.next[g.last[n]] = n
    <3>1. CASE n = start
      BY <3>1, <1>1, <1>2 DEF Linked
    <3>2. CASE n # start /\ n = after
      BY <3>2, <1>1, <1>2 DEF Linked
    <3>3. CASE n # start /\ n # after
      <4>1. g.last[n] = h.last[n] /\ h.last[n] # before /\ h.last[n] # end
        BY <3>3, <1>1, <1>2 DEF Linked
      <4> QED BY <4>1, <1>2 DEF Linked
    <3> QED BY <3>1, <3>2, <3>3
  <2>2. g.last[g.next[n]] = n
    <3>1. CASE n = end
      BY <3>1, <1>1, <1>2 DEF Linked
    <3>2. CASE n # end /\ n = before
      BY <3>2, <1>1, <1>2 DEF Linked
    <3>3. CASE n # end /\ n # before
      <4>1. g.next[n] = h.next[n] /\ h.next[n] # start /\ h.next[n] # after
        BY <3>3, <1>1, <1>2 DEF Linked
      <4> QED BY <4>1, <1>1, <1>2 DEF Linked
    <3> QED BY <3>1, <3>2, <3>3
  <2> QED BY <2>1, <2>2
<1>5. g.next[end] = start
  BY <1>1, <1>2 DEF Linked
<1> HIDE DEF g
<1> QED BY <1>3, <1>4, <1>5 DEF Linked, g
=============================================================================
