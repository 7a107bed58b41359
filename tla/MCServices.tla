----------------------------- MODULE MCServices -----------------------------
(***************************************************************************)
(* Components that do not interact, checked in one run: the frame clock of *)
(* a window, its back buffers, the owner and the readers of selections,    *)
(* both sides of drag and drop and the window cache it looks windows up    *)
(* in.  "active" is the one that takes steps, the others stay in an        *)
(* initial state, so the state spaces add up and do not multiply.          *)
(***************************************************************************)
EXTENDS FrameClock, BackBuffers, Drag, DndTarget

CONSTANTS
  propertyA, propertyB,
  Windows, Properties, Plain, Length, Size, Targets, Multiples,
  Impatient, Ownerships, PipeFailures, Timeouts, MaxRequests, MaxPairs, MaxEvents

VARIABLES
  active,
  owner, xevents, properties, asked, answers, waits, taken, late, crossed,
  transfers, chain, freeAtoms, atomCount, property, owners, reports, pipes, got, hungUp, troubled,
  server, xqueue, cache, reading, changes, misled

ownerVars == <<owner, xevents, properties, asked, answers, waits, taken, late, crossed>>
readerVars == <<transfers, chain, freeAtoms, atomCount, property, owners, reports, pipes, got, hungUp, troubled>>
cacheVars == <<server, xqueue, cache, reading, changes, misled>>

-----------------------------------------------------------------------------
(* The instances. *)

\* A MULTIPLE request asks for two conversions.
BothTexts ==
  {<<[target |-> "text", property |-> propertyA], [target |-> "latin", property |-> propertyB]>>}

Owner == INSTANCE SelectionOwner

\* The first reader gets its data in two chunks, the other converts its own.
UnitsOf(i) == IF i = "a" THEN 3 ELSE 2
Translated(i) == i = "c"

Reader ==
  INSTANCE SelectionReader WITH
    Readers <- {"a", "c"}, Size <- UnitsOf, Converts <- Translated, Quantum <- 2,
    Limit <- 1, Overlap <- FALSE, Refusals <- TRUE

\* The X target speaks XDND; the client of the second surface cannot finish a drop.
Versions == [t \in Toplevels |-> 5]
ClientVersions == [c \in Children |-> IF c = "c1" THEN 3 ELSE 2]

Cache ==
  INSTANCE WindowCache WITH
    Root <- "root", Windows <- {"a", "b", "c"}, FirstWindows <- <<"a", "b">>,
    ShortLived <- FALSE, MaxChanges <- 3

-----------------------------------------------------------------------------
(* The specification. *)

ServicesInit ==
  /\ active \in {"clock", "buffers", "owner", "reader", "drag", "target", "cache"}
  /\ Init /\ (active # "clock" => clock.frame_sync_supported)
  /\ BuffersInit
  /\ Owner!Init
  /\ Reader!ReaderInit
  /\ DragInit
  /\ TargetInit
  /\ Cache!CacheInit

ServicesNext ==
  /\ UNCHANGED active
  /\ \/ /\ active = "clock" /\ Next
        /\ UNCHANGED <<bufferVars, ownerVars, readerVars, dragVars, targetVars, cacheVars>>
     \/ /\ active = "buffers" /\ BuffersNext
        /\ UNCHANGED <<clockVars, ownerVars, readerVars, dragVars, targetVars, cacheVars>>
     \/ /\ active = "owner" /\ Owner!Next
        /\ UNCHANGED <<clockVars, bufferVars, readerVars, dragVars, targetVars, cacheVars>>
     \/ /\ active = "reader" /\ Reader!ReaderNext
        /\ UNCHANGED <<clockVars, bufferVars, ownerVars, dragVars, targetVars, cacheVars>>
     \/ /\ active = "drag" /\ DragNext
        /\ UNCHANGED <<clockVars, bufferVars, ownerVars, readerVars, targetVars, cacheVars>>
     \/ /\ active = "target" /\ TargetNext
        /\ UNCHANGED <<clockVars, bufferVars, ownerVars, readerVars, dragVars, cacheVars>>
     \/ /\ active = "cache" /\ Cache!CacheNext
        /\ UNCHANGED <<clockVars, bufferVars, ownerVars, readerVars, dragVars, targetVars>>

ServicesSpec ==
  /\ ServicesInit
  /\ [][ServicesNext]_<<active, clockVars, bufferVars, ownerVars, readerVars, dragVars, targetVars, cacheVars>>

-----------------------------------------------------------------------------
(* The properties of the instances: each is about the component that takes *)
(* steps, and says what its module says of it.                             *)

\* Transfers, buffers, drags, offers and windows have their types.
ServicesTypeOK ==
  CASE active = "buffers" -> BuffersTypeOK
    [] active = "owner" -> Owner!TypeOK
    [] active = "reader" -> Reader!ReaderTypeOK
    [] active = "drag" -> DragTypeOK
    [] active = "target" -> TargetTypeOK
    [] active = "cache" -> Cache!CacheTypeOK
    [] OTHER -> TRUE

\* Windows and records of MULTIPLE requests are given up with their last
\* transfer, and no assertion of select.c fails.
TransfersCounted == active = "owner" => Owner!TransfersCounted

\* No request to the owner of a selection is answered twice, out of its turn,
\* or left with nothing to wait for.
RequestsServed == active = "owner" => Owner!RequestsServed

\* No property is overwritten before its requestor read it, while the deletions
\* the owner hears of are those it waits for.
DataIntact == active = "owner" => Owner!DataIntact

\* A client that reads a selection gets its own data, all of it and in order,
\* through refusals, timeouts and a pipe that is full.
TransfersSound == active = "reader" => Reader!TransfersSound

\* Once its events are handled, the window cache has the windows of the server
\* in their order and finds the one under the pointer (dnd.c).
CacheCurrent == active = "cache" => Cache!CacheCurrent

=============================================================================
