------------------------------ MODULE MCSurface ------------------------------
(***************************************************************************)
(* Surface for model checking, in two shapes.  A chain of subsurfaces, top *)
(* <- mid <- leaf, in which everything may happen.  And two subsurfaces of *)
(* one, mid <- leaf and mid <- twin, that get their roles first, and then  *)
(* a number of commits and changes of synchronization; buffers stay with   *)
(* the X server.                                                           *)
(***************************************************************************)
EXTENDS Surface, TLC

CONSTANTS top, mid, leaf, twin, t1, m1, l1, l2, k1,
  ChainRoles,  \* bound: roles given in the chain
  MaxRequests  \* bound: requests to the two subsurfaces and what is above them

VARIABLE requests  \* made so far, or nothing in the chain

Above == mid :> {top} @@ leaf :> {mid} @@ twin :> {mid}

LeafBuffers == top :> {t1} @@ mid :> {m1} @@ leaf :> {l1, l2} @@ twin :> {k1}

BuffersSymmetric == Permutations({l1, l2})

\* What a step drew has no influence on the next one.
WithoutFrame == <<surface, busy, waiting, reading, roles, crashed, requests>>

MCInit == Init /\ requests \in {0, nothing}

\* Next, without twin.
InChain ==
  /\ requests = nothing /\ UNCHANGED requests
  /\ \/ FrameEnds
     \/ \E b \in Buffers : BufferIdleCallback(b)
     \/ \E s \in Surfaces \ {twin} :
          \/ Attach(s) \/ ClientCommit(s)
          \/ DestroySubsurface(s) \/ DestroySurface(s)
          \/ SetSync(s) \/ SetDesync(s)
     \/ /\ roles < ChainRoles
        /\ \E s \in NonRoot \ {twin} : \E parent \in Parents[s] : GetSubsurface(s, parent)

\* The roles, from the top, and the first contents of the window.
Grow ==
  /\ requests = 0
  /\ \/ /\ roles < MaxRoles
        /\ \E s \in NonRoot : \E parent \in Parents[s] :
             GetSubsurface(s, parent) /\ (parent # Root => surface[parent].role)
        /\ UNCHANGED requests
     \/ roles = MaxRoles /\ Attach(Root) /\ UNCHANGED requests
     \/ roles = MaxRoles /\ ClientCommit(Root) /\ requests' = 1

\* A client commits a surface before it attaches to the next.
Request ==
  /\ requests \in 1 .. MaxRequests
  /\ \/ FrameEnds /\ UNCHANGED requests
     \/ /\ \A s \in Surfaces : ~surface[s].pending.attached
        /\ \E s \in Surfaces : Attach(s)
        /\ UNCHANGED requests
     \/ /\ requests < MaxRequests /\ requests' = requests + 1
        /\ \E s \in Surfaces : ClientCommit(s) \/ SetDesync(s)

MCNext == InChain \/ Grow \/ Request

MCSpec == MCInit /\ [][MCNext]_<<vars, requests>>

=============================================================================
