---------------------------- MODULE SyncCounter ----------------------------
(***************************************************************************)
(* What a frame clock promises the X compositing manager about its counter *)
(* (the extended _NET_WM_SYNC_REQUEST protocol that SetSyncCounter speaks): *)
(* the value only grows, it is odd while a frame is being drawn, and a     *)
(* frame that was begun is ended before another one begins.  A frame that  *)
(* ends only for an empty one to be run through at once is one EndFrame:   *)
(* the values in between leave in the same burst of requests.              *)
(***************************************************************************)
EXTENDS Naturals

VARIABLE counter

Drawing == counter % 2 = 1

Init == counter = 0

BeginFrame == ~Drawing /\ counter' > counter /\ counter' % 2 = 1

EndFrame == Drawing /\ counter' > counter /\ counter' % 2 = 0

Next == counter' \in Nat /\ (BeginFrame \/ EndFrame)

Spec == Init /\ [][Next]_counter

=============================================================================
