--------------------------- MODULE AtomicSurfaces ---------------------------
(***************************************************************************)
(* What a tree of surfaces promises its client, in the words of the        *)
(* protocol: a commit of a desynchronized surface shows at once; that of a *)
(* synchronized one waits until its parent is applied, and then the whole  *)
(* of what was committed below changes in one step.  A surface is          *)
(* synchronized unless it and all its ancestors asked not to be.           *)
(***************************************************************************)
CONSTANTS Surfaces, Contents, none, nothing

VARIABLES
  shown,   \* what each surface displays: contents, or none
  waiting, \* what it committed and has not been applied, or nothing
  parent,  \* its parent, or none for an orphan or a surface that is no subsurface
  role,    \* whether it is a subsurface
  desync   \* whether it asked to be desynchronized

vars == <<shown, waiting, parent, role, desync>>

Synchronized ==
  LET sync[s \in Surfaces] ==
        role[s] /\ (~desync[s] \/ (parent[s] # none /\ sync[parent[s]]))
  IN sync

\* What is applied along with s: below it, everything reached through
\* surfaces that themselves have a commit waiting.
AppliedWith(s) ==
  LET applied[t \in Surfaces] ==
        t = s \/ (/\ waiting[t] # nothing
                  /\ parent[t] # none
                  /\ applied[parent[t]])
  IN {t \in Surfaces : applied[t]}

Apply(s, content) ==
  LET applied == AppliedWith(s) IN
  /\ shown' = [t \in Surfaces |-> IF t = s THEN content
                                  ELSE IF t \in applied THEN waiting[t] ELSE shown[t]]
  /\ waiting' = [t \in Surfaces |-> IF t \in applied THEN nothing ELSE waiting[t]]

Committed(s) == IF waiting[s] # nothing THEN waiting[s] ELSE shown[s]

Init ==
  /\ shown = [s \in Surfaces |-> none]
  /\ waiting = [s \in Surfaces |-> nothing]
  /\ parent = [s \in Surfaces |-> none]
  /\ role = [s \in Surfaces |-> FALSE]
  /\ desync = [s \in Surfaces |-> FALSE]

Commit(s) ==
  /\ UNCHANGED <<parent, role, desync>>
  /\ LET contents == Contents \cup {none, Committed(s)} IN
     IF Synchronized[s]
     THEN UNCHANGED shown /\ \E content \in contents : waiting' = [waiting EXCEPT ![s] = content]
     ELSE \E content \in contents : Apply(s, content)

Synchronize(s) ==
  /\ role[s]
  /\ desync' = [desync EXCEPT ![s] = FALSE]
  /\ UNCHANGED <<shown, waiting, parent, role>>

Desynchronize(s) ==
  /\ role[s]
  /\ desync' = [desync EXCEPT ![s] = TRUE]
  /\ IF waiting[s] # nothing /\ (parent[s] = none \/ ~Synchronized[parent[s]])
     THEN Apply(s, waiting[s])
     ELSE UNCHANGED <<shown, waiting>>
  /\ UNCHANGED <<parent, role>>

Adopt(s, p) ==
  /\ ~role[s]
  /\ role' = [role EXCEPT ![s] = TRUE]
  /\ parent' = [parent EXCEPT ![s] = p]
  /\ desync' = [desync EXCEPT ![s] = FALSE]
  /\ UNCHANGED <<shown, waiting>>

\* What a surface committed for its parent to apply goes with the role.
Leave(s) ==
  /\ role' = [role EXCEPT ![s] = FALSE]
  /\ desync' = [desync EXCEPT ![s] = FALSE]
  /\ waiting' = [waiting EXCEPT ![s] = nothing]

DropRole(s) ==
  /\ role[s]
  /\ Leave(s)
  /\ parent' = [parent EXCEPT ![s] = none]
  /\ UNCHANGED shown

Destroy(s) ==
  /\ Leave(s)
  /\ parent' = [t \in Surfaces |-> IF t = s \/ parent[t] = s THEN none ELSE parent[t]]
  /\ shown' = [shown EXCEPT ![s] = none]

Next ==
  \E s \in Surfaces :
    \/ Commit(s) \/ Synchronize(s) \/ Desynchronize(s)
    \/ DropRole(s) \/ Destroy(s)
    \/ \E p \in Surfaces : Adopt(s, p)

Spec == Init /\ [][Next]_vars

=============================================================================
