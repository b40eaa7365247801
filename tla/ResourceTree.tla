----------------------------- MODULE ResourceTree -----------------------------
(* What a CommandServer promises about ownership, with no handle maps and no *)
(* dependency lists: resources form a forest, a resource is created below a  *)
(* live owner (or as a root) and takes everything below it along when it is  *)
(* deleted.                                                                  *)
CONSTANTS
    Resources,  \* every resource there can be
    Root        \* the owner of a resource that nothing else owns

VARIABLE
    forest      \* <<resource, its owner>> for every live resource

Live == {edge[1] : edge \in forest}

TreeInit == forest = {}

Create(r, o) ==
    /\ r \in Resources \ Live
    /\ o \in Live \cup {Root}
    /\ forest' = forest \cup {<<r, o>>}

\* The resources under r: the forest is three levels deep.
Below(r) ==
    LET children(q) == {edge[1] : edge \in {e \in forest : e[2] = q}}
    IN  children(r) \cup UNION {children(c) : c \in children(r)}

Delete(r) ==
    LET doomed == {r} \cup Below(r)
    IN  /\ r \in Live
        /\ forest' = {edge \in forest : edge[1] \notin doomed}

\* Who is created or deleted can be told from what is new or gone.
TreeNext ==
    \/ \E edge \in forest \ forest' : Delete(edge[1])
    \/ \E edge \in forest' \ forest : Create(edge[1], edge[2])

TreeSpec == TreeInit /\ [][TreeNext]_forest
=============================================================================
