-------------------------- MODULE MCArtboardUpdate ---------------------------
(* Every tree of three nodes with up to MaxFeatures solos and constraints in *)
(* it, a joystick counting for two, in which no component depends on itself; *)
(* and a tree of four with a constraint whose target is a solo in a solo.    *)
EXTENDS ArtboardUpdate

CONSTANTS N1, N2, N3, N4, MaxFeatures

Node(n) == [type |-> "node", id |-> n]
ConstraintOf(n) == [type |-> "constraint", id |-> n]
TheJoystick == [type |-> "joystick", id |-> Joystick]

\* Constraints before and after the nodes they wait for, the joystick between.
ThreeObjects == <<Node(N1), ConstraintOf(N1), Node(N2), TheJoystick,
                  Node(N3), ConstraintOf(N3), ConstraintOf(N2)>>
FourObjects == ThreeObjects \o <<ConstraintOf(N4), Node(N4)>>

\* Parents come first in the file.
Trees == {p \in [Nodes -> Nodes \cup {Artboard}] :
              \A i, j \in DOMAIN Objects :
                  /\ Objects[i].type = "node" /\ Objects[j] = Node(p[Objects[i].id])
                  => j < i}

Features(s) ==
    Cardinality(s.solos) + Cardinality({n \in Nodes : s.target[n] # None})
    + IF s.handle = None THEN 0 ELSE 2

MCScenes ==
    {s \in [parent : Trees,
            target : [Nodes -> Nodes \cup {None}],
            solos : SUBSET Nodes,
            handle : Nodes \cup {None},
            driven : Nodes \cup {None}] :
        /\ Features(s) <= MaxFeatures
        /\ (s.handle = None) = (s.driven = None)
        /\ \A n \in s.solos : \E m \in Nodes : s.parent[m] = n
        /\ Acyclic(s)}

\* The last node is constrained to a solo that another solo can switch off.
SoloAsTarget ==
    {[parent |-> N1 :> Artboard @@ N2 :> N1 @@ N3 :> N2 @@ N4 :> Artboard,
      target |-> [n \in Nodes |-> IF n = N4 THEN N2 ELSE None],
      solos |-> {N1, N2},
      handle |-> None,
      driven |-> None]}
=============================================================================
