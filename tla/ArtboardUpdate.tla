--------------------------- MODULE ArtboardUpdate ----------------------------
(* How an artboard brings its components up to date: dirt spreads along the  *)
(* dependencies (component.cpp), the components are visited in dependency    *)
(* order until none is dirty (artboard.cpp), those a solo has collapsed are  *)
(* left out.  The components are transforms in a tree, of which some are     *)
(* constrained to another one and some are solos, and a joystick that        *)
(* follows one of them, its handle, and drives another.                      *)
(*                                                                           *)
(* A transform is a number modulo 2: composition adds, and an active         *)
(* constraint mixes in the target's, so that every input tells in the        *)
(* result.  Strengths, spaces and the other kinds of components are left     *)
(* out; a constraint is folded into the component it constrains, its parent, *)
(* with which it is collapsed.                                               *)
EXTENDS Integers, Sequences, FiniteSets, SequencesExt

CONSTANTS
    Nodes,     \* transform components
    Artboard,  \* the root
    Joystick,  \* a joystick with a handle, where the scene has one
    None,      \* no target, no active child, no handle
    Objects,   \* the order of the file
    Scenes,    \* [parent, target, solos, handle, driven]
    MaxSteps   \* maxSteps of updateComponents

Components == Nodes \cup {Artboard, Joystick}

SceneType ==
    [parent : [Nodes -> Nodes \cup {Artboard}],
     target : [Nodes -> Nodes \cup {None}],
     solos : SUBSET Nodes,
     handle : Nodes \cup {None},
     driven : Nodes \cup {None}]

\* What a file lists: nodes, the constraint of a node, the joystick.
ObjectType == [type : {"node", "constraint"}, id : Nodes]
              \cup {[type |-> "joystick", id |-> Joystick]}

\* No node depends on itself, directly or not: of every group there is one that
\* depends on none of the group.
Acyclic(s) ==
    \A group \in (SUBSET Nodes) \ {{}} :
        \E n \in group : s.parent[n] \notin group /\ s.target[n] \notin group

ASSUME ArtboardUpdateAssumption ==
    /\ Artboard \notin Nodes /\ Joystick \notin Nodes /\ None \notin Components
    /\ Artboard # Joystick
    /\ Objects \in Seq(ObjectType)
    /\ ObjectType = {Objects[i] : i \in DOMAIN Objects}
    /\ Scenes \subseteq SceneType
    /\ \A s \in Scenes : Acyclic(s)
    /\ MaxSteps \in Nat \ {0}

VARIABLES
    scene,      \* the file: never changes
    dependents, \* m_Dependents of the components: never changes
    active,     \* activeComponentId of the solos
    local,      \* x, y, rotation and scale of the nodes
    transform,  \* m_Transform
    world,      \* m_WorldTransform
    pose,       \* x and y of the joystick
    dirt,       \* m_Dirt of the components
    dirty,      \* ComponentDirt::Components in m_Dirt of the artboard
    order,      \* m_DependencyOrder
    dirtDepth,  \* m_DirtDepth, an index into it
    pc,         \* where in updatePass
    phase,      \* which of its calls of updateComponents
    step,       \* step in there
    index       \* i in there

fileVars == <<scene, dependents, order>>
valueVars == <<active, local, transform, world, pose>>
loopVars == <<pc, phase, step, index>>
vars == <<fileVars, valueVars, dirt, dirty, dirtDepth, loopVars>>

Flags == {"Collapsed", "Transform", "WorldTransform"}
Filthy == Flags \ {"Collapsed"}

Collapsed(n) == "Collapsed" \in dirt[n]
Constrained(n) == scene.target[n] # None

(***************************************************************************)
(* Dependencies                                                            *)
(***************************************************************************)

\* buildDependencies of an object adds to the dependents of a component: a
\* node itself to those of its parent, a constraint the node it constrains to
\* those of its target, the joystick itself to the artboard's and its handle's.
AddsTo(s, object, c) ==
    \/ object.type = "node" /\ s.parent[object.id] = c
    \/ object.type = "constraint" /\ s.target[object.id] = c
    \/ object.type = "joystick" /\ s.handle # None /\ c \in {Artboard, s.handle}

\* DependencyHelper::addDependent.
AddDependent(list, component) ==
    IF component \in Range(list) THEN list ELSE Append(list, component)

\* m_Dependents of a component, after buildDependencies of every object in the
\* order of the file.
Dependents(s, c) ==
    LET Built[i \in 0 .. Len(Objects)] ==
            IF i = 0 THEN <<>>
            ELSE IF AddsTo(s, Objects[i], c)
                 THEN AddDependent(Built[i - 1], Objects[i].id)
            ELSE Built[i - 1]
    IN Built[Len(Objects)]

\* A component is put before its dependents are visited.
SortedTooEarly(s) ==
    LET Visit[c \in Components] ==
            [sorted \in Seq(Components) |->
                 IF c \in Range(sorted) THEN sorted
                 ELSE FoldLeft(LAMBDA o, d : Visit[d][o], <<c>> \o sorted,
                               Dependents(s, c))]
    IN Visit[Artboard][<<>>]

\* DependencySorter::sort, of a graph without cycles: a component comes
\* before its dependents, which have been visited and put there first.
Sorted(s) ==
    LET Visit[c \in Components] ==
            [sorted \in Seq(Components) |->
                 IF c \in Range(sorted) THEN sorted
                 ELSE <<c>> \o FoldLeft(LAMBDA o, d : Visit[d][o], sorted,
                                        Dependents(s, c))]
    IN Visit[Artboard][<<>>]

GraphOrder(c) == CHOOSE i \in DOMAIN order : order[i] = c

\* Where a dirty flag goes: to a component and its dependents, but not past
\* one that has the flag already.
Spread(roots, flag, from) ==
    LET clean == {c \in Components : flag \notin from[c]}
        Reached[k \in Nat] ==
            IF k = 0 THEN roots \cap clean
            ELSE LET before == Reached[k - 1] IN
                 before \cup {c \in clean : \E d \in before :
                                                c \in Range(dependents[d])}
    IN Reached[Cardinality(clean)]

\* onComponentDirty for each of a set of components.
Notify(components) ==
    /\ dirty' = (dirty \/ components # {})
    /\ dirtDepth' =
           LET depths == {GraphOrder(c) : c \in components} \cup {dirtDepth}
           IN CHOOSE d \in depths : \A e \in depths : d <= e

(***************************************************************************)
(* Solos                                                                   *)
(***************************************************************************)

\* Which nodes are collapsed once every solo has collapsed its children but
\* the active one, and every container its children with itself.
CollapsedBy(s, choice) ==
    LET Below[k \in Nat] ==
            IF k = 0 THEN {n \in Nodes : /\ s.parent[n] \in s.solos
                                         /\ choice[s.parent[n]] # n}
            ELSE LET above == Below[k - 1] IN
                 above \cup {n \in Nodes : s.parent[n] \in above}
    IN Below[Cardinality(Nodes)]

WithCollapsed(from, nodes) ==
    [c \in Components |-> IF c \in nodes THEN from[c] \cup {"Collapsed"}
                          ELSE from[c] \ {"Collapsed"}]

WithFlag(from, components, flag) ==
    [c \in Components |-> IF c \in components THEN from[c] \cup {flag}
                          ELSE from[c]]

\* markTransformDirty of a set of nodes, and WorldTransform for some more.
Marked(from, moved, more) ==
    LET fresh == {n \in moved : "Transform" \notin from[n]}
    IN WithFlag(WithFlag(from, fresh, "Transform"),
                Spread(fresh \cup more, "WorldTransform", from),
                "WorldTransform")

Init ==
    /\ scene \in Scenes
    /\ dependents = [c \in Components |-> Dependents(scene, c)]
    /\ active = [n \in Nodes |-> None]
    /\ local = [n \in Nodes |-> 0]
    /\ transform = [n \in Nodes |-> 0]
    /\ world = [n \in Nodes |-> 0]
    /\ pose = 0
    /\ dirt = WithCollapsed([c \in Components |-> Filthy],
                            CollapsedBy(scene, active))
    /\ dirty = TRUE
    /\ order = Sorted(scene)
    /\ dirtDepth = 1
    /\ pc = "idle"
    /\ phase = 1
    /\ step = 0
    /\ index = 1

(***************************************************************************)
(* Between two passes                                                      *)
(***************************************************************************)

\* xChanged, yChanged, rotationChanged, ..., by an animation, a data bind or
\* the application.
SetTransform(n) ==
    /\ pc = "idle"
    /\ local' = [local EXCEPT ![n] = 1 - @]
    /\ dirt' = Marked(dirt, {n}, {})
    /\ Notify({c \in Components : dirt'[c] # dirt[c]})
    /\ UNCHANGED <<fileVars, active, transform, world, pose, loopVars>>

ActivateUnnoticed(s, n) ==
    /\ pc = "idle"
    /\ s \in scene.solos
    /\ active[s] # n
    /\ n # None => scene.parent[n] = s
    /\ active' = [active EXCEPT ![s] = n]
    /\ dirt' = WithCollapsed(dirt, CollapsedBy(scene, active'))
    /\ Notify({c \in Components : dirt'[c] # dirt[c]})
    /\ UNCHANGED <<fileVars, local, transform, world, pose, loopVars>>

\* activeComponentIdChanged.  A constraint that is collapsed or shown with its
\* parent marks it (Constraint::onDirty); what is constrained to a component
\* that is collapsed or shown is marked, too (TransformComponent::collapse),
\* but not when that is a solo, which passes this by (Solo::collapse).
Activate(s, n) ==
    /\ pc = "idle"
    /\ s \in scene.solos
    /\ active[s] # n
    /\ n # None => scene.parent[n] = s
    /\ active' = [active EXCEPT ![s] = n]
    /\ LET flipped == WithCollapsed(dirt, CollapsedBy(scene, active'))
           changed == {m \in Nodes : flipped[m] # dirt[m]}
           dependent == UNION {Range(dependents[m]) :
                                   m \in changed \ scene.solos}
       IN /\ dirt' = Marked(flipped, {m \in changed : Constrained(m)},
                            {m \in dependent \cap Nodes : Constrained(m)})
          /\ Notify({c \in Components : dirt'[c] # dirt[c]})
    /\ UNCHANGED <<fileVars, local, transform, world, pose, loopVars>>

(***************************************************************************)
(* updatePass                                                              *)
(***************************************************************************)

UpdatePass ==
    /\ pc = "idle"
    /\ pc' = "loop"
    /\ phase' = 1
    /\ step' = 0
    /\ UNCHANGED <<fileVars, valueVars, dirt, dirty, dirtDepth, index>>

NextStepKeepingDirt ==
    /\ pc = "loop"
    /\ dirty
    /\ step < MaxSteps
    /\ index' = 1
    /\ pc' = "visit"
    /\ UNCHANGED <<fileVars, valueVars, dirt, dirty, dirtDepth, phase, step>>

\* The while loop of updateComponents.
NextStep ==
    /\ pc = "loop"
    /\ dirty
    /\ step < MaxSteps
    /\ dirty' = FALSE
    /\ index' = 1
    /\ pc' = "visit"
    /\ UNCHANGED <<fileVars, valueVars, dirt, dirtDepth, phase, step>>

\* updateComponents returns; updatePass calls it before and after the
\* joystick is applied, when there is one that has a handle.
EndComponents ==
    /\ pc = "loop"
    /\ ~(dirty /\ step < MaxSteps)
    /\ pc' = IF scene.handle = None \/ phase = 3 THEN "idle"
             ELSE IF phase = 2 THEN "apply"
             ELSE "loop"
    /\ phase' = IF scene.handle = None \/ phase = 3 THEN 1 ELSE phase + 1
    /\ step' = 0
    /\ UNCHANGED <<fileVars, valueVars, dirt, dirty, dirtDepth, index>>

\* Joystick::apply: the animation sets what it has keyed to the pose.
Apply ==
    LET n == scene.driven IN
    /\ pc = "apply"
    /\ IF n # None /\ local[n] # pose
       THEN /\ local' = [local EXCEPT ![n] = pose]
            /\ dirt' = Marked(dirt, {n}, {})
            /\ Notify({c \in Components : dirt'[c] # dirt[c]})
       ELSE UNCHANGED <<local, dirt, dirty, dirtDepth>>
    /\ pc' = "loop"
    /\ UNCHANGED <<fileVars, active, transform, world, pose, phase, step>>
    /\ UNCHANGED index

AdvanceTooFar(depth) ==
    IF index <= Len(order) /\ ~(depth < index)
    THEN /\ index' = index + 1
         /\ UNCHANGED <<pc, step>>
    ELSE /\ step' = step + 1
         /\ pc' = "loop"
         /\ UNCHANGED index

\* On to the next component, or out of the for loop.
Advance(depth) ==
    IF index < Len(order) /\ ~(depth < index)
    THEN /\ index' = index + 1
         /\ UNCHANGED <<pc, step>>
    ELSE /\ step' = step + 1
         /\ pc' = "loop"
         /\ UNCHANGED index

Skip ==
    LET c == order[index] IN
    /\ pc = "visit"
    /\ dirt[c] = {} \/ Collapsed(c)
    /\ dirtDepth' = index
    /\ Advance(index)
    /\ UNCHANGED <<fileVars, valueVars, dirt, dirty, phase>>

\* updateWorldTransform and updateConstraints.
WorldTransform(n, own) ==
    LET parent == scene.parent[n]
        target == scene.target[n]
        composed == own + IF parent = Artboard THEN 0 ELSE world[parent]
    IN IF target # None /\ ~Collapsed(target)
       THEN (composed + world[target] + 1) % 2
       ELSE composed % 2

UpdateNode ==
    LET n == order[index]
        d == dirt[n]
        own == IF "Transform" \in d THEN local[n] ELSE transform[n]
    IN
    /\ pc = "visit"
    /\ n \in Nodes
    /\ d # {} /\ ~Collapsed(n)
    /\ dirt' = [dirt EXCEPT ![n] = {}]
    /\ transform' = [transform EXCEPT ![n] = own]
    /\ world' = IF "WorldTransform" \in d
                THEN [world EXCEPT ![n] = WorldTransform(n, own)]
                ELSE world
    /\ dirtDepth' = index
    /\ Advance(index)
    /\ UNCHANGED <<fileVars, active, local, pose, dirty, phase>>

UpdateArtboard ==
    /\ pc = "visit"
    /\ order[index] = Artboard
    /\ dirt[Artboard] # {}
    /\ dirt' = [dirt EXCEPT ![Artboard] = {}]
    /\ dirtDepth' = index
    /\ Advance(index)
    /\ UNCHANGED <<fileVars, valueVars, dirty, phase>>

\* Follows its handle; a change marks the artboard, the first component of
\* all, so that the loop starts again.
UpdateJoystick ==
    LET moved == pose # world[scene.handle]
        depth == IF moved /\ ~dirty THEN 1 ELSE index
    IN
    /\ pc = "visit"
    /\ order[index] = Joystick
    /\ dirt[Joystick] # {}
    /\ dirt' = [dirt EXCEPT ![Joystick] = {}]
    /\ pose' = world[scene.handle]
    /\ dirty' = (dirty \/ moved)
    /\ dirtDepth' = depth
    /\ Advance(depth)
    /\ UNCHANGED <<fileVars, active, local, transform, world, phase>>

Next ==
    \/ \E n \in Nodes : SetTransform(n)
    \/ \E s \in Nodes, n \in Nodes \cup {None} : Activate(s, n)
    \/ UpdatePass
    \/ NextStep
    \/ EndComponents
    \/ Apply
    \/ Skip
    \/ UpdateNode
    \/ UpdateArtboard
    \/ UpdateJoystick

Spec == Init /\ [][Next]_vars

(***************************************************************************)
(* Correctness                                                             *)
(***************************************************************************)

\* Every variable holds a value the code can store in it.
TypeOK ==
    /\ scene \in Scenes
    /\ dependents \in [Components -> Seq(Components)]
    /\ active \in [Nodes -> Nodes \cup {None}]
    /\ local \in [Nodes -> 0 .. 1]
    /\ transform \in [Nodes -> 0 .. 1]
    /\ world \in [Nodes -> 0 .. 1]
    /\ pose \in 0 .. 1
    /\ dirt \in [Components -> SUBSET Flags]
    /\ dirty \in BOOLEAN
    /\ order \in Seq(Components)
    /\ dirtDepth \in 1 .. Len(order)
    /\ pc \in {"idle", "loop", "visit", "apply"}
    /\ phase \in 1 .. 3
    /\ step \in 0 .. MaxSteps
    /\ index \in 1 .. Len(order)

\* What a component is computed from.
Dependencies(c) ==
    IF c = Joystick THEN {scene.handle}
    ELSE IF c = Artboard THEN {}
    ELSE {scene.parent[c], scene.target[c]} \ {None}

\* A component is updated only when everything it is computed from has been,
\* whatever became dirty in the course of the pass (DependencySorter,
\* updateComponents).
UpdatedAfterDependencies ==
    [][\A c \in Components :
           dirt[c] # {} /\ dirt'[c] = {}
               => \A d \in Dependencies(c) : dirt[d] = {} \/ Collapsed(d)]_vars

\* Nothing has changed since the last pass.
Settled == pc = "idle" /\ ~dirty

\* The handle and its ancestors are in no solo.
AlwaysShown(n) ==
    LET Above[k \in Nat] ==
            IF k = 0 THEN {n}
            ELSE LET below == Above[k - 1] IN
                 below \cup {scene.parent[m] : m \in below \cap Nodes}
    IN Above[Cardinality(Nodes)] \cap scene.solos \subseteq {n}

UpToDate(n) ==
    /\ transform[n] = local[n]
    /\ world[n] = WorldTransform(n, transform[n])

\* After a pass every component that is shown is up to date with what it is
\* computed from, whatever was moved, collapsed and shown, in whatever order
\* (addDirt, which stops at what is dirty already, TransformComponent's
\* collapse, updateComponents).  Not so when the target of a constraint is a
\* solo that was collapsed or shown, and when the handle of the joystick was
\* moved while it was collapsed.
NothingStale ==
    Settled => /\ \A n \in Nodes :
                      \/ Collapsed(n)
                      \/ scene.target[n] \in scene.solos
                      \/ UpToDate(n)
               /\ scene.handle # None /\ AlwaysShown(scene.handle)
                      => pose = world[scene.handle]

\* updateComponents always gets done before maxSteps cuts it off.
NeverCutOff == ~(pc = "loop" /\ dirty /\ step = MaxSteps)

\* "If the component has any constraints applied we mark it as dirty because
\* one of its constraining targets has changed its collapse status"
\* (transform_component.cpp:35).
ConstrainedIsMarked ==
    [][\A n \in Nodes :
           /\ Constrained(n)
           /\ Collapsed(scene.target[n]) # Collapsed(scene.target[n])'
           => "WorldTransform" \in dirt'[n]]_vars
=============================================================================
