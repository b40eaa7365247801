--------------------------- MODULE StateMachine_proofs ---------------------------
(* A state machine instance deletes each of its states once, every layer     *)
(* gets to see a trigger, and a host that stops when it is told that there   *)
(* is nothing more to do misses nothing: for any machine, any number of      *)
(* layers and any lengths of the frames.                                     *)
EXTENDS StateMachine, TLAPS

(***************************************************************************)
(* Instances and layers                                                    *)
(***************************************************************************)

\* The pointers of a layer are to different instances, which are those that
\* have not been deleted.
OwnedBy(h, ly) ==
    /\ ly.any # ly.current /\ ly.from # ly.any /\ ly.from # ly.current
    /\ \A id \in Ids :
         /\ id \in {ly.any, ly.current, ly.from} <=> h[id].state # None
         /\ h[id].state = None => h[id] = Free
    /\ h[ly.any].state = AnyState

Owned == \A l \in Layers : OwnedBy(heap[l], layer[l])

\* The first invariant: types, and who owns which instance.
IInv == TypeOK /\ Owned

\* What the assumption says of one machine.
LEMMA MachineTypes ==
    ASSUME TypeOK, NEW l \in Layers
    PROVE  /\ machine.layers[l] \in Seq(TransitionType)
           /\ \A i \in DOMAIN machine.layers[l] :
                 /\ i \in Nat
                 /\ machine.layers[l][i] \in TransitionType
                 /\ machine.layers[l][i].to \in States
                 /\ machine.layers[l][i].duration \in Nat
           /\ \A s \in Animations :
                 /\ machine.animation[s].duration \in Nat \ {0}
                 /\ machine.animation[s].loop \in BOOLEAN
           /\ machine.heard.change \in {"fire", "set", "clear"}
<1>1. machine \in MachineType
  BY StateMachineAssumption DEF TypeOK
<1>2. /\ machine.layers \in [Layers -> Seq(TransitionType)]
      /\ machine.animation \in [Animations -> [duration : Nat \ {0}, loop : BOOLEAN]]
      /\ machine.heard \in [layer : Layers, index : Nat, change : {"fire", "set", "clear"}]
  BY <1>1 DEF MachineType
<1>3. machine.layers[l] \in Seq(TransitionType)
  BY <1>2
<1>4. ASSUME NEW i \in DOMAIN machine.layers[l]
      PROVE  i \in Nat /\ machine.layers[l][i] \in TransitionType
  BY <1>3
<1>5. \A t \in TransitionType : t.to \in States /\ t.duration \in Nat
  BY DEF TransitionType
<1>6. ASSUME NEW s \in Animations
      PROVE  /\ machine.animation[s].duration \in Nat \ {0}
             /\ machine.animation[s].loop \in BOOLEAN
  <2>1. machine.animation[s] \in [duration : Nat \ {0}, loop : BOOLEAN]
    BY <1>2
  <2> QED BY <2>1
<1>7. machine.heard.change \in {"fire", "set", "clear"}
  BY <1>2
<1> QED BY <1>3, <1>4, <1>5, <1>6, <1>7

\* The system states and None are different from each other and the rest.
LEMMA SystemStates ==
    /\ None \notin Nat /\ None \notin States
    /\ EntryState \in States /\ AnyState \in States
    /\ EntryState # AnyState
    /\ EntryState \notin Animations /\ AnyState \notin Animations
    /\ Animations \subseteq States
BY StateMachineAssumption DEF States

\* A new instance is in its state.
LEMMA NewIsInstance ==
    ASSUME NEW s \in States
    PROVE  New(s) \in InstanceType /\ New(s).state = s
<1>1. (s \in Animations) \in BOOLEAN
  OBVIOUS
<1> QED BY <1>1 DEF New, InstanceType

\* The remainder of a time.
LEMMA Remainder ==
    ASSUME NEW n \in Nat, NEW d \in Nat \ {0}
    PROVE  n % d \in Nat
OBVIOUS

\* An instance whose clock has stood still.
LEMMA StillInstance ==
    ASSUME NEW x \in InstanceType
    PROVE  /\ [x EXCEPT !.spilled = 0, !.keep = FALSE] \in InstanceType
           /\ [x EXCEPT !.spilled = 0, !.keep = FALSE].state = x.state
           /\ [x EXCEPT !.spilled = 0] \in InstanceType
           /\ [x EXCEPT !.spilled = 0].state = x.state
           /\ [x EXCEPT !.spilled = 0].total = x.total
           /\ [x EXCEPT !.spilled = 0].keep = x.keep
<1>1. ASSUME NEW k \in BOOLEAN
      PROVE  /\ [x EXCEPT !.spilled = 0, !.keep = k] \in InstanceType
             /\ [x EXCEPT !.spilled = 0, !.keep = k].state = x.state
  BY DEF InstanceType
<1>2. FALSE \in BOOLEAN
  OBVIOUS
<1>3. /\ [x EXCEPT !.spilled = 0] \in InstanceType
      /\ [x EXCEPT !.spilled = 0].state = x.state
      /\ [x EXCEPT !.spilled = 0].total = x.total
  BY DEF InstanceType
<1>4. [x EXCEPT !.spilled = 0].keep = x.keep
  BY DEF InstanceType
<1>5. /\ [x EXCEPT !.spilled = 0, !.keep = FALSE] \in InstanceType
      /\ [x EXCEPT !.spilled = 0, !.keep = FALSE].state = x.state
  BY <1>1, <1>2, Zenon
<1> QED BY <1>3, <1>4, <1>5

\* An instance that is advanced stays in its state.
LEMMA AdvancedIsInstance ==
    ASSUME TypeOK, NEW x \in InstanceType, NEW ticks \in Nat
    PROVE  Advanced(x, ticks) \in InstanceType /\ Advanced(x, ticks).state = x.state
<1> DEFINE a == machine.animation[x.state]
           time == IF a.loop THEN x.total % a.duration ELSE x.total
           total == time + ticks
           spilled == IF total < a.duration THEN 0
                      ELSE IF a.loop THEN total % a.duration
                      ELSE IF time < a.duration THEN total - a.duration
                      ELSE 0
           clock == IF total < MaxExit \/ a.loop THEN total ELSE MaxExit
           keep == a.loop \/ total < a.duration
<1>1. CASE x.state \notin Animations
  BY <1>1 DEF Advanced
<1>2. CASE x.state \in Animations /\ ticks = 0
  <2>1. Advanced(x, ticks) = [x EXCEPT !.spilled = 0, !.keep = FALSE]
    BY <1>2 DEF Advanced
  <2> QED BY <2>1, StillInstance
<1>3. CASE x.state \in Animations /\ ticks # 0
  <2>1. Advanced(x, ticks) = [x EXCEPT !.total = clock, !.spilled = spilled, !.keep = keep]
    BY <1>3 DEF Advanced
  <2>2. a.duration \in Nat \ {0} /\ a.loop \in BOOLEAN
    <3>1. PICK l \in Layers : TRUE
      BY DEF TypeOK
    <3> QED BY <1>3, <3>1, MachineTypes
  <2>3. x.total \in Nat /\ MaxExit \in Nat
    BY StateMachineAssumption DEF InstanceType
  <2> HIDE DEF a
  <2>4. time \in Nat
    BY <2>2, <2>3, Remainder
  <2> HIDE DEF time
  <2>5. total \in Nat
    BY <2>4
  <2>6. time < a.duration => total - a.duration \in Int
    BY <2>2, <2>5
  <2>7. spilled \in Nat
    <3>1. total % a.duration \in Nat
      BY <2>2, <2>5, Remainder
    <3>2. ~(total < a.duration) => total - a.duration \in Nat
      BY <2>2, <2>5
    <3> QED BY <3>1, <3>2
  <2>8. clock \in Nat
    BY <2>3, <2>5
  <2>9. keep \in BOOLEAN
    OBVIOUS
  <2> HIDE DEF spilled, clock, keep
  <2> QED BY <2>1, <2>7, <2>8, <2>9 DEF InstanceType
<1> QED BY <1>1, <1>2, <1>3

\* What the layer points to.
LEMMA LayerTypes ==
    ASSUME TypeOK, NEW l \in Layers
    PROVE  /\ layer[l] \in LayerType
           /\ layer[l].any \in Ids /\ layer[l].current \in Ids
           /\ layer[l].from \in Ids \cup {None}
           /\ layer[l].transition \in Nat \cup {None}
           /\ layer[l].completed \in BOOLEAN
           /\ layer[l].waiting \in BOOLEAN
           /\ layer[l].left \in Nat
           /\ Current(l) = heap[l][layer[l].current]
           /\ Current(l) \in InstanceType
           /\ heap[l] \in [Ids -> InstanceType]
<1>1. layer[l] \in LayerType /\ heap[l] \in [Ids -> InstanceType]
  BY DEF TypeOK
<1>2. /\ layer[l].any \in Ids /\ layer[l].current \in Ids
      /\ layer[l].from \in Ids \cup {None}
      /\ layer[l].transition \in Nat \cup {None}
      /\ layer[l].completed \in BOOLEAN
      /\ layer[l].waiting \in BOOLEAN
      /\ layer[l].left \in Nat
  BY <1>1 DEF LayerType
<1>3. layer[l].current # None
  BY <1>2, SystemStates DEF Ids
<1> QED BY <1>1, <1>2, <1>3 DEF Current, At

\* There is a free instance, and it is none of the three in use.
LEMMA FreeIdExists ==
    ASSUME IInv, NEW l \in Layers
    PROVE  /\ FreeId(heap[l]) \in Ids
           /\ heap[l][FreeId(heap[l])] = Free
           /\ FreeId(heap[l]) \notin {layer[l].any, layer[l].current, layer[l].from}
<1>1. \E id \in Ids : id \notin {layer[l].any, layer[l].current, layer[l].from}
  <2>1. 1 \in Ids /\ 2 \in Ids /\ 3 \in Ids /\ 4 \in Ids
    BY DEF Ids
  <2> QED BY <2>1
<1>2. \E id \in Ids : heap[l][id] = Free
  BY <1>1 DEF IInv, Owned, OwnedBy
<1>3. FreeId(heap[l]) \in Ids /\ heap[l][FreeId(heap[l])] = Free
  BY <1>2 DEF FreeId
<1>4. heap[l][FreeId(heap[l])].state = None
  BY <1>3 DEF Free
<1> QED BY <1>3, <1>4 DEF IInv, Owned, OwnedBy

(***************************************************************************)
(* Transitions                                                             *)
(***************************************************************************)

\* A transition is selected from those of the layer.
LEMMA SelectedIsTransition ==
    ASSUME NEW l, NEW x
    PROVE  /\ Candidates(l, x) \subseteq DOMAIN machine.layers[l]
           /\ AllowedNow(l, x) \subseteq DOMAIN machine.layers[l]
           /\ Selected(l, x) \subseteq DOMAIN machine.layers[l] \cup {None}
<1>1. Candidates(l, x) \subseteq DOMAIN machine.layers[l]
  BY DEF Candidates
<1>2. AllowedNow(l, x) \subseteq DOMAIN machine.layers[l]
  BY <1>1 DEF AllowedNow
<1>3. Selected(l, x) \subseteq AllowedNow(l, x) \cup {None}
  BY DEF Selected
<1> QED BY <1>1, <1>2, <1>3

\* A layer changes its state by taking a transition.
LEMMA ChangesTakes ==
    ASSUME NEW l, Changes(l)
    PROVE  \E i \in DOMAIN machine.layers[l] : Take(l, i)
BY SelectedIsTransition DEF Changes

\* What taking a transition leaves: the old current instance is the one that is
\* left, and a new one is current.
LEMMA TakeEffect ==
    ASSUME IInv, NEW l \in Layers, NEW i \in DOMAIN machine.layers[l], Take(l, i)
    PROVE  /\ heap' \in [Layers -> [Ids -> InstanceType]]
           /\ layer' \in [Layers -> LayerType]
           /\ \A k \in Layers \ {l} : heap'[k] = heap[k] /\ layer'[k] = layer[k]
           /\ layer'[l].transition = i
           /\ layer'[l].left = machine.layers[l][i].duration
           /\ OwnedBy(heap'[l], layer'[l])
<1> DEFINE t == machine.layers[l][i]
           ly == layer[l]
           out == Current(l)
           id == FreeId(heap[l])
           entered == IF out.state \in Animations
                      THEN Advanced(New(t.to), out.spilled) ELSE New(t.to)
           h == [heap[l] EXCEPT ![id] = entered]
           g == IF ly.from = None THEN h ELSE [h EXCEPT ![ly.from] = Free]
           new == [ly EXCEPT !.current = id, !.from = ly.current,
                             !.transition = i, !.completed = t.duration = 0,
                             !.left = t.duration, !.waiting = FALSE]
<1>1. /\ heap' = [heap EXCEPT ![l] = g]
      /\ layer' = [layer EXCEPT ![l] = new]
  BY DEF Take
<1>2. /\ t.to \in States /\ t.duration \in Nat /\ i \in Nat
  BY MachineTypes DEF IInv
<1>3. /\ ly \in LayerType
      /\ ly.any \in Ids /\ ly.current \in Ids
      /\ ly.from \in Ids \cup {None}
      /\ out = heap[l][ly.current]
      /\ out \in InstanceType
      /\ heap[l] \in [Ids -> InstanceType]
  BY LayerTypes DEF IInv
<1>4. /\ id \in Ids
      /\ id \notin {ly.any, ly.current, ly.from}
  BY FreeIdExists
<1>5. entered \in InstanceType /\ entered.state = t.to /\ t.to # None
  <2>1. New(t.to) \in InstanceType /\ New(t.to).state = t.to
    BY <1>2, NewIsInstance
  <2>2. out.spilled \in Nat
    BY <1>3 DEF InstanceType
  <2>3. /\ Advanced(New(t.to), out.spilled) \in InstanceType
        /\ Advanced(New(t.to), out.spilled).state = t.to
    BY <2>1, <2>2, AdvancedIsInstance DEF IInv
  <2> QED BY <1>2, <2>1, <2>3, SystemStates
<1>6. OwnedBy(heap[l], ly)
  BY DEF IInv, Owned
<1>7. Free \in InstanceType /\ Free.state = None
  BY DEF Free, InstanceType
<1>8. (t.duration = 0) \in BOOLEAN /\ FALSE \in BOOLEAN
  OBVIOUS
<1> DEFINE done == t.duration = 0
           d == t.duration
<1>9. new = [ly EXCEPT !.current = id, !.from = ly.current, !.transition = i,
                       !.completed = done, !.left = d, !.waiting = FALSE]
  OBVIOUS
<1>10. d \in Nat /\ done \in BOOLEAN /\ FALSE \in BOOLEAN
  BY <1>2
<1> HIDE DEF t, ly, out, id, entered, new, d, done
<1>11. \A w \in BOOLEAN :
         LET n == [ly EXCEPT !.current = id, !.from = ly.current, !.transition = i,
                             !.completed = done, !.left = d, !.waiting = w]
         IN  /\ n \in LayerType
             /\ n.any = ly.any /\ n.current = id /\ n.from = ly.current
             /\ n.transition = i /\ n.left = d
  BY <1>2, <1>3, <1>4, <1>10 DEF LayerType
<1>12. /\ new \in LayerType
       /\ new.any = ly.any /\ new.current = id /\ new.from = ly.current
       /\ new.transition = i /\ new.left = d
  BY <1>9, <1>10, <1>11, Zenon
<1>13. g \in [Ids -> InstanceType]
  BY <1>3, <1>4, <1>5, <1>7
<1>14. \A k \in Ids : g[k] = IF k = id THEN entered
                             ELSE IF k = ly.from THEN Free
                             ELSE heap[l][k]
  BY <1>3, <1>4, SystemStates DEF Ids
<1> HIDE DEF g
<1>15. OwnedBy(g, new)
  BY <1>3, <1>4, <1>5, <1>6, <1>7, <1>12, <1>14 DEF OwnedBy
<1>16. /\ heap'[l] = g /\ layer'[l] = new
       /\ heap' \in [Layers -> [Ids -> InstanceType]]
       /\ layer' \in [Layers -> LayerType]
       /\ \A k \in Layers \ {l} : heap'[k] = heap[k] /\ layer'[k] = layer[k]
  BY <1>1, <1>12, <1>13 DEF IInv, TypeOK
<1> QED BY <1>12, <1>15, <1>16 DEF t, d

(***************************************************************************)
(* Types and ownership                                                     *)
(***************************************************************************)

\* The type invariant in two parts: the layers ...
LayersTyped ==
    /\ machine \in Machines
    /\ heap \in [Layers -> [Ids -> InstanceType]]
    /\ layer \in [Layers -> LayerType]
    /\ \A l \in Layers :
           layer[l].transition # None
               => /\ layer[l].transition \in DOMAIN machine.layers[l]
                  /\ layer[l].left <=
                        machine.layers[l][layer[l].transition].duration

\* ... and everything else.
ControlTyped ==
    /\ on \in BOOLEAN /\ fired \in BOOLEAN /\ used \subseteq Layers
    /\ reported \in BOOLEAN /\ needsAdvance \in BOOLEAN /\ keepGoing \in BOOLEAN
    /\ pc \in {"idle", "advance", "update", "inputs", "nested", "try", "again",
               "passed"}
    /\ turn \in Layers
    /\ seconds \in Frames \cup {0}
    /\ newFrame \in BOOLEAN /\ changed \in BOOLEAN
    /\ count \in 0 .. MaxIterations
    /\ pass \in 0 .. MaxPasses - 1
    /\ exceeded \in BOOLEAN

\* The two parts are all of it.
LEMMA TypeParts == TypeOK <=> LayersTyped /\ ControlTyped
BY DEF TypeOK, LayersTyped, ControlTyped, Transition

\* The constants are numbers.
LEMMA Numbers ==
    /\ NumLayers \in Nat \ {0} /\ Frames \subseteq Nat
    /\ MaxIterations \in Nat /\ MaxPasses \in Nat \ {0}
    /\ 1 \in Layers /\ Layers \subseteq Nat
BY StateMachineAssumption DEF Layers

\* The steps that leave the layers alone.
LEMMA LayersStay ==
    ASSUME IInv, UNCHANGED <<machine, heap, layer>>, ControlTyped'
    PROVE  IInv'
<1>1. LayersTyped'
  BY TypeParts DEF IInv, LayersTyped
<1>2. Owned'
  BY DEF IInv, Owned
<1>3. (LayersTyped /\ ControlTyped)'
  BY <1>1
<1>4. TypeOK'
  BY <1>3, TypeParts, PTL
<1> QED BY <1>2, <1>4 DEF IInv

\* The steps of one layer.
LEMMA LayerSteps ==
    ASSUME IInv, NEW l \in Layers, UNCHANGED machine, ControlTyped',
           heap' \in [Layers -> [Ids -> InstanceType]],
           layer' \in [Layers -> LayerType],
           \A k \in Layers \ {l} : heap'[k] = heap[k] /\ layer'[k] = layer[k],
           OwnedBy(heap'[l], layer'[l]),
           layer'[l].transition # None
               => /\ layer'[l].transition \in DOMAIN machine.layers[l]
                  /\ layer'[l].left <=
                        machine.layers[l][layer'[l].transition].duration
    PROVE  IInv'
<1>1. LayersTyped'
  BY TypeParts DEF IInv, LayersTyped
<1>2. ASSUME NEW k \in Layers PROVE OwnedBy(heap'[k], layer'[k])
  <2>1. CASE k = l
    BY <2>1
  <2>2. CASE k # l
    BY <2>2 DEF IInv, Owned
  <2> QED BY <2>1, <2>2
<1>3. (LayersTyped /\ ControlTyped)'
  BY <1>1
<1>4. TypeOK'
  BY <1>3, TypeParts, PTL
<1>5. Owned'
  BY <1>2 DEF Owned
<1> QED BY <1>4, <1>5 DEF IInv

\* What a listener or the host may do to the inputs.
LEMMA ChangeTypes ==
    ASSUME TypeOK, NEW c, Change(c)
    PROVE  on' \in BOOLEAN /\ fired' \in BOOLEAN /\ used' = used
<1>1. on \in BOOLEAN /\ fired \in BOOLEAN
  BY DEF TypeOK
<1>2. on' \in {TRUE, FALSE, on}
  BY DEF Change
<1>3. fired' = (fired \/ c = "fire")
  BY DEF Change
<1>4. fired' \in BOOLEAN
  BY <1>3
<1> QED BY <1>1, <1>2, <1>4 DEF Change

\* The host sets an input.
LEMMA SetInputTypes ==
    ASSUME IInv, SetInput
    PROVE  IInv'
<1>1. on' \in BOOLEAN /\ fired' \in BOOLEAN /\ used' = used
  BY ChangeTypes DEF SetInput, IInv
<1>2. ControlTyped'
  BY <1>1, TypeParts DEF SetInput, IInv, ControlTyped, frameVars
<1> QED BY <1>2, LayersStay DEF SetInput

\* The events of the last frame are heard.
LEMMA StartFrameTypes ==
    ASSUME IInv, StartFrame
    PROVE  IInv'
<1>1. on' \in BOOLEAN /\ fired' \in BOOLEAN /\ used' = used
  <2>1. CASE reported
    BY <2>1, ChangeTypes DEF StartFrame, IInv
  <2>2. CASE ~reported
    BY <2>2, TypeParts DEF StartFrame, IInv, inputVars, ControlTyped
  <2> QED BY <2>1, <2>2
<1>2. ControlTyped'
  BY <1>1, TypeParts DEF StartFrame, IInv, ControlTyped
<1> QED BY <1>2, LayersStay DEF StartFrame

\* The trigger is taken back.
LEMMA EndAdvanceTypes ==
    ASSUME IInv, EndAdvance
    PROVE  IInv'
<1>1. keepGoing' \in BOOLEAN /\ pc' \in {"nested", "passed"}
  BY DEF EndAdvance
<1>2. ControlTyped'
  BY <1>1, TypeParts DEF EndAdvance, IInv, ControlTyped
<1> QED BY <1>2, LayersStay DEF EndAdvance

\* A nested event changes an input.
LEMMA AdvanceNestedTypes ==
    ASSUME IInv, AdvanceNested
    PROVE  IInv'
<1>1. on' \in BOOLEAN /\ fired' \in BOOLEAN /\ used' = used
  BY ChangeTypes DEF AdvanceNested, IInv
<1>2. keepGoing' \in BOOLEAN /\ needsAdvance' \in BOOLEAN
  BY DEF AdvanceNested
<1>3. ControlTyped'
  BY <1>1, <1>2, TypeParts DEF AdvanceNested, IInv, ControlTyped
<1> QED BY <1>3, LayersStay DEF AdvanceNested

\* The layers are advanced by no time.
LEMMA AdvanceAgainTypes ==
    ASSUME IInv, AdvanceAgain
    PROVE  IInv'
<1>1. ControlTyped'
  BY TypeParts DEF AdvanceAgain, IInv, ControlTyped, inputVars
<1> QED BY <1>1, LayersStay DEF AdvanceAgain

\* There is another pass.
LEMMA NextPassTypes ==
    ASSUME IInv, NextPass
    PROVE  IInv'
<1>1. pass' \in 0 .. MaxPasses - 1
  BY TypeParts, Numbers DEF NextPass, IInv, ControlTyped
<1>2. ControlTyped'
  BY <1>1, TypeParts DEF NextPass, IInv, ControlTyped, inputVars
<1> QED BY <1>2, LayersStay DEF NextPass

\* The frame ends.
LEMMA EndFrameTypes ==
    ASSUME IInv, EndFrame
    PROVE  IInv'
<1>1. 0 \in 0 .. MaxPasses - 1
  BY Numbers
<1>2. keepGoing' \in BOOLEAN
  BY DEF EndFrame
<1>3. ControlTyped'
  BY <1>1, <1>2, TypeParts DEF EndFrame, IInv, ControlTyped, inputVars
<1> QED BY <1>3, LayersStay DEF EndFrame

\* The turn goes to the next layer.
LEMMA NextLayerTypes ==
    ASSUME TypeOK, NextLayer
    PROVE  /\ turn' \in Layers /\ pc' \in {"inputs", "advance"}
           /\ changed' = FALSE /\ count' \in 0 .. MaxIterations
<1>1. turn \in Layers
  BY TypeParts DEF ControlTyped
<1>2. turn' \in Layers
  BY <1>1, Numbers DEF NextLayer, Layers
<1>3. 0 \in 0 .. MaxIterations
  BY Numbers
<1> QED BY <1>2, <1>3 DEF NextLayer

\* What a transition does besides.
LEMMA TakeControl ==
    ASSUME TypeOK, NEW l \in Layers, NEW i, Take(l, i)
    PROVE  reported' \in BOOLEAN /\ used' \subseteq Layers
<1>1. reported' \in BOOLEAN
  BY DEF Take
<1>2. used \subseteq Layers
  BY TypeParts DEF ControlTyped
<1>3. used' = used \/ used' = used \cup {l}
  BY DEF Take, Use
<1> QED BY <1>1, <1>2, <1>3

\* A layer that changes its state.
LEMMA ChangesTypes ==
    ASSUME IInv, NEW l \in Layers, Changes(l), UNCHANGED machine,
           reported' \in BOOLEAN /\ used' \subseteq Layers => ControlTyped'
    PROVE  IInv'
<1>1. PICK i \in DOMAIN machine.layers[l] : Take(l, i)
  BY ChangesTakes
<1>2. ControlTyped'
  BY <1>1, TakeControl DEF IInv
<1>3. machine.layers[l][i].duration \in Nat
  BY MachineTypes DEF IInv
<1>4. /\ heap' \in [Layers -> [Ids -> InstanceType]]
      /\ layer' \in [Layers -> LayerType]
      /\ \A k \in Layers \ {l} : heap'[k] = heap[k] /\ layer'[k] = layer[k]
      /\ layer'[l].transition = i
      /\ layer'[l].left = machine.layers[l][i].duration
      /\ OwnedBy(heap'[l], layer'[l])
  BY <1>1, TakeEffect
<1> QED BY <1>2, <1>3, <1>4, LayerSteps

\* A layer changes its state in its turn.
LEMMA ChangeStateTypes ==
    ASSUME IInv, ChangeState
    PROVE  IInv'
<1>1. turn \in Layers /\ machine' = machine /\ Changes(turn)
  BY TypeParts DEF ChangeState, IInv, ControlTyped
<1>2. /\ turn' \in Layers /\ pc' \in {"inputs", "advance", "update"}
      /\ changed' \in BOOLEAN /\ count' \in 0 .. MaxIterations
      /\ exceeded' \in BOOLEAN
  <2>1. CASE count = MaxIterations
    <3>1. NextLayer /\ exceeded' = TRUE
      BY <2>1 DEF ChangeState
    <3> QED BY <3>1, NextLayerTypes DEF IInv
  <2>2. CASE count # MaxIterations
    <3>1. /\ changed' = TRUE /\ count' = count + 1
          /\ UNCHANGED <<turn, pc, exceeded>> /\ pc = "update"
      BY <2>2 DEF ChangeState
    <3>2. count \in 0 .. MaxIterations /\ exceeded \in BOOLEAN
      BY TypeParts DEF IInv, ControlTyped
    <3> QED BY <1>1, <2>2, <3>1, <3>2, Numbers
  <2> QED BY <2>1, <2>2
<1>3. /\ on' = on /\ fired' = fired /\ needsAdvance' = needsAdvance
      /\ keepGoing' = keepGoing /\ seconds' = seconds /\ newFrame' = newFrame
      /\ pass' = pass
  BY DEF ChangeState
<1>4. reported' \in BOOLEAN /\ used' \subseteq Layers => ControlTyped'
  BY <1>2, <1>3, TypeParts DEF IInv, ControlTyped
<1> QED BY <1>1, <1>4, ChangesTypes

\* A layer of which only the mark that it waits for an exit time may change.
LEMMA StaysEffect ==
    ASSUME IInv, NEW l \in Layers, Stays(l)
    PROVE  /\ layer' \in [Layers -> LayerType]
           /\ \A k \in Layers \ {l} : layer'[k] = layer[k]
           /\ layer'[l].any = layer[l].any
           /\ layer'[l].current = layer[l].current
           /\ layer'[l].from = layer[l].from
           /\ layer'[l].transition = layer[l].transition
           /\ layer'[l].left = layer[l].left
<1>1. layer \in [Layers -> LayerType]
  BY TypeParts DEF IInv, LayersTyped
<1>2. CASE layer' = layer
  BY <1>1, <1>2
<1>3. CASE ~Blocked(l)
  <2> DEFINE w == Waits(l, heap[l][layer[l].any]) \/ Waits(l, Current(l))
  <2>1. layer' = [layer EXCEPT ![l].waiting = w]
    BY <1>3 DEF Stays
  <2>2. w \in BOOLEAN
    OBVIOUS
  <2> HIDE DEF w
  <2>3. layer[l] \in LayerType
    BY <1>1
  <2>4. /\ [layer[l] EXCEPT !.waiting = w] \in LayerType
        /\ [layer[l] EXCEPT !.waiting = w].any = layer[l].any
        /\ [layer[l] EXCEPT !.waiting = w].current = layer[l].current
        /\ [layer[l] EXCEPT !.waiting = w].from = layer[l].from
        /\ [layer[l] EXCEPT !.waiting = w].transition = layer[l].transition
        /\ [layer[l] EXCEPT !.waiting = w].left = layer[l].left
    BY <2>2, <2>3 DEF LayerType
  <2>5. layer' = [layer EXCEPT ![l] = [layer[l] EXCEPT !.waiting = w]]
    BY <2>1
  <2> QED BY <1>1, <2>4, <2>5
<1> QED BY <1>2, <1>3 DEF Stays

\* The transition a layer is in has a duration no shorter than what is left.
LEMMA LeftBound ==
    ASSUME IInv, NEW l \in Layers, layer[l].transition # None
    PROVE  /\ layer[l].transition \in DOMAIN machine.layers[l]
           /\ layer[l].left <= Transition(l).duration
           /\ Transition(l).duration \in Nat
           /\ layer[l].left \in Nat
BY TypeParts, MachineTypes, LayerTypes DEF IInv, TypeOK, Transition

\* A layer ends its turn.
LEMMA EndLayerTypes ==
    ASSUME IInv, EndLayer
    PROVE  IInv'
<1> DEFINE l == turn
           x == Current(l)
           y == [x EXCEPT !.spilled = 0]
<1>1. l \in Layers /\ machine' = machine /\ Stays(l) /\ NextLayer
  BY TypeParts DEF EndLayer, IInv, ControlTyped
<1>2. /\ layer' \in [Layers -> LayerType]
      /\ \A k \in Layers \ {l} : layer'[k] = layer[k]
      /\ layer'[l].any = layer[l].any
      /\ layer'[l].current = layer[l].current
      /\ layer'[l].from = layer[l].from
      /\ layer'[l].transition = layer[l].transition
      /\ layer'[l].left = layer[l].left
  BY <1>1, StaysEffect
<1>3. /\ layer[l].current \in Ids /\ layer[l].any \in Ids
      /\ x = heap[l][layer[l].current]
      /\ x \in InstanceType
      /\ heap[l] \in [Ids -> InstanceType]
  BY <1>1, LayerTypes DEF IInv
<1>4. y \in InstanceType /\ y.state = x.state
  BY <1>3, StillInstance
<1>5. heap \in [Layers -> [Ids -> InstanceType]]
  BY TypeParts DEF IInv, LayersTyped
<1>6. heap' = [heap EXCEPT ![l] = [heap[l] EXCEPT ![layer[l].current] = y]]
  BY <1>1, <1>3, <1>5 DEF EndLayer
<1> HIDE DEF y, x
<1>7. /\ heap' \in [Layers -> [Ids -> InstanceType]]
      /\ \A k \in Layers \ {l} : heap'[k] = heap[k]
      /\ \A id \in Ids : heap'[l][id] =
             IF id = layer[l].current THEN y ELSE heap[l][id]
  BY <1>1, <1>3, <1>4, <1>5, <1>6
<1>8. OwnedBy(heap[l], layer[l])
  BY <1>1 DEF IInv, Owned
<1>9. OwnedBy(heap'[l], layer'[l])
  BY <1>2, <1>3, <1>4, <1>7, <1>8 DEF OwnedBy
<1>10. /\ turn' \in Layers /\ pc' \in {"inputs", "advance"}
       /\ changed' = FALSE /\ count' \in 0 .. MaxIterations
  BY <1>1, NextLayerTypes DEF IInv
<1>11. needsAdvance' \in BOOLEAN
  BY DEF EndLayer
<1>12. UNCHANGED <<on, fired, used, reported, keepGoing, seconds, newFrame, pass, exceeded>>
  BY DEF EndLayer, inputVars
<1>13. ControlTyped'
  BY <1>10, <1>11, <1>12, TypeParts DEF IInv, ControlTyped
<1>14. layer'[l].transition # None
               => /\ layer'[l].transition \in DOMAIN machine.layers[l]
                  /\ layer'[l].left <=
                        machine.layers[l][layer'[l].transition].duration
  BY <1>1, <1>2, TypeParts DEF IInv, LayersTyped
<1> HIDE DEF l
<1> QED BY <1>1, <1>2, <1>7, <1>9, <1>13, <1>14, LayerSteps

\* A layer is tried after the inputs have changed.
LEMMA TryChangeStateTypes ==
    ASSUME IInv, TryChangeState
    PROVE  IInv'
<1>1. /\ turn \in Layers /\ machine' = machine
      /\ UNCHANGED <<on, fired, needsAdvance, keepGoing, seconds, newFrame,
                     count, pass, exceeded>>
      /\ turn' = IF turn = NumLayers THEN 1 ELSE turn + 1
      /\ pc' \in {"try", "again", "passed"}
  BY TypeParts DEF TryChangeState, IInv, ControlTyped
<1>2. turn' \in Layers
  BY <1>1, Numbers DEF Layers
<1>3. CASE Changes(turn) /\ changed' = TRUE
  <2>1. reported' \in BOOLEAN /\ used' \subseteq Layers => ControlTyped'
    BY <1>1, <1>2, <1>3, TypeParts DEF IInv, ControlTyped
  <2> QED BY <1>1, <1>3, <2>1, ChangesTypes
<1>4. CASE Stays(turn) /\ UNCHANGED <<heap, used, reported, changed>>
  <2>1. ControlTyped'
    BY <1>1, <1>2, <1>4, TypeParts DEF IInv, ControlTyped
  <2>2. /\ layer' \in [Layers -> LayerType]
        /\ \A k \in Layers \ {turn} : layer'[k] = layer[k]
        /\ layer'[turn].any = layer[turn].any
        /\ layer'[turn].current = layer[turn].current
        /\ layer'[turn].from = layer[turn].from
        /\ layer'[turn].transition = layer[turn].transition
        /\ layer'[turn].left = layer[turn].left
    BY <1>1, <1>4, StaysEffect
  <2>3. OwnedBy(heap[turn], layer[turn])
    BY <1>1 DEF IInv, Owned
  <2>4. OwnedBy(heap'[turn], layer'[turn])
    BY <1>4, <2>2, <2>3 DEF OwnedBy
  <2>5. layer'[turn].transition # None
               => /\ layer'[turn].transition \in DOMAIN machine.layers[turn]
                  /\ layer'[turn].left <=
                        machine.layers[turn][layer'[turn].transition].duration
    BY <1>1, <2>2, TypeParts DEF IInv, LayersTyped
  <2>6. heap' \in [Layers -> [Ids -> InstanceType]] /\ heap' = heap
    BY <1>4, TypeParts DEF IInv, LayersTyped
  <2> QED BY <1>1, <2>1, <2>2, <2>4, <2>5, <2>6, LayerSteps
<1> QED BY <1>3, <1>4 DEF TryChangeState

\* A layer begins its turn: its clock and its mix go on.
LEMMA AdvanceLayerTypes ==
    ASSUME IInv, AdvanceLayer
    PROVE  IInv'
<1> DEFINE l == turn
           ly == layer[l]
           mixing == ly.transition # None /\ Mixing(ly, Transition(l))
           left == IF mixing /\ ly.left > seconds THEN ly.left - seconds ELSE 0
           ends == mixing /\ left = 0 /\ ~ly.completed
           completed == ly.completed \/ ends
           x == heap[l][ly.current]
           y == Advanced(x, seconds)
           new == [ly EXCEPT !.left = left, !.completed = completed]
<1>1. l \in Layers /\ machine' = machine /\ seconds \in Nat
  BY TypeParts, Numbers DEF AdvanceLayer, IInv, ControlTyped
<1>2. /\ ly \in LayerType
      /\ ly.current \in Ids /\ ly.any \in Ids
      /\ ly.left \in Nat
      /\ x \in InstanceType
      /\ heap[l] \in [Ids -> InstanceType]
  BY <1>1, LayerTypes DEF IInv
<1>3. y \in InstanceType /\ y.state = x.state
  BY <1>1, <1>2, AdvancedIsInstance DEF IInv
<1>4. /\ heap \in [Layers -> [Ids -> InstanceType]]
      /\ layer \in [Layers -> LayerType]
  BY TypeParts DEF IInv, LayersTyped
<1>5. heap' = [heap EXCEPT ![l] = [heap[l] EXCEPT ![ly.current] = y]]
  BY <1>1, <1>2, <1>4 DEF AdvanceLayer
<1>6. layer' = [layer EXCEPT ![l] = new]
  BY Zenon DEF AdvanceLayer
<1>7. left \in Nat /\ left <= ly.left
  BY <1>1, <1>2
<1>8. completed \in BOOLEAN
  OBVIOUS
<1>9. reported' \in BOOLEAN /\ pc' = "update"
  BY DEF AdvanceLayer
<1>10. UNCHANGED <<on, fired, used, needsAdvance, keepGoing, turn, seconds,
                   newFrame, changed, count, pass, exceeded>>
  BY DEF AdvanceLayer, inputVars
<1>11. ControlTyped'
  BY <1>9, <1>10, TypeParts DEF IInv, ControlTyped
<1>12. OwnedBy(heap[l], ly)
  BY <1>1 DEF IInv, Owned
<1> HIDE DEF left, completed, y, x
<1>13. /\ new \in LayerType
       /\ new.any = ly.any /\ new.current = ly.current /\ new.from = ly.from
       /\ new.transition = ly.transition /\ new.left = left
  <2>1. ASSUME NEW c \in BOOLEAN
        PROVE  LET n == [ly EXCEPT !.left = left, !.completed = c]
               IN  /\ n \in LayerType
                   /\ n.any = ly.any /\ n.current = ly.current /\ n.from = ly.from
                   /\ n.transition = ly.transition /\ n.left = left
    BY <1>2, <1>7 DEF LayerType
  <2> QED BY <1>8, <2>1, Zenon
<1> HIDE DEF new
<1>14. /\ heap' \in [Layers -> [Ids -> InstanceType]]
       /\ \A k \in Layers \ {l} : heap'[k] = heap[k]
       /\ \A id \in Ids : heap'[l][id] =
              IF id = ly.current THEN y ELSE heap[l][id]
  BY <1>1, <1>2, <1>3, <1>4, <1>5
<1>15. /\ layer' \in [Layers -> LayerType]
       /\ layer'[l] = new
       /\ \A k \in Layers \ {l} : layer'[k] = layer[k]
  BY <1>1, <1>4, <1>6, <1>13
<1>16. OwnedBy(heap'[l], layer'[l])
  BY <1>2, <1>3, <1>12, <1>13, <1>14, <1>15 DEF OwnedBy, x
<1>17. layer'[l].transition # None
               => /\ layer'[l].transition \in DOMAIN machine.layers[l]
                  /\ layer'[l].left <=
                        machine.layers[l][layer'[l].transition].duration
  <2> SUFFICES ASSUME ly.transition # None
               PROVE  /\ ly.transition \in DOMAIN machine.layers[l]
                      /\ left <= machine.layers[l][ly.transition].duration
    BY <1>13, <1>15
  <2>1. /\ ly.transition \in DOMAIN machine.layers[l]
        /\ ly.left <= machine.layers[l][ly.transition].duration
        /\ machine.layers[l][ly.transition].duration \in Nat
    BY <1>1, LeftBound DEF Transition
  <2> QED BY <1>2, <1>7, <2>1
<1> HIDE DEF l
<1> QED BY <1>1, <1>11, <1>14, <1>15, <1>16, <1>17, LayerSteps

\* The states are deleted, entry states take their place.
LEMMA ResetStateTypes ==
    ASSUME IInv, ResetState
    PROVE  IInv'
<1>1. /\ machine' = machine
      /\ heap' = [l \in Layers |-> [id \in Ids |->
                   IF id = layer[l].current THEN New(EntryState)
                   ELSE IF id = layer[l].from THEN Free
                   ELSE heap[l][id]]]
      /\ layer' = [l \in Layers |-> [layer[l] EXCEPT !.from = None]]
      /\ keepGoing' = TRUE
      /\ UNCHANGED <<on, fired, used, reported, needsAdvance, pc, turn, seconds,
                     newFrame, changed, count, pass, exceeded>>
  BY DEF ResetState, inputVars, frameVars
<1>2. ControlTyped'
  BY <1>1, TypeParts DEF IInv, ControlTyped
<1>3. New(EntryState) \in InstanceType /\ New(EntryState).state = EntryState
      /\ EntryState # None
  BY NewIsInstance, SystemStates
<1>4. Free \in InstanceType /\ Free.state = None
  BY DEF Free, InstanceType
<1>5. ASSUME NEW l \in Layers
      PROVE  /\ heap'[l] \in [Ids -> InstanceType]
             /\ layer'[l] \in LayerType
             /\ OwnedBy(heap'[l], layer'[l])
             /\ layer'[l].transition = layer[l].transition
             /\ layer'[l].left = layer[l].left
  <2>1. /\ layer[l] \in LayerType
        /\ layer[l].any \in Ids /\ layer[l].current \in Ids
        /\ heap[l] \in [Ids -> InstanceType]
    BY LayerTypes DEF IInv
  <2>2. layer'[l] = [layer[l] EXCEPT !.from = None]
    BY <1>1
  <2>3. \A id \in Ids : heap'[l][id] =
            IF id = layer[l].current THEN New(EntryState)
            ELSE IF id = layer[l].from THEN Free
            ELSE heap[l][id]
    BY <1>1
  <2>4. heap'[l] \in [Ids -> InstanceType]
    <3>1. heap'[l] = [id \in Ids |->
                   IF id = layer[l].current THEN New(EntryState)
                   ELSE IF id = layer[l].from THEN Free
                   ELSE heap[l][id]]
      BY <1>1
    <3> QED BY <1>3, <1>4, <2>1, <3>1
  <2>5. /\ layer'[l] \in LayerType
        /\ layer'[l].any = layer[l].any
        /\ layer'[l].current = layer[l].current
        /\ layer'[l].from = None
        /\ layer'[l].transition = layer[l].transition
        /\ layer'[l].left = layer[l].left
    BY <2>1, <2>2 DEF LayerType
  <2>6. OwnedBy(heap[l], layer[l])
    BY DEF IInv, Owned
  <2>7. None \notin Ids
    BY SystemStates DEF Ids
  <2>8. OwnedBy(heap'[l], layer'[l])
    BY <1>3, <1>4, <2>1, <2>3, <2>5, <2>6, <2>7 DEF OwnedBy
  <2> QED BY <2>4, <2>5, <2>8
<1>6. /\ heap' \in [Layers -> [Ids -> InstanceType]]
      /\ layer' \in [Layers -> LayerType]
  <2>1. heap' = [l \in Layers |-> heap'[l]] /\ layer' = [l \in Layers |-> layer'[l]]
    BY <1>1
  <2> QED BY <1>5, <2>1
<1>7. LayersTyped'
  BY <1>1, <1>5, <1>6, TypeParts DEF IInv, LayersTyped
<1>8. (LayersTyped /\ ControlTyped)'
  BY <1>2, <1>7
<1>9. TypeOK'
  BY <1>8, TypeParts, PTL
<1>10. Owned'
  BY <1>5 DEF Owned
<1> QED BY <1>9, <1>10 DEF IInv

\* In the beginning every layer is in its entry state.
LEMMA InitTypes ==
    ASSUME Init
    PROVE  IInv
<1>1. /\ heap = [l \in Layers |-> InitialHeap]
      /\ layer = [l \in Layers |-> InitialLayer]
  BY DEF Init
<1>2. InitialLayer \in LayerType
  <2>1. FALSE \in BOOLEAN
    OBVIOUS
  <2> QED BY <2>1 DEF InitialLayer, LayerType, Ids
<1>3. /\ New(AnyState) \in InstanceType /\ New(AnyState).state = AnyState
      /\ New(EntryState) \in InstanceType /\ New(EntryState).state = EntryState
      /\ AnyState # None /\ EntryState # None
  BY NewIsInstance, SystemStates
<1>4. Free \in InstanceType /\ Free.state = None
  BY DEF Free, InstanceType
<1>5. InitialHeap \in [Ids -> InstanceType]
  BY <1>3, <1>4 DEF InitialHeap
<1>6. /\ InitialLayer.any = 1 /\ InitialLayer.current = 2 /\ InitialLayer.from = None
      /\ InitialLayer.transition = None
  BY DEF InitialLayer
<1>7. OwnedBy(InitialHeap, InitialLayer)
  <2>1. 1 \in Ids /\ 2 \in Ids /\ None \notin Ids /\ None # 1 /\ None # 2
    BY SystemStates DEF Ids
  <2>2. \A id \in Ids : InitialHeap[id] = IF id = 1 THEN New(AnyState)
                               ELSE IF id = 2 THEN New(EntryState)
                               ELSE Free
    BY DEF InitialHeap
  <2> QED BY <1>3, <1>4, <1>6, <2>1, <2>2 DEF OwnedBy
<1>8. LayersTyped
  BY <1>1, <1>2, <1>5, <1>6 DEF Init, LayersTyped
<1>9. ControlTyped
  <2>1. 0 \in 0 .. MaxIterations /\ 0 \in 0 .. MaxPasses - 1 /\ 1 \in Layers
    BY Numbers
  <2> QED BY <2>1 DEF Init, ControlTyped
<1>10. Owned
  BY <1>1, <1>7 DEF Owned
<1> QED BY <1>8, <1>9, <1>10, TypeParts DEF IInv

\* Every step keeps types and ownership.
LEMMA NextTypes ==
    ASSUME IInv, [Next]_vars
    PROVE  IInv'
<1>1. CASE UNCHANGED vars
  <2>1. ControlTyped'
    BY <1>1, TypeParts DEF IInv, ControlTyped, vars, inputVars, frameVars
  <2> QED BY <1>1, <2>1, LayersStay DEF vars
<1> QED BY <1>1, SetInputTypes, ResetStateTypes, StartFrameTypes, NextPassTypes,
           AdvanceLayerTypes, ChangeStateTypes, EndLayerTypes, EndAdvanceTypes,
           AdvanceNestedTypes, TryChangeStateTypes, AdvanceAgainTypes,
           EndFrameTypes
        DEF Next, Frame

(***************************************************************************)
(* What is due                                                             *)
(***************************************************************************)

\* The instance of the any state, and whether the current one waits.
AnyInstance(l) == heap[l][layer[l].any]
WaitsNow(l) == Waits(l, Current(l))

\* The conditions that hold for a layer.
Holding(l) ==
    {w \in {"always", "trigger", "true", "false"} :
        \/ w = "always"
        \/ w = "trigger" /\ fired /\ l \notin used
        \/ w = "true" /\ on
        \/ w = "false" /\ ~on}

\* Of the transitions ts those that lead from state s to another than c under
\* the conditions w, and those whose exit time has not come.
Ready(ts, s, c, w) ==
    {i \in DOMAIN ts : ts[i].from = s /\ ts[i].to # c /\ ts[i].when \in w}
Early(ts, s, total) ==
    {i \in DOMAIN ts : ts[i].exit # None /\ s \in Animations /\ total < ts[i].exit}

\* Whether one of them is due, for the instances a and c.
DueIn(ts, random, a, c, w) ==
    \/ /\ Ready(ts, a.state, c.state, w) \ Early(ts, a.state, a.total) # {}
       /\ a.state \notin random
    \/ /\ Ready(ts, c.state, c.state, w) \ Early(ts, c.state, c.total) # {}
       /\ c.state \notin random

\* Whether the current instance waits for an exit time.
WaitsIn(ts, c, w) ==
    Ready(ts, c.state, c.state, w) \cap Early(ts, c.state, c.total) # {}

\* Whether a transition is due depends on what the instances and the inputs
\* look like.
LEMMA Snapshot ==
    ASSUME NEW l
    PROVE  /\ Due(l) <=> DueIn(machine.layers[l], machine.random, AnyInstance(l),
                               Current(l), Holding(l))
           /\ WaitsNow(l) <=> WaitsIn(machine.layers[l], Current(l), Holding(l))
<1>1. \A t : Evaluate(l, t) <=> t.when \in Holding(l)
  BY DEF Evaluate, Holding
<1>2. ASSUME NEW x
      PROVE  /\ AllowedNow(l, x) =
                  Ready(machine.layers[l], x.state, Current(l).state, Holding(l))
                  \ Early(machine.layers[l], x.state, x.total)
             /\ Waits(l, x) <=>
                  Ready(machine.layers[l], x.state, Current(l).state, Holding(l))
                  \cap Early(machine.layers[l], x.state, x.total) # {}
  <2> DEFINE ts == machine.layers[l]
  <2>1. ASSUME NEW i \in DOMAIN ts
        PROVE  /\ Verdict(l, x, i) = "yes" <=>
                    Evaluate(l, ts[i]) /\ i \notin Early(ts, x.state, x.total)
               /\ Verdict(l, x, i) = "waitingForExit" <=>
                    Evaluate(l, ts[i]) /\ i \in Early(ts, x.state, x.total)
    BY DEF Verdict, Allowed, Early
  <2>2. \A i : i \in Candidates(l, x) <=>
            i \in DOMAIN ts /\ ts[i].from = x.state /\ ts[i].to # Current(l).state
    BY DEF Candidates
  <2>3. \A i : i \in Ready(ts, x.state, Current(l).state, Holding(l)) <=>
            i \in Candidates(l, x) /\ Evaluate(l, ts[i])
    BY <1>1, <2>2 DEF Ready
  <2>4. \A i : i \in AllowedNow(l, x) <=> i \in Candidates(l, x) /\ Verdict(l, x, i) = "yes"
    BY DEF AllowedNow
  <2>5. Waits(l, x) <=> \E i \in Candidates(l, x) : Verdict(l, x, i) = "waitingForExit"
    BY DEF Waits
  <2> QED BY <2>1, <2>2, <2>3, <2>4, <2>5
<1>3. Due(l) <=> DueIn(machine.layers[l], machine.random, AnyInstance(l),
                       Current(l), Holding(l))
  BY <1>2 DEF Due, DueIn, AnyInstance
<1>4. WaitsNow(l) <=> WaitsIn(machine.layers[l], Current(l), Holding(l))
  BY <1>2 DEF WaitsNow, WaitsIn
<1> QED BY <1>3, <1>4

\* The same of the state after a step.
LEMMA SnapshotLater ==
    ASSUME NEW l
    PROVE  /\ Due(l)' <=> DueIn(machine'.layers[l], machine'.random,
                                AnyInstance(l)', Current(l)', Holding(l)')
           /\ WaitsNow(l)' <=> WaitsIn(machine'.layers[l], Current(l)', Holding(l)')
<1> DEFINE Now == /\ Due(l) <=> DueIn(machine.layers[l], machine.random,
                                      AnyInstance(l), Current(l), Holding(l))
                  /\ WaitsNow(l) <=> WaitsIn(machine.layers[l], Current(l), Holding(l))
<1>1. Now
  BY Snapshot
<1>2. Now'
  BY <1>1, PTL
<1> QED BY <1>2

\* A transition that is due after a step that touches neither the states and
\* clocks of a layer nor lets a condition come to hold was due before it.
LEMMA NothingNewIsDue ==
    ASSUME NEW l, machine' = machine,
           AnyInstance(l)'.state = AnyInstance(l).state,
           AnyInstance(l)'.total = AnyInstance(l).total,
           Current(l)'.state = Current(l).state,
           Current(l)'.total = Current(l).total,
           Holding(l)' \subseteq Holding(l)
    PROVE  (Due(l)' => Due(l)) /\ (WaitsNow(l)' => WaitsNow(l))
<1> DEFINE ts == machine.layers[l]
           a == AnyInstance(l)
           c == Current(l)
           b == AnyInstance(l)'
           d == Current(l)'
           w == Holding(l)
           v == Holding(l)'
<1>3. /\ Due(l)' <=> DueIn(ts, machine.random, b, d, v)
      /\ WaitsNow(l)' <=> WaitsIn(ts, d, v)
  BY SnapshotLater
<1>4. /\ Due(l) <=> DueIn(ts, machine.random, a, c, w)
      /\ WaitsNow(l) <=> WaitsIn(ts, c, w)
  BY Snapshot
<1> HIDE DEF a, b, c, d, w, v, ts
<1>5. /\ b.state = a.state /\ b.total = a.total
      /\ d.state = c.state /\ d.total = c.total /\ v \subseteq w
  BY DEF a, b, c, d, w, v
<1>6. \A s, e : Ready(ts, s, e, v) \subseteq Ready(ts, s, e, w)
  BY <1>5 DEF Ready
<1>7. WaitsIn(ts, d, v) => WaitsIn(ts, c, w)
  BY <1>5, <1>6 DEF WaitsIn
<1>8. DueIn(ts, machine.random, b, d, v) => DueIn(ts, machine.random, a, c, w)
  BY <1>5, <1>6 DEF DueIn
<1> QED BY <1>3, <1>4, <1>7, <1>8

\* A layer that has nothing left to do but, at most, wait for an exit time.
Rests(l) == layer[l].left = 0 /\ ~Current(l).keep
\* A layer that has had its turn.
Tried(l) == Blocked(l) \/ ~Due(l)
\* A layer that needs no further frame.
Finished(l) == Rests(l) /\ ~Due(l) /\ ~WaitsNow(l)

\* A step that does not touch a layer and fires no trigger for it.
LEMMA Untouched ==
    ASSUME NEW l, machine' = machine, heap'[l] = heap[l], layer'[l] = layer[l],
           on' = on, fired' => fired, l \notin used' => l \notin used \/ ~fired'
    PROVE  /\ Rests(l)' <=> Rests(l)
           /\ Due(l)' => Due(l)
           /\ WaitsNow(l)' => WaitsNow(l)
           /\ Tried(l) => Tried(l)'
           /\ Finished(l) => Finished(l)'
<1>1. AnyInstance(l)' = AnyInstance(l) /\ Current(l)' = Current(l)
  BY DEF AnyInstance, Current, At, Free
<1>2. Holding(l)' \subseteq Holding(l)
  BY DEF Holding
<1>3. (Due(l)' => Due(l)) /\ (WaitsNow(l)' => WaitsNow(l))
  BY <1>1, <1>2, NothingNewIsDue
<1>4. Blocked(l)' <=> Blocked(l)
  BY DEF Blocked, IsTransitioning, Transition, Mixing
<1>5. Rests(l)' <=> Rests(l)
  <2>1. Current(l)'.keep = Current(l).keep
    BY <1>1
  <2> QED BY <2>1 DEF Rests
<1> QED BY <1>3, <1>4, <1>5 DEF Tried, Finished

\* No transition is selected although none is chosen at random.
LEMMA NoneSelected ==
    ASSUME IInv, NEW l \in Layers, NEW x, None \in Selected(l, x),
           x.state \notin machine.random
    PROVE  AllowedNow(l, x) = {}
<1>1. None \notin AllowedNow(l, x)
  BY SelectedIsTransition, MachineTypes, SystemStates DEF IInv
<1> QED BY <1>1 DEF Selected

\* A layer that stays in its state has no transition that is due, unless one
\* that may not be interrupted is under way.
LEMMA StaysSettles ==
    ASSUME IInv, NEW l \in Layers, Stays(l)
    PROVE  /\ Tried(l)
           /\ ~Blocked(l) => /\ ~Due(l)
                             /\ WaitsNow(l) => layer'[l].waiting
<1>1. CASE Blocked(l)
  BY <1>1 DEF Tried
<1>2. CASE ~Blocked(l)
  <2>1. /\ None \in Selected(l, heap[l][layer[l].any])
        /\ None \in Selected(l, Current(l))
        /\ layer' = [layer EXCEPT ![l].waiting =
              Waits(l, heap[l][layer[l].any]) \/ Waits(l, Current(l))]
    BY <1>2 DEF Stays
  <2>2. ~Due(l)
    BY <2>1, NoneSelected DEF Due
  <2>3. ASSUME WaitsNow(l) PROVE layer'[l].waiting
    <3>1. layer \in [Layers -> LayerType] /\ layer[l] \in LayerType
      BY LayerTypes DEF IInv, TypeOK
    <3>2. layer' = [layer EXCEPT ![l].waiting = TRUE]
      <4>1. (Waits(l, heap[l][layer[l].any]) \/ Waits(l, Current(l))) = TRUE
        BY <2>3 DEF WaitsNow
      <4> QED BY <2>1, <4>1, Zenon
    <3>3. layer'[l] = [layer[l] EXCEPT !.waiting = TRUE]
      BY <3>1, <3>2
    <3>4. layer'[l].waiting = TRUE
      BY <3>1, <3>3 DEF LayerType
    <3> QED BY <3>4
  <2> QED BY <1>2, <2>2, <2>3 DEF Tried
<1> QED BY <1>1, <1>2

(***************************************************************************)
(* What the host is told                                                   *)
(***************************************************************************)

\* Where no layer has its turn, and where the layers take turns.
Between == {"idle", "inputs", "nested", "passed", "again"}
Advancing == {"advance", "update", "inputs"}

\* The layers that have had their turn.
Done(l) == pc = "inputs" \/ l < turn

\* The first layer is the first.
TurnInOrder == pc \in Between => turn = 1

\* The layers that have had their turn have used what the trigger allows.
TriggersUsed ==
    pc \in Advancing /\ ~exceeded =>
        \A l \in Layers : Done(l) => Tried(l)

\* If none has asked for another frame, they need none.
LayersSettled ==
    pc \in Advancing /\ newFrame /\ ~needsAdvance /\ ~exceeded =>
        \A l \in Layers : Done(l) => Finished(l)

\* Nor do they when the host has not been told to go on,
NestedSettled ==
    pc = "nested" /\ ~keepGoing /\ ~exceeded =>
        /\ ~reported /\ ~needsAdvance
        /\ \A l \in Layers : Finished(l)

\* nor after a nested artboard has changed an input and they were tried,
TriesSettled ==
    pc = "try" /\ ~keepGoing /\ ~exceeded /\ ~changed =>
        /\ ~reported
        /\ \A l \in Layers : /\ Rests(l)
                             /\ WaitsNow(l) => needsAdvance
                             /\ l < turn => ~Due(l)

\* nor at the end of the frame.
FrameSettled ==
    pc \in {"passed", "idle"} /\ ~keepGoing /\ ~exceeded =>
        /\ ~reported
        /\ \A l \in Layers : /\ Rests(l)
                             /\ WaitsNow(l) => needsAdvance
                             /\ ~Due(l)

\* The second invariant.
Settled ==
    /\ TurnInOrder /\ TriggersUsed /\ LayersSettled
    /\ NestedSettled /\ TriesSettled /\ FrameSettled

\* After the last layer come the inputs, after another the next layer.
LEMMA NextLayerDone ==
    ASSUME IInv, NextLayer
    PROVE  /\ TurnInOrder' /\ pc' \in {"inputs", "advance"}
           /\ \A l \in Layers : Done(l)' => l = turn \/ l < turn
<1>1. turn \in 1 .. NumLayers /\ NumLayers \in Nat
  BY TypeParts, StateMachineAssumption DEF IInv, ControlTyped, Layers
<1>2. TurnInOrder'
  BY DEF NextLayer, TurnInOrder, Between
<1>3. ASSUME NEW l \in Layers, Done(l)'
      PROVE  l = turn \/ l < turn
  <2>1. l \in 1 .. NumLayers
    BY DEF Layers
  <2>2. CASE turn = NumLayers
    BY <1>1, <2>1, <2>2
  <2>3. CASE turn # NumLayers
    <3>1. turn' = turn + 1 /\ pc' = "advance"
      BY <2>3 DEF NextLayer
    <3>2. l < turn + 1
      BY <1>3, <3>1 DEF Done
    <3> QED BY <1>1, <2>1, <3>2
  <2> QED BY <2>2, <2>3
<1> QED BY <1>2, <1>3 DEF NextLayer

\* The steps after which the host is told to go on, or after which no layer has
\* had its turn.
LEMMA GoesOn ==
    ASSUME TurnInOrder', pc' = "idle" \/ pc' = "passed" \/ pc' = "try" \/ pc' = "nested",
           keepGoing' = TRUE
    PROVE  Settled'
BY DEF Settled, TriggersUsed, LayersSettled, NestedSettled, TriesSettled, FrameSettled, Advancing

\* The first layer begins.
LEMMA FirstLayer ==
    ASSUME IInv, TurnInOrder', pc' = "advance", turn' = 1
    PROVE  Settled'
<1>1. \A l \in Layers : ~(l < 1)
  BY Numbers DEF Layers
<1>2. \A l \in Layers : ~Done(l)'
  BY <1>1 DEF Done
<1>3. TriggersUsed' /\ LayersSettled'
  BY <1>2 DEF TriggersUsed, LayersSettled
<1> QED BY <1>3 DEF Settled, NestedSettled, TriesSettled, FrameSettled

\* The host is to go on after it has set an input.
LEMMA SetInputSettles ==
    ASSUME IInv, Settled, SetInput
    PROVE  Settled'
<1>1. pc' = "idle" /\ pc = "idle" /\ turn' = turn /\ keepGoing' = TRUE
  BY DEF SetInput, frameVars
<1>2. TurnInOrder'
  BY <1>1 DEF Settled, TurnInOrder, Between
<1> QED BY <1>1, <1>2, GoesOn

\* It is to go on after a reset.
LEMMA ResetStateSettles ==
    ASSUME IInv, Settled, ResetState
    PROVE  Settled'
<1>1. pc' = "idle" /\ pc = "idle" /\ turn' = turn /\ keepGoing' = TRUE
  BY DEF ResetState, frameVars
<1>2. TurnInOrder'
  BY <1>1 DEF Settled, TurnInOrder, Between
<1> QED BY <1>1, <1>2, GoesOn

\* A frame begins.
LEMMA StartFrameSettles ==
    ASSUME IInv, Settled, StartFrame
    PROVE  Settled'
<1>1. pc' = "advance" /\ turn' = 1
  BY DEF StartFrame, Settled, TurnInOrder, Between
<1>2. TurnInOrder'
  BY <1>1 DEF TurnInOrder, Between
<1> QED BY <1>1, <1>2, FirstLayer

\* The layers begin again.
LEMMA AdvanceAgainSettles ==
    ASSUME IInv, Settled, AdvanceAgain
    PROVE  Settled'
<1>1. pc' = "advance" /\ turn' = 1
  BY DEF AdvanceAgain, Settled, TurnInOrder, Between
<1>2. TurnInOrder'
  BY <1>1 DEF TurnInOrder, Between
<1> QED BY <1>1, <1>2, FirstLayer

\* There is another pass, and the host is told to go on.
LEMMA NextPassSettles ==
    ASSUME IInv, Settled, NextPass
    PROVE  Settled'
<1>1. pc' = "try" /\ keepGoing' = TRUE
  BY DEF NextPass
<1>2. TurnInOrder'
  BY <1>1 DEF TurnInOrder, Between
<1> QED BY <1>1, <1>2, GoesOn

\* The layers that had their turn keep what it left them with.
LEMMA AdvanceLayerSettles ==
    ASSUME IInv, Settled, AdvanceLayer
    PROVE  Settled'
<1>1. /\ pc = "advance" /\ pc' = "update" /\ machine' = machine
      /\ UNCHANGED <<on, fired, used, needsAdvance, turn, newFrame, exceeded>>
  BY DEF AdvanceLayer, inputVars
<1>2. \A k \in Layers \ {turn} : heap'[k] = heap[k] /\ layer'[k] = layer[k]
  <2>1. /\ heap \in [Layers -> [Ids -> InstanceType]]
        /\ layer \in [Layers -> LayerType]
    BY TypeParts DEF IInv, LayersTyped
  <2>2. \E x : heap' = [heap EXCEPT ![turn] = x]
    BY <2>1 DEF AdvanceLayer
  <2>3. \E x : layer' = [layer EXCEPT ![turn] = x]
    BY <2>1 DEF AdvanceLayer
  <2> QED BY <2>1, <2>2, <2>3
<1>3. ASSUME NEW l \in Layers, Done(l)'
      PROVE  Done(l) /\ l # turn
  <2>1. l < turn
    BY <1>1, <1>3 DEF Done
  <2>2. turn \in Nat /\ l \in Nat
    BY TypeParts, Numbers DEF IInv, ControlTyped
  <2> QED BY <2>1, <2>2 DEF Done
<1>4. ASSUME NEW l \in Layers, l # turn
      PROVE  (Tried(l) => Tried(l)') /\ (Finished(l) => Finished(l)')
  BY <1>1, <1>2, <1>4, Untouched
<1>5. TriggersUsed'
  BY <1>1, <1>3, <1>4 DEF Settled, TriggersUsed, Advancing
<1>6. LayersSettled'
  BY <1>1, <1>3, <1>4 DEF Settled, LayersSettled, Advancing
<1> QED BY <1>1, <1>5, <1>6
        DEF Settled, TurnInOrder, NestedSettled, TriesSettled, FrameSettled, Between

\* So they do when a layer changes its state.
LEMMA ChangeStateSettles ==
    ASSUME IInv, Settled, ChangeState
    PROVE  Settled'
<1>1. CASE count = MaxIterations
  <2>1. NextLayer /\ exceeded' = TRUE
    BY <1>1 DEF ChangeState
  <2> QED BY <2>1, NextLayerDone
          DEF Settled, TriggersUsed, LayersSettled, NestedSettled, TriesSettled,
              FrameSettled
<1>2. CASE count # MaxIterations
  <2>1. /\ pc = "update" /\ pc' = "update" /\ machine' = machine
        /\ UNCHANGED <<on, fired, needsAdvance, turn, newFrame, exceeded>>
        /\ Changes(turn)
    BY <1>2 DEF ChangeState
  <2>2. turn \in Layers /\ turn \in Nat
    BY TypeParts, Numbers DEF IInv, ControlTyped
  <2>3. PICK i \in DOMAIN machine.layers[turn] : Take(turn, i)
    BY <2>1, ChangesTakes
  <2>4. \A k \in Layers \ {turn} : heap'[k] = heap[k] /\ layer'[k] = layer[k]
    BY <2>2, <2>3, TakeEffect
  <2>5. used \subseteq used'
    BY <2>3 DEF Take, Use
  <2>6. ASSUME NEW l \in Layers, Done(l)'
        PROVE  Done(l) /\ l # turn
    <3>1. l < turn
      BY <2>1, <2>6 DEF Done
    <3>2. l \in Nat
      BY Numbers
    <3> QED BY <2>2, <3>1, <3>2 DEF Done
  <2>7. ASSUME NEW l \in Layers, l # turn
        PROVE  (Tried(l) => Tried(l)') /\ (Finished(l) => Finished(l)')
    BY <2>1, <2>4, <2>5, <2>7, Untouched
  <2>8. TriggersUsed'
    BY <2>1, <2>6, <2>7 DEF Settled, TriggersUsed, Advancing
  <2>9. LayersSettled'
    BY <2>1, <2>6, <2>7 DEF Settled, LayersSettled, Advancing
  <2> QED BY <2>1, <2>8, <2>9
          DEF Settled, TurnInOrder, NestedSettled, TriesSettled, FrameSettled, Between
<1> QED BY <1>1, <1>2

\* The layer that ends its turn has nothing left that it could do, and says so
\* unless it still plays, mixes or waits.
LEMMA EndLayerSettles ==
    ASSUME IInv, Settled, EndLayer
    PROVE  Settled'
<1>1. /\ pc = "update" /\ Stays(turn) /\ NextLayer /\ machine' = machine
      /\ UNCHANGED <<on, fired, used, newFrame, exceeded>>
      /\ heap' = [heap EXCEPT ![turn][layer[turn].current].spilled = 0]
      /\ needsAdvance' = (\/ needsAdvance \/ changed \/ layer[turn].left > 0
                          \/ layer'[turn].waiting \/ Current(turn).keep)
  BY DEF EndLayer, inputVars
<1>2. turn \in Layers
  BY TypeParts DEF IInv, ControlTyped
<1>3. /\ layer[turn] \in LayerType
      /\ layer[turn].any \in Ids /\ layer[turn].current \in Ids
      /\ layer[turn].left \in Nat
      /\ Current(turn) = heap[turn][layer[turn].current]
      /\ Current(turn) \in InstanceType
      /\ heap[turn] \in [Ids -> InstanceType]
      /\ layer[turn].any # layer[turn].current
      /\ heap \in [Layers -> [Ids -> InstanceType]]
  BY <1>2, LayerTypes DEF IInv, TypeOK, Owned, OwnedBy
<1>4. /\ layer' \in [Layers -> LayerType]
      /\ \A k \in Layers \ {turn} : layer'[k] = layer[k]
      /\ layer'[turn].any = layer[turn].any
      /\ layer'[turn].current = layer[turn].current
      /\ layer'[turn].from = layer[turn].from
      /\ layer'[turn].transition = layer[turn].transition
      /\ layer'[turn].left = layer[turn].left
  BY <1>1, <1>2, StaysEffect
<1>5. /\ \A k \in Layers \ {turn} : heap'[k] = heap[k]
      /\ heap'[turn][layer[turn].any] = heap[turn][layer[turn].any]
      /\ heap'[turn][layer[turn].current] =
             [heap[turn][layer[turn].current] EXCEPT !.spilled = 0]
  BY <1>1, <1>2, <1>3
<1>6. /\ heap'[turn][layer[turn].current].state = Current(turn).state
      /\ heap'[turn][layer[turn].current].total = Current(turn).total
      /\ heap'[turn][layer[turn].current].keep = Current(turn).keep
  <2> DEFINE x == Current(turn)
  <2>1. x \in InstanceType
    BY <1>3
  <2>2. /\ [x EXCEPT !.spilled = 0].state = x.state
        /\ [x EXCEPT !.spilled = 0].total = x.total
        /\ [x EXCEPT !.spilled = 0].keep = x.keep
    BY <2>1, StillInstance
  <2>3. heap'[turn][layer[turn].current] = [x EXCEPT !.spilled = 0]
    BY <1>3, <1>5
  <2> HIDE DEF x
  <2>4. /\ heap'[turn][layer[turn].current].state = x.state
        /\ heap'[turn][layer[turn].current].total = x.total
        /\ heap'[turn][layer[turn].current].keep = x.keep
    BY <2>2, <2>3, Zenon
  <2> QED BY <2>4 DEF x
<1>7. PICK t \in Layers : t = turn
  BY <1>2
<1>8. /\ AnyInstance(t)' = AnyInstance(t)
      /\ Current(t)'.state = Current(t).state
      /\ Current(t)'.total = Current(t).total
      /\ Current(t)'.keep = Current(t).keep
  <2>1. layer[t].current # None
    BY <1>3, <1>7, SystemStates DEF Ids
  <2>2. AnyInstance(t)' = AnyInstance(t)
    BY <1>4, <1>5, <1>7 DEF AnyInstance
  <2>3. Current(t)' = heap'[t][layer[t].current]
    BY <1>4, <1>7, <2>1 DEF Current, At
  <2> QED BY <1>6, <1>7, <2>2, <2>3
<1>9. Holding(t)' = Holding(t)
  BY <1>1 DEF Holding
<1>10. (Due(t)' => Due(t)) /\ (WaitsNow(t)' => WaitsNow(t))
  <2>1. Holding(t)' \subseteq Holding(t)
    BY <1>9
  <2> QED BY <1>1, <1>8, <2>1, NothingNewIsDue
<1>11. Blocked(t)' <=> Blocked(t)
  BY <1>1, <1>4, <1>7 DEF Blocked, IsTransitioning, Transition, Mixing
<1>12. Stays(t)
  BY <1>1, <1>7
<1>13. /\ Tried(t)
       /\ ~Blocked(t) => ~Due(t) /\ (WaitsNow(t) => layer'[t].waiting)
  BY <1>12, StaysSettles
<1>14. Tried(t)'
  BY <1>10, <1>11, <1>13 DEF Tried
<1>15. ASSUME ~needsAdvance'
       PROVE  ~needsAdvance /\ Finished(t)'
  <2>1. /\ ~needsAdvance /\ ~(layer[t].left > 0) /\ ~layer'[t].waiting
        /\ ~Current(t).keep
    BY <1>1, <1>7, <1>15
  <2>2. layer[t].left = 0
    BY <1>3, <1>7, <2>1
  <2>3. ~Blocked(t)
    BY <2>1 DEF Blocked, IsTransitioning
  <2>4. layer'[t].left = 0 /\ ~Current(t)'.keep
    BY <1>4, <1>7, <1>8, <2>1, <2>2
  <2> QED BY <1>10, <1>13, <2>1, <2>3, <2>4 DEF Finished, Rests
<1>16. ASSUME NEW l \in Layers, l # turn
       PROVE  (Tried(l) => Tried(l)') /\ (Finished(l) => Finished(l)')
  BY <1>1, <1>4, <1>5, <1>16, Untouched
<1>17. /\ TurnInOrder' /\ pc' \in {"inputs", "advance"}
       /\ \A l \in Layers : Done(l)' => l = turn \/ l < turn
  BY <1>1, NextLayerDone
<1>18. \A l \in Layers : Done(l)' => l = t \/ (l # turn /\ Done(l))
  BY <1>7, <1>17 DEF Done
<1>19. TriggersUsed'
  <2> SUFFICES ASSUME ~exceeded, NEW l \in Layers, Done(l)'
               PROVE  Tried(l)'
    BY <1>1 DEF TriggersUsed
  <2>1. CASE l = t
    BY <1>14, <2>1
  <2>2. CASE l # t
    <3>1. l # turn /\ Done(l)
      BY <1>18, <2>2
    <3>2. Tried(l)
      BY <1>1, <3>1 DEF Settled, TriggersUsed, Advancing
    <3> QED BY <1>16, <3>1, <3>2
  <2> QED BY <2>1, <2>2
<1>20. LayersSettled'
  <2> SUFFICES ASSUME newFrame, ~needsAdvance', ~exceeded, NEW l \in Layers, Done(l)'
               PROVE  Finished(l)'
    BY <1>1 DEF LayersSettled
  <2>1. CASE l = t
    BY <1>15, <2>1
  <2>2. CASE l # t
    <3>1. l # turn /\ Done(l)
      BY <1>18, <2>2
    <3>2. Finished(l)
      BY <1>1, <1>15, <3>1 DEF Settled, LayersSettled, Advancing
    <3> QED BY <1>16, <3>1, <3>2
  <2> QED BY <2>1, <2>2
<1> QED BY <1>17, <1>19, <1>20
        DEF Settled, NestedSettled, TriesSettled, FrameSettled

\* The trigger is taken back; what the layers have said is what the host is told.
LEMMA EndAdvanceSettles ==
    ASSUME IInv, Settled, EndAdvance
    PROVE  Settled'
<1>1. /\ pc = "inputs" /\ machine' = machine /\ fired' = FALSE
      /\ keepGoing' = (~newFrame \/ needsAdvance \/ reported \/ seconds = 0)
      /\ pc' = IF newFrame THEN "nested" ELSE "passed"
      /\ UNCHANGED <<heap, layer, on, reported, needsAdvance, turn, newFrame,
                     changed, exceeded>>
  BY DEF EndAdvance
<1>2. TurnInOrder'
  BY <1>1 DEF Settled, TurnInOrder, Between
<1>3. CASE ~newFrame
  <2>1. keepGoing' = TRUE
    BY <1>1, <1>3
  <2> QED BY <1>1, <1>2, <1>3, <2>1, GoesOn
<1>4. CASE newFrame
  <2>1. pc' = "nested"
    BY <1>1, <1>4
  <2>2. NestedSettled'
    <3> SUFFICES ASSUME ~keepGoing', ~exceeded
                 PROVE  ~reported /\ ~needsAdvance /\ \A l \in Layers : Finished(l)'
      BY <1>1 DEF NestedSettled
    <3>1. ~reported /\ ~needsAdvance
      BY <1>1
    <3>2. ASSUME NEW l \in Layers PROVE Finished(l)'
      <4>1. Finished(l)
        BY <1>1, <1>4, <3>1 DEF Settled, LayersSettled, Advancing, Done
      <4>2. ~fired'
        BY <1>1
      <4> QED BY <1>1, <4>1, <4>2, Untouched
    <3> QED BY <3>1, <3>2
  <2> QED BY <1>2, <2>1, <2>2
          DEF Settled, TriggersUsed, LayersSettled, TriesSettled, FrameSettled, Advancing
<1> QED BY <1>3, <1>4

\* What a nested artboard changes is tried afterwards.
LEMMA AdvanceNestedSettles ==
    ASSUME IInv, Settled, AdvanceNested
    PROVE  Settled'
<1>1. /\ pc = "nested" /\ pc' = "try" /\ turn = 1 /\ turn' = 1
      /\ UNCHANGED <<machine, heap, layer, reported, exceeded>>
      /\ needsAdvance' = (needsAdvance \/ <<on, fired>>' # <<on, fired>>)
      /\ \E busy \in BOOLEAN : keepGoing' = (keepGoing \/ busy)
  BY DEF AdvanceNested, Settled, TurnInOrder, Between
<1>2. used' = used
  BY DEF AdvanceNested, Change
<1>3. TriesSettled'
  <2> SUFFICES ASSUME ~keepGoing', ~exceeded
               PROVE  /\ ~reported
                      /\ \A l \in Layers : /\ Rests(l)'
                                           /\ WaitsNow(l)' => needsAdvance'
                                           /\ l < 1 => ~Due(l)'
    BY <1>1 DEF TriesSettled
  <2>1. ~keepGoing
    BY <1>1
  <2>2. ~reported /\ \A l \in Layers : Finished(l)
    BY <1>1, <2>1 DEF Settled, NestedSettled
  <2>3. ASSUME NEW l \in Layers
        PROVE  /\ Rests(l)'
               /\ WaitsNow(l)' => needsAdvance'
               /\ ~(l < 1)
    <3>1. Rests(l)'
      <4>1. Current(l)' = Current(l)
        BY <1>1 DEF Current, At, Free
      <4>2. Current(l)'.keep = Current(l).keep
        BY <4>1
      <4> QED BY <1>1, <2>2, <4>2 DEF Finished, Rests
    <3>2. ASSUME ~needsAdvance' PROVE ~WaitsNow(l)'
      <4>1. on' = on /\ fired' = fired
        BY <1>1, <3>2
      <4>2. Finished(l)'
        BY <1>1, <1>2, <2>2, <4>1, Untouched
      <4> QED BY <4>2 DEF Finished
    <3>3. ~(l < 1)
      BY Numbers DEF Layers
    <3> QED BY <3>1, <3>2, <3>3
  <2> QED BY <2>2, <2>3
<1> QED BY <1>1, <1>3
        DEF Settled, TurnInOrder, TriggersUsed, LayersSettled, NestedSettled,
            FrameSettled, Advancing, Between

\* A layer that is tried and stays has nothing due.
LEMMA TryChangeStateSettles ==
    ASSUME IInv, Settled, TryChangeState
    PROVE  Settled'
<1>1. /\ pc = "try" /\ machine' = machine
      /\ UNCHANGED <<on, fired, needsAdvance, keepGoing, exceeded>>
      /\ turn' = IF turn = NumLayers THEN 1 ELSE turn + 1
      /\ pc' = IF turn # NumLayers THEN "try" ELSE IF changed' THEN "again" ELSE "passed"
  BY DEF TryChangeState
<1>2. turn \in Layers /\ turn \in 1 .. NumLayers /\ NumLayers \in Nat
  BY TypeParts, StateMachineAssumption DEF IInv, ControlTyped, Layers
<1>3. TurnInOrder'
  BY <1>1 DEF TurnInOrder, Between
<1>4. pc' \in {"try", "again", "passed"} /\ (pc' = "passed" => ~changed')
  BY <1>1
<1>5. TriggersUsed' /\ LayersSettled' /\ NestedSettled'
  BY <1>4 DEF TriggersUsed, LayersSettled, NestedSettled, Advancing
<1>6. CASE changed'
  BY <1>3, <1>4, <1>5, <1>6 DEF Settled, TriesSettled, FrameSettled
<1>7. CASE keepGoing' \/ exceeded'
  BY <1>3, <1>4, <1>5, <1>7 DEF Settled, TriesSettled, FrameSettled
<1>8. CASE ~changed' /\ ~keepGoing' /\ ~exceeded'
  <2>1. Stays(turn) /\ UNCHANGED <<heap, used, reported, changed>>
    BY <1>8 DEF TryChangeState
  <2>2. /\ \A k \in Layers \ {turn} : layer'[k] = layer[k]
        /\ layer'[turn].any = layer[turn].any
        /\ layer'[turn].current = layer[turn].current
        /\ layer'[turn].left = layer[turn].left
    BY <1>2, <2>1, StaysEffect
  <2>3. /\ ~reported
        /\ \A l \in Layers : /\ Rests(l)
                             /\ WaitsNow(l) => needsAdvance
                             /\ l < turn => ~Due(l)
    BY <1>1, <1>8, <2>1 DEF Settled, TriesSettled
  <2>4. PICK t \in Layers : t = turn
    BY <1>2
  <2>5. ~Due(t)
    <3>1. Stays(t)
      BY <2>1, <2>4
    <3>2. ~Blocked(t)
      BY <2>3 DEF Rests, Blocked, IsTransitioning
    <3> QED BY <3>1, <3>2, StaysSettles
  <2>6. ASSUME NEW l \in Layers
        PROVE  /\ Rests(l)'
               /\ WaitsNow(l)' => needsAdvance'
               /\ Due(l)' => Due(l)
    <3>1. /\ layer'[l].any = layer[l].any
          /\ layer'[l].current = layer[l].current
          /\ layer'[l].left = layer[l].left
      BY <2>2
    <3>2. AnyInstance(l)' = AnyInstance(l) /\ Current(l)' = Current(l)
      BY <2>1, <3>1 DEF AnyInstance, Current, At, Free
    <3>3. Holding(l)' \subseteq Holding(l)
      BY <1>1, <2>1 DEF Holding
    <3>4. (Due(l)' => Due(l)) /\ (WaitsNow(l)' => WaitsNow(l))
      BY <1>1, <3>2, <3>3, NothingNewIsDue
    <3>5. Current(l)'.keep = Current(l).keep
      BY <3>2
    <3>6. Rests(l)'
      BY <2>3, <3>1, <3>5 DEF Rests
    <3> QED BY <1>1, <2>3, <3>4, <3>6
  <2>7. TriesSettled'
    <3> SUFFICES ASSUME pc' = "try", NEW l \in Layers, l < turn'
                 PROVE  ~Due(l)'
      BY <2>1, <2>3, <2>6 DEF TriesSettled
    <3>1. turn' = turn + 1 /\ l \in Nat
      BY <1>1, Numbers
    <3>2. l < turn \/ l = turn
      BY <1>2, <3>1
    <3> QED BY <2>3, <2>4, <2>5, <2>6, <3>2
  <2>8. FrameSettled'
    <3> SUFFICES ASSUME pc' = "passed", NEW l \in Layers
                 PROVE  ~Due(l)'
      BY <1>4, <2>1, <2>3, <2>6 DEF FrameSettled
    <3>1. turn = NumLayers /\ l \in 1 .. NumLayers
      BY <1>1 DEF Layers
    <3>2. l < turn \/ l = turn
      BY <1>2, <3>1
    <3> QED BY <2>3, <2>4, <2>5, <2>6, <3>2
  <2> QED BY <1>3, <1>5, <2>7, <2>8 DEF Settled
<1> QED BY <1>6, <1>7, <1>8

\* The host is told.
LEMMA EndFrameSettles ==
    ASSUME IInv, Settled, EndFrame
    PROVE  Settled'
<1>1. /\ pc = "passed" /\ pc' = "idle"
      /\ keepGoing' = (keepGoing \/ reported)
      /\ UNCHANGED <<machine, heap, layer, on, fired, used, reported,
                     needsAdvance, turn, exceeded>>
  BY DEF EndFrame, inputVars
<1>2. TurnInOrder'
  BY <1>1 DEF Settled, TurnInOrder, Between
<1>3. FrameSettled'
  <2> SUFFICES ASSUME ~keepGoing', ~exceeded
               PROVE  /\ ~reported
                      /\ \A l \in Layers : /\ Rests(l)'
                                           /\ WaitsNow(l)' => needsAdvance
                                           /\ ~Due(l)'
    BY <1>1 DEF FrameSettled
  <2>1. /\ ~reported
        /\ \A l \in Layers : Rests(l) /\ (WaitsNow(l) => needsAdvance) /\ ~Due(l)
    BY <1>1 DEF Settled, FrameSettled
  <2>2. ASSUME NEW l \in Layers
        PROVE  (Rests(l)' <=> Rests(l)) /\ (Due(l)' => Due(l)) /\ (WaitsNow(l)' => WaitsNow(l))
    BY <1>1, Untouched
  <2> QED BY <2>1, <2>2
<1> QED BY <1>1, <1>2, <1>3
        DEF Settled, TriggersUsed, LayersSettled, NestedSettled, TriesSettled, Advancing

\* In the beginning the host is to advance.
LEMMA InitSettles ==
    ASSUME Init
    PROVE  Settled
BY DEF Init, Settled, TurnInOrder, TriggersUsed, LayersSettled, NestedSettled,
       TriesSettled, FrameSettled, Advancing

\* A step of the surroundings changes nothing.
LEMMA StutterSettles ==
    ASSUME IInv, Settled, UNCHANGED vars
    PROVE  Settled'
<1>1. UNCHANGED <<machine, heap, layer, on, fired, used, reported, needsAdvance,
                  keepGoing, pc, turn, newFrame, changed, exceeded>>
  BY DEF vars, inputVars, frameVars
<1>2. ASSUME NEW l \in Layers
      PROVE  /\ Rests(l)' <=> Rests(l)
             /\ Due(l)' => Due(l)
             /\ WaitsNow(l)' => WaitsNow(l)
             /\ Tried(l) => Tried(l)'
             /\ Finished(l) => Finished(l)'
  BY <1>1, Untouched
<1>3. \A l \in Layers : Done(l)' => Done(l)
  BY <1>1 DEF Done
<1>4. TurnInOrder' /\ TriggersUsed' /\ LayersSettled'
  BY <1>1, <1>2, <1>3 DEF Settled, TurnInOrder, TriggersUsed, LayersSettled
<1>5. NestedSettled' /\ FrameSettled'
  BY <1>1, <1>2 DEF Settled, NestedSettled, FrameSettled
<1>6. TriesSettled'
  BY <1>1, <1>2 DEF Settled, TriesSettled
<1> QED BY <1>4, <1>5, <1>6 DEF Settled

\* Every step keeps the second invariant.
LEMMA NextSettles ==
    ASSUME IInv, Settled, [Next]_vars
    PROVE  Settled'
BY StutterSettles, SetInputSettles, ResetStateSettles, StartFrameSettles,
   NextPassSettles, AdvanceLayerSettles, ChangeStateSettles, EndLayerSettles,
   EndAdvanceSettles, AdvanceNestedSettles, TryChangeStateSettles,
   AdvanceAgainSettles, EndFrameSettles
   DEF Next, Frame

\* Types, ownership and what the host is told, in every state.
THEOREM Invariant == Spec => [](IInv /\ Settled)
<1>1. Init => IInv /\ Settled
  BY InitTypes, InitSettles
<1>2. IInv /\ Settled /\ [Next]_vars => IInv' /\ Settled'
  BY NextTypes, NextSettles
<1> QED BY <1>1, <1>2, PTL DEF Spec

\* Every variable holds a value the code can store in it.
THEOREM TypeCorrectness == Spec => []TypeOK
<1>1. IInv => TypeOK
  BY DEF IInv
<1> QED BY <1>1, Invariant, PTL

\* The state instances that have not been deleted are those a layer points to,
\* each by one pointer.
THEOREM EveryInstanceIsOwned == Spec => []InstancesOwned
<1>1. IInv => InstancesOwned
  <2> SUFFICES ASSUME IInv, NEW l \in Layers
               PROVE  LET owners == {"any", "current"} \cup
                            (IF layer[l].from = None THEN {} ELSE {"from"})
                      IN  /\ \A p, q \in owners : layer[l][p] = layer[l][q] => p = q
                          /\ {id \in Ids : heap[l][id] # Free} = {layer[l][p] : p \in owners}
                          /\ heap[l][layer[l].any].state = AnyState
    BY DEF InstancesOwned
  <2> DEFINE owners == {"any", "current"} \cup
                            (IF layer[l].from = None THEN {} ELSE {"from"})
  <2>1. OwnedBy(heap[l], layer[l])
    BY DEF IInv, Owned
  <2>2. /\ layer[l].any \in Ids /\ layer[l].current \in Ids
        /\ layer[l].from \in Ids \cup {None}
        /\ None \notin Ids
    BY LayerTypes, SystemStates DEF IInv, Ids
  <2>3. \A p, q \in owners : layer[l][p] = layer[l][q] => p = q
    BY <2>1 DEF OwnedBy
  <2>4. \A id \in Ids : heap[l][id] # Free <=> heap[l][id].state # None
    <3>1. Free.state = None
      BY DEF Free
    <3> QED BY <2>1, <3>1 DEF OwnedBy
  <2>5. {id \in Ids : heap[l][id] # Free} =
          {id \in Ids : id \in {layer[l].any, layer[l].current, layer[l].from}}
    BY <2>1, <2>4 DEF OwnedBy
  <2>6. {layer[l][p] : p \in owners} =
          {id \in Ids : id \in {layer[l].any, layer[l].current, layer[l].from}}
    BY <2>2
  <2> QED BY <2>1, <2>3, <2>5, <2>6 DEF OwnedBy
<1> QED BY <1>1, Invariant, PTL

\* When advanceAndApply returns false nothing that StopsWhenSettled lists is left to do.
\* It lists neither a layer that gave up after maxIterations, nor the choice of a random
\* state, nor a wait for an exit time that begins after the layers have advanced: that
\* one a host that stops does miss.
THEOREM HostStopsWhenSettled == Spec => []StopsWhenSettled
<1>1. IInv /\ Settled => StopsWhenSettled
  <2> SUFFICES ASSUME IInv, Settled, pc = "idle", ~keepGoing, ~exceeded
               PROVE  /\ ~reported
                      /\ \A l \in Layers :
                             /\ ~IsTransitioning(l)
                             /\ ~Current(l).keep
                             /\ ~Due(l)
                             /\ Waits(l, Current(l)) => needsAdvance
    BY DEF StopsWhenSettled
  <2>1. /\ ~reported
        /\ \A l \in Layers : Rests(l) /\ (WaitsNow(l) => needsAdvance) /\ ~Due(l)
    BY DEF Settled, FrameSettled
  <2> QED BY <2>1 DEF Rests, WaitsNow, IsTransitioning
<1> QED BY <1>1, Invariant, PTL

\* When the trigger is taken back no layer has a transition left that the trigger
\* would let it take.
THEOREM NoTriggerIsMissed == Spec => NoTriggerMissed
<1>1. ASSUME IInv, Settled, [Next]_vars, fired, ~fired'
      PROVE  exceeded \/ \A l \in Layers : Blocked(l) \/ ~Due(l)
  <2>1. EndAdvance
    <3>1. \A c : Change(c) => fired'
      BY <1>1 DEF Change
    <3> QED BY <1>1, <3>1
            DEF Next, Frame, SetInput, ResetState, StartFrame, NextPass,
                AdvanceLayer, ChangeState, EndLayer, AdvanceNested,
                TryChangeState, AdvanceAgain, EndFrame, vars, inputVars
  <2>2. pc = "inputs"
    BY <2>1 DEF EndAdvance
  <2> QED BY <1>1, <2>2 DEF Settled, TriggersUsed, Advancing, Done, Tried
<1>2. IInv /\ Settled /\ [Next]_vars =>
        [fired /\ ~fired' =>
           exceeded \/ \A l \in Layers : Blocked(l) \/ ~Due(l)]_vars
  BY <1>1
<1> QED BY <1>2, Invariant, PTL DEF Spec, NoTriggerMissed
==================================================================================
