----------------------------- MODULE StateMachine -----------------------------
(* A state machine instance: its layers, each in a state or on the way from  *)
(* one to another, its inputs and what advancing it by a frame does          *)
(* (runtime/src/animation/state_machine_instance.cpp).  Everything happens   *)
(* on one thread, in steps here so that the layers can be watched taking     *)
(* turns.                                                                    *)
(*                                                                           *)
(* Time is counted in ticks; an animation plays forwards from 0.  What is    *)
(* drawn is left out, and with it the clock of a state that is being left.   *)
(* There are a boolean input and a trigger, a listener to an event of the    *)
(* machine's own and one to an event of a nested artboard.                   *)
EXTENDS Integers, Sequences, FiniteSets

CONSTANTS
    NumLayers,
    Animations,    \* the animation states
    EntryState,    \* the system states
    AnyState,
    None,
    Machines,      \* [animation, random, layers, heard]
    Frames,        \* the ticks from one frame to the next
    MaxExit,       \* bound: where the clock of a finished animation stops
    MaxIterations, \* maxIterations of the layer
    MaxPasses      \* outerOptionC

Layers == 1 .. NumLayers
States == Animations \cup {EntryState, AnyState}
Ids == 1 .. 4

\* when: the condition; exit: exitTime, None unless enableExitTime.
TransitionType ==
    [from : States, to : States, when : {"always", "trigger", "true", "false"},
     exit : Nat \cup {None}, duration : Nat, early : BOOLEAN]

\* heard: the transition that reports an event at its end, which a listener
\* hears, and what the listener does.
MachineType ==
    [animation : [Animations -> [duration : Nat \ {0}, loop : BOOLEAN]],
     random : SUBSET States,
     layers : [Layers -> Seq(TransitionType)],
     heard : [layer : Layers, index : Nat, change : {"fire", "set", "clear"}]]

ASSUME StateMachineAssumption ==
    /\ NumLayers \in Nat \ {0}
    /\ EntryState # AnyState /\ {EntryState, AnyState, None} \cap Animations = {}
    /\ None \notin Nat \cup {EntryState, AnyState}
    /\ Machines \subseteq MachineType
    /\ Frames \subseteq Nat
    /\ MaxExit \in Nat /\ MaxIterations \in Nat /\ MaxPasses \in Nat \ {0}
    /\ \A m \in Machines, l \in Layers : \A i \in DOMAIN m.layers[l] :
           LET t == m.layers[l][i] IN
           t.exit # None => /\ t.exit <= MaxExit
                            /\ t.from \in Animations /\ m.animation[t.from].loop
                                   => t.exit <= m.animation[t.from].duration

VARIABLES
    machine,  \* the file
    heap,     \* the state instances of each layer
    layer,    \* the layers' pointers to them and the transition they are in
    on,       \* the boolean input
    fired,    \* m_fired of the trigger
    used,     \* its m_usedLayers
    reported, \* m_reportedEvents holds the event that is heard
    needsAdvance,
    keepGoing, \* what advanceAndApply is going to return, or returned last
    pc,
    turn,     \* whose turn it is
    seconds,  \* the ticks to advance by
    newFrame,
    changed,  \* a layer changed its state in updateState
    count,    \* i of the loop of the layer
    pass,     \* outerOptionC
    exceeded  \* a layer has exceeded maxIterations in this frame

inputVars == <<on, fired, used>>
frameVars == <<pc, turn, seconds, newFrame, changed, count, pass, exceeded>>
vars == <<machine, heap, layer, inputVars, reported, needsAdvance, keepGoing,
          frameVars>>

(***************************************************************************)
(* State instances                                                         *)
(***************************************************************************)

Free == [state |-> None, total |-> 0, spilled |-> 0, keep |-> FALSE]

\* makeInstance
New(state) ==
    [state |-> state, total |-> 0, spilled |-> 0, keep |-> state \in Animations]

FreeId(h) == CHOOSE id \in Ids : h[id] = Free

At(h, id) == IF id = None THEN Free ELSE h[id]

Current(l) == At(heap[l], layer[l].current)

\* AnimationStateInstance::advance.  The total time of a loop is counted from
\* the start of the round the last one was in, as the exit time is.
Advanced(instance, ticks) ==
    LET a == machine.animation[instance.state]
        time == IF a.loop THEN instance.total % a.duration ELSE instance.total
        total == time + ticks
    IN IF instance.state \notin Animations THEN instance
       ELSE IF ticks = 0 THEN [instance EXCEPT !.spilled = 0, !.keep = FALSE]
       ELSE [instance EXCEPT
               !.total = IF total < MaxExit \/ a.loop THEN total ELSE MaxExit,
               !.spilled = IF total < a.duration THEN 0
                           ELSE IF a.loop THEN total % a.duration
                           ELSE IF time < a.duration THEN total - a.duration
                           ELSE 0,
               !.keep = a.loop \/ total < a.duration]

(***************************************************************************)
(* Transitions                                                             *)
(***************************************************************************)

Transition(l) == machine.layers[l][layer[l].transition]

Mixing(ly, t) == ly.from # None /\ t.duration # 0

IsTransitioning(l) ==
    /\ layer[l].transition # None
    /\ Mixing(layer[l], Transition(l))
    /\ layer[l].left > 0

Evaluate(l, t) ==
    \/ t.when = "always"
    \/ t.when = "trigger" /\ fired /\ l \notin used
    \/ t.when = "true" /\ on
    \/ t.when = "false" /\ ~on

\* StateTransition::allowed: no, waitingForExit or yes.
Allowed(l, t, instance) ==
    IF ~Evaluate(l, t) THEN "no"
    ELSE IF /\ t.exit # None
            /\ instance.state \in Animations
            /\ instance.total < t.exit
         THEN "waitingForExit"
    ELSE "yes"

\* The transitions from an instance's state that lead elsewhere.
Candidates(l, instance) ==
    {i \in DOMAIN machine.layers[l] :
        /\ machine.layers[l][i].from = instance.state
        /\ machine.layers[l][i].to # Current(l).state}

Verdict(l, instance, i) == Allowed(l, machine.layers[l][i], instance)

AllowedNow(l, instance) ==
    {i \in Candidates(l, instance) : Verdict(l, instance, i) = "yes"}

\* findAllowedTransition: the first, or any of them.  A random number of 1.0
\* is past the end of all weights, and selects none.
Selected(l, instance) ==
    LET allowed == AllowedNow(l, instance) IN
    IF instance.state \in machine.random THEN allowed \cup {None}
    ELSE IF allowed = {} THEN {None}
    ELSE {i \in allowed : \A j \in allowed : i <= j}

\* m_waitingForExit after it selected a transition or none.
Waits(l, instance) ==
    \E i \in Candidates(l, instance) : Verdict(l, instance, i) = "waitingForExit"

\* The selected transition uses up the trigger for the layer.
Use(l, i) ==
    used' = IF machine.layers[l][i].when = "trigger" THEN used \cup {l} ELSE used

\* The event that is heard is reported at the end of the transition.
Hears(l, i) == machine.heard.layer = l /\ machine.heard.index = i

\* Mutant: the state that was left before is not deleted.
TakeKeepingFrom(l, i) ==
    LET t == machine.layers[l][i]
        ly == layer[l]
        out == Current(l)
        id == FreeId(heap[l])
        entered == IF out.state \in Animations
                   THEN Advanced(New(t.to), out.spilled) ELSE New(t.to)
        h == [heap[l] EXCEPT ![id] = entered]
    IN
    /\ heap' = [heap EXCEPT ![l] =
                    h]
    /\ layer' = [layer EXCEPT ![l] =
                    [@ EXCEPT !.current = id,
                              !.from = ly.current,
                              !.transition = i,
                              !.completed = t.duration = 0,
                              !.left = t.duration,
                              !.waiting = FALSE]]
    /\ reported' = (reported \/ (t.duration = 0 /\ Hears(l, i)))
    /\ Use(l, i)

\* tryChangeState once a transition is selected: a new instance for the state,
\* the old one takes the place of the one before it, which is deleted, and
\* plays the time that was left of it into the new one.
Take(l, i) ==
    LET t == machine.layers[l][i]
        ly == layer[l]
        out == Current(l)
        id == FreeId(heap[l])
        entered == IF out.state \in Animations
                   THEN Advanced(New(t.to), out.spilled) ELSE New(t.to)
        h == [heap[l] EXCEPT ![id] = entered]
    IN
    /\ heap' = [heap EXCEPT ![l] =
                    IF ly.from = None THEN h ELSE [h EXCEPT ![ly.from] = Free]]
    /\ layer' = [layer EXCEPT ![l] =
                    [@ EXCEPT !.current = id,
                              !.from = ly.current,
                              !.transition = i,
                              !.completed = t.duration = 0,
                              !.left = t.duration,
                              !.waiting = FALSE]]
    /\ reported' = (reported \/ (t.duration = 0 /\ Hears(l, i)))
    /\ Use(l, i)

\* A transition without enableEarlyExit keeps others from starting.
Blocked(l) == IsTransitioning(l) /\ ~Transition(l).early

\* updateState when the state changes: a transition from any state goes first.
Changes(l) ==
    /\ ~Blocked(l)
    /\ \E i \in Selected(l, heap[l][layer[l].any]) :
           \/ i # None /\ Take(l, i)
           \/ /\ i = None
              /\ \E j \in Selected(l, Current(l)) \ {None} : Take(l, j)

\* updateState when it stays the same.
Stays(l) ==
    LET any == heap[l][layer[l].any] IN
    \/ Blocked(l) /\ UNCHANGED layer
    \/ /\ ~Blocked(l)
       /\ None \in Selected(l, any) /\ None \in Selected(l, Current(l))
       /\ layer' = [layer EXCEPT ![l].waiting =
                         Waits(l, any) \/ Waits(l, Current(l))]

(***************************************************************************)
(* Initial state                                                           *)
(***************************************************************************)

InitialHeap == [id \in Ids |-> IF id = 1 THEN New(AnyState)
                               ELSE IF id = 2 THEN New(EntryState)
                               ELSE Free]

InitialLayer ==
    [any |-> 1, current |-> 2, from |-> None, transition |-> None,
     completed |-> FALSE, left |-> 0, waiting |-> FALSE]

Init ==
    /\ machine \in Machines
    /\ heap = [l \in Layers |-> InitialHeap]
    /\ layer = [l \in Layers |-> InitialLayer]
    /\ on \in BOOLEAN
    /\ fired = FALSE
    /\ used = {}
    /\ reported = FALSE
    /\ needsAdvance = FALSE
    /\ keepGoing = TRUE
    /\ pc = "idle"
    /\ turn = 1
    /\ seconds = 0
    /\ newFrame = FALSE
    /\ changed = FALSE
    /\ count = 0
    /\ pass = 0
    /\ exceeded = FALSE

(***************************************************************************)
(* Between two frames                                                      *)
(***************************************************************************)

\* What an action of a listener or of the host does to the inputs.
Change(change) ==
    /\ on' = IF change = "set" THEN TRUE
             ELSE IF change = "clear" THEN FALSE
             ELSE on
    /\ fired' = (fired \/ change = "fire")
    /\ UNCHANGED used

\* The host changes an input, and goes on advancing.
SetInput ==
    /\ pc = "idle"
    /\ \E change \in {"fire", "set", "clear"} : Change(change)
    /\ <<on, fired>>' # <<on, fired>>
    /\ needsAdvance' = TRUE
    /\ keepGoing' = TRUE
    /\ UNCHANGED <<machine, heap, layer, reported, frameVars>>

\* resetState, of an instance that is taken from the pool for another item.
ResetState ==
    /\ pc = "idle"
    /\ heap' = [l \in Layers |-> [id \in Ids |->
                   IF id = layer[l].current THEN New(EntryState)
                   ELSE IF id = layer[l].from THEN Free
                   ELSE heap[l][id]]]
    /\ layer' = [l \in Layers |-> [layer[l] EXCEPT !.from = None]]
    /\ keepGoing' = TRUE
    /\ UNCHANGED <<machine, inputVars, reported, needsAdvance, frameVars>>

(***************************************************************************)
(* advanceAndApply                                                         *)
(***************************************************************************)

\* advance(seconds, true): applyEvents, then the layers.
StartFrame ==
    /\ pc = "idle"
    /\ seconds' \in Frames
    /\ IF reported THEN Change(machine.heard.change) ELSE UNCHANGED inputVars
    /\ reported' = FALSE
    /\ needsAdvance' = FALSE
    /\ newFrame' = TRUE
    /\ exceeded' = FALSE
    /\ pc' = "advance"
    /\ UNCHANGED <<machine, heap, layer, keepGoing, turn, changed, count, pass>>

\* Mutant: the mix is not kept below 1.
AdvanceLayerTooFar ==
    LET l == turn
        ly == layer[l]
        mixing == ly.transition # None /\ Mixing(ly, Transition(l))
        left == IF mixing THEN ly.left - seconds ELSE 0
        ends == mixing /\ left = 0 /\ ~ly.completed
    IN
    /\ pc = "advance"
    /\ heap' = [heap EXCEPT ![l][ly.current] = Advanced(@, seconds)]
    /\ layer' = [layer EXCEPT ![l] =
                    [ly EXCEPT !.left = left, !.completed = ly.completed \/ ends]]
    /\ reported' = (reported \/ (ends /\ Hears(l, ly.transition)))
    /\ pc' = "update"
    /\ UNCHANGED <<machine, inputVars, needsAdvance, keepGoing, turn, seconds,
                   newFrame, changed, count, pass, exceeded>>

\* Mutant: the mix starts anew in every frame.
AdvanceLayerFromTheStart ==
    LET l == turn
        ly == layer[l]
        mixing == ly.transition # None /\ Mixing(ly, Transition(l))
        left == IF mixing /\ Transition(l).duration > seconds
               THEN Transition(l).duration - seconds ELSE 0
        ends == mixing /\ left = 0 /\ ~ly.completed
    IN
    /\ pc = "advance"
    /\ heap' = [heap EXCEPT ![l][ly.current] = Advanced(@, seconds)]
    /\ layer' = [layer EXCEPT ![l] =
                    [ly EXCEPT !.left = left, !.completed = ly.completed \/ ends]]
    /\ reported' = (reported \/ (ends /\ Hears(l, ly.transition)))
    /\ pc' = "update"
    /\ UNCHANGED <<machine, inputVars, needsAdvance, keepGoing, turn, seconds,
                   newFrame, changed, count, pass, exceeded>>

\* The layer's advance up to its loop; updateMix ends the transition.
AdvanceLayer ==
    LET l == turn
        ly == layer[l]
        mixing == ly.transition # None /\ Mixing(ly, Transition(l))
        left == IF mixing /\ ly.left > seconds THEN ly.left - seconds ELSE 0
        ends == mixing /\ left = 0 /\ ~ly.completed
    IN
    /\ pc = "advance"
    /\ heap' = [heap EXCEPT ![l][ly.current] = Advanced(@, seconds)]
    /\ layer' = [layer EXCEPT ![l] =
                    [ly EXCEPT !.left = left, !.completed = ly.completed \/ ends]]
    /\ reported' = (reported \/ (ends /\ Hears(l, ly.transition)))
    /\ pc' = "update"
    /\ UNCHANGED <<machine, inputVars, needsAdvance, keepGoing, turn, seconds,
                   newFrame, changed, count, pass, exceeded>>

NextLayer ==
    /\ turn' = IF turn = NumLayers THEN 1 ELSE turn + 1
    /\ pc' = IF turn = NumLayers THEN "inputs" ELSE "advance"
    /\ changed' = FALSE
    /\ count' = 0

\* Mutant: one change of state in a frame.
ChangeStateOnce ==
    /\ pc = "update"
    /\ Changes(turn)
    /\ NextLayer
    /\ UNCHANGED exceeded
    /\ UNCHANGED <<machine, on, fired, needsAdvance, keepGoing, seconds,
                   newFrame, pass>>

\* The loop of the layer goes on until no transition is allowed any more, or
\* there have been too many.
ChangeState ==
    /\ pc = "update"
    /\ Changes(turn)
    /\ IF count = MaxIterations
       THEN NextLayer /\ exceeded' = TRUE
       ELSE /\ changed' = TRUE
            /\ count' = count + 1
            /\ UNCHANGED <<turn, pc, exceeded>>
    /\ UNCHANGED <<machine, on, fired, needsAdvance, keepGoing, seconds,
                   newFrame, pass>>

\* Mutant: m_waitingForExit is not asked.
EndLayerNotWaiting ==
    LET l == turn IN
    /\ pc = "update"
    /\ Stays(l)
    /\ heap' = [heap EXCEPT ![l][layer[l].current].spilled = 0]
    /\ needsAdvance' = (\/ needsAdvance \/ changed \/ layer[l].left > 0
                        \/ Current(l).keep)
    /\ NextLayer
    /\ UNCHANGED <<machine, inputVars, reported, keepGoing, seconds, newFrame,
                   pass, exceeded>>

\* The layer has settled on a state for this frame, and tells whether it has
\* more to do.
EndLayer ==
    LET l == turn IN
    /\ pc = "update"
    /\ Stays(l)
    /\ heap' = [heap EXCEPT ![l][layer[l].current].spilled = 0]
    /\ needsAdvance' = (\/ needsAdvance \/ changed \/ layer[l].left > 0
                        \/ layer'[l].waiting \/ Current(l).keep)
    /\ NextLayer
    /\ UNCHANGED <<machine, inputVars, reported, keepGoing, seconds, newFrame,
                   pass, exceeded>>

\* The inputs' advanced(), and what advance returns.
EndAdvance ==
    /\ pc = "inputs"
    /\ fired' = FALSE
    /\ used' = {}
    /\ keepGoing' = (~newFrame \/ needsAdvance \/ reported \/ seconds = 0)
    /\ pc' = IF newFrame THEN "nested" ELSE "passed"
    /\ UNCHANGED <<machine, heap, layer, on, reported, needsAdvance, turn,
                   seconds, newFrame, changed, count, pass, exceeded>>

\* advanceInternal: what is nested advances, too; an event of its own may
\* change an input.  There and in updatePass something may be left to do.
AdvanceNested ==
    /\ pc = "nested"
    /\ \E change \in {"none", "fire", "set", "clear"} : Change(change)
    /\ needsAdvance' = (needsAdvance \/ <<on, fired>>' # <<on, fired>>)
    /\ \E busy \in BOOLEAN : keepGoing' = (keepGoing \/ busy)
    /\ pc' = "try"
    /\ UNCHANGED <<machine, heap, layer, reported, turn, seconds, newFrame,
                   changed, count, pass, exceeded>>

\* tryChangeState, of one layer after the other; when any has changed its
\* state, they are advanced by no time.
TryChangeState ==
    LET last == turn = NumLayers IN
    /\ pc = "try"
    /\ \/ Changes(turn) /\ changed' = TRUE
       \/ Stays(turn) /\ UNCHANGED <<heap, used, reported, changed>>
    /\ turn' = IF last THEN 1 ELSE turn + 1
    /\ pc' = IF ~last THEN "try" ELSE IF changed' THEN "again" ELSE "passed"
    /\ UNCHANGED <<machine, on, fired, needsAdvance, keepGoing, seconds,
                   newFrame, count, pass, exceeded>>

\* advance(0, false)
AdvanceAgain ==
    /\ pc = "again"
    /\ seconds' = 0
    /\ newFrame' = FALSE
    /\ changed' = FALSE
    /\ pc' = "advance"
    /\ UNCHANGED <<machine, heap, layer, inputVars, reported, needsAdvance,
                   keepGoing, turn, count, pass, exceeded>>

\* Another pass is made when something has become dirty.
NextPass ==
    /\ pc = "passed"
    /\ pass + 1 < MaxPasses
    /\ pass' = pass + 1
    /\ keepGoing' = TRUE
    /\ pc' = "try"
    /\ UNCHANGED <<machine, heap, layer, inputVars, reported, needsAdvance,
                   turn, seconds, newFrame, changed, count, exceeded>>

EndFrame ==
    /\ pc = "passed"
    /\ keepGoing' = (keepGoing \/ reported)
    /\ pc' = "idle"
    /\ seconds' = 0
    /\ newFrame' = FALSE
    /\ pass' = 0
    /\ UNCHANGED <<machine, heap, layer, inputVars, reported, needsAdvance,
                   turn, changed, count, exceeded>>

Frame ==
    \/ AdvanceLayer \/ ChangeState \/ EndLayer \/ EndAdvance \/ AdvanceNested
    \/ TryChangeState \/ AdvanceAgain \/ EndFrame

Next == SetInput \/ ResetState \/ StartFrame \/ Frame \/ NextPass

\* The host goes on with the next frame for as long as it is told to, and the
\* frames are not all of no length.
Fairness ==
    /\ WF_vars(Frame)
    /\ SF_vars(keepGoing /\ StartFrame /\ seconds' > 0)

Spec == Init /\ [][Next]_vars /\ Fairness

(***************************************************************************)
(* Correctness                                                             *)
(***************************************************************************)

InstanceType ==
    [state : States \cup {None}, total : Nat, spilled : Nat, keep : BOOLEAN]

LayerType ==
    [any : Ids, current : Ids, from : Ids \cup {None}, transition : Nat \cup {None},
     completed : BOOLEAN, left : Nat, waiting : BOOLEAN]

\* Every variable holds a value the code can store in it.
TypeOK ==
    /\ machine \in Machines
    /\ heap \in [Layers -> [Ids -> InstanceType]]
    /\ layer \in [Layers -> LayerType]
    /\ \A l \in Layers :
           layer[l].transition # None
               => /\ layer[l].transition \in DOMAIN machine.layers[l]
                  /\ layer[l].left <= Transition(l).duration
    /\ on \in BOOLEAN /\ fired \in BOOLEAN /\ used \subseteq Layers
    /\ reported \in BOOLEAN /\ needsAdvance \in BOOLEAN /\ keepGoing \in BOOLEAN
    /\ pc \in {"idle", "advance", "update", "inputs", "nested", "try", "again",
               "passed"}
    /\ turn \in Layers
    /\ seconds \in Frames \cup {0}
    /\ newFrame \in BOOLEAN /\ changed \in BOOLEAN
    /\ count \in 0 .. MaxIterations
    /\ pass \in 0 .. MaxPasses - 1
    /\ exceeded \in BOOLEAN

\* Of the state instances that were made, those that the layer still points to
\* are alive, each pointed to once, and all others are deleted, whatever was
\* interrupted, reset or left twice in a frame (the deletes in tryChangeState,
\* resetState and the destructor).
InstancesOwned ==
    \A l \in Layers :
        LET owners == {"any", "current"} \cup
                      (IF layer[l].from = None THEN {} ELSE {"from"})
        IN /\ \A p, q \in owners : layer[l][p] = layer[l][q] => p = q
           /\ {id \in Ids : heap[l][id] # Free} = {layer[l][p] : p \in owners}
           /\ heap[l][layer[l].any].state = AnyState

\* A transition that can be taken, and is taken for certain.
Due(l) ==
    \E instance \in {heap[l][layer[l].any], Current(l)} :
        AllowedNow(l, instance) # {} /\ instance.state \notin machine.random

\* When advanceAndApply returns false a host may stop: no event is unheard, no
\* layer is between two states, its animation is at the end, and it neither is
\* certain to go on to another state nor waits to.  Three cases are left out: a
\* frame in which a layer gave up, a state that chooses at random, and the wait
\* for an exit time that begins when an input changes after the layers have
\* advanced.
StopsWhenSettled ==
    pc = "idle" /\ ~keepGoing /\ ~exceeded =>
        /\ ~reported
        /\ \A l \in Layers :
               /\ ~IsTransitioning(l)
               /\ ~Current(l).keep
               /\ ~Due(l)
               /\ Waits(l, Current(l)) => needsAdvance

\* When the trigger is taken back no layer has a transition left that the
\* trigger would let it take.
NoTriggerMissed ==
    [][fired /\ ~fired' =>
           exceeded \/ \A l \in Layers : Blocked(l) \/ ~Due(l)]_vars

\* A transition that nothing may interrupt comes to its end.
TransitionsEnd ==
    \A l \in Layers :
        IsTransitioning(l) /\ ~Transition(l).early
            ~> ~(IsTransitioning(l) /\ ~Transition(l).early)
===============================================================================
