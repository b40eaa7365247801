---------------------------- MODULE MCStateMachine ----------------------------
(* Two layers: one goes from an animation that ends to one that loops and    *)
(* back, one enters the first with the trigger and stays there.              *)
EXTENDS StateMachine, TLC

CONSTANTS Once, Loop

T(from, to, when, exit, duration, early) ==
    [from |-> from, to |-> to, when |-> when, exit |-> exit,
     duration |-> duration, early |-> early]

\* The way there, the way back, one from any state, and what the listener does.
M(there, back, any, random, change) ==
    [animation |-> Once :> [duration |-> 3, loop |-> FALSE]
                   @@ Loop :> [duration |-> 2, loop |-> TRUE],
     random |-> random,
     layers |-> <<<<T(EntryState, Once, "always", None, 0, FALSE), there, back>>
                      \o any,
                  <<T(EntryState, Once, "trigger", None, 0, FALSE)>>>>,
     heard |-> [layer |-> 1, index |-> 2, change |-> change]]

FromAny == <<T(AnyState, Loop, "trigger", None, 2, FALSE)>>

\* An exit time of 4 lies behind the end of the animation.  In the third the
\* conditions of both ways hold, and the layer gives up.
MCMachines ==
    {M(T(Once, Loop, "trigger", 4, 3, TRUE),
       T(Loop, Once, "false", None, 2, FALSE), <<>>, {}, "clear"),
     M(T(Once, Loop, "true", 4, 0, FALSE),
       T(Loop, Once, "trigger", None, 2, TRUE), <<>>, {}, "fire"),
     M(T(Once, Loop, "always", None, 3, TRUE),
       T(Loop, Once, "false", None, 2, TRUE), <<>>, {}, "set"),
     M(T(Once, Loop, "true", 3, 3, FALSE),
       T(Loop, Once, "false", 2, 0, FALSE), FromAny, {}, "fire"),
     M(T(Once, Loop, "true", None, 3, FALSE),
       T(Loop, Once, "trigger", 1, 2, TRUE), FromAny, {Once}, "clear")}
===============================================================================
