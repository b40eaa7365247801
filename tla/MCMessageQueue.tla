---------------------------- MODULE MCMessageQueue ----------------------------
(* Instances of MessageQueue for TLC.                                        *)
EXTENDS MessageQueue

Shaped(kind, shapes) == {[kind |-> kind, shape |-> s] : s \in shapes}

\* A message of every layout, with no, one or two elements where it has a list;
\* the kinds left out are written and read by the same branches.
AllMessages ==
    UNION {Shaped(k, {<<>>}) :
              k \in {"fileLoaded", "viewModelError", "defaultViewModelReceived",
                     "viewModelListSizeReceived"}}
    \cup UNION {Shaped(k, {<<>>, <<0>>}) :
                  k \in {"artboardsListed", "viewModelInstanceNamesListed"}}
    \cup Shaped("viewModelEnumsListed", {<<>>, <<0>>, <<2>>, <<0, 1>>, <<2, 1>>})
    \cup Shaped("viewModelPropertiesListed",
                {<<>>, <<"enumType">>, <<"number">>, <<"enumType", "trigger">>})
    \cup Shaped("viewModelPropertyValueReceived",
                {<<t>> : t \in PODTypes \cup NameTypes \cup {"trigger"}})

OneMessage == Shaped("viewModelError", {<<>>})
==============================================================================
