----------------------------- MODULE MessageQueue -----------------------------
(* The message half of CommandQueue and CommandServer: the server thread     *)
(* appends messages under m_messageMutex, the client thread takes them out   *)
(* in processMessages (runtime/src/command_queue.cpp) and calls the global   *)
(* listener and the listener registered for the handle, without the mutex.   *)
(* A callback is client code: it may create, move and destroy listeners,     *)
(* instantiate with them, and call processMessages again.                    *)
(*                                                                           *)
(* The seven listener maps work alike; the model has the one for view model  *)
(* instances, which is registered in the most ways.  A listener is an object *)
(* at an address (Listeners), so an address is used again after destruction. *)
EXTENDS MessageFormat, FiniteSets

CONSTANTS
    Listeners,       \* addresses where a listener may live
    NoListener,      \* the call in progress is not a listener's
    Messages,        \* kind and shape of the messages the server sends
    GlobalListener,  \* TRUE when a global listener is set
    ListReferences,  \* TRUE when the client calls referenceListViewModelInstance
    MaxHandles,      \* bound: handles the client is given
    MaxDepth,        \* bound: calls of processMessages inside one another
    MaxMessages      \* bound: messages waiting when the server sends another

ASSUME MessageQueueAssumption ==
    /\ NoListener \notin Listeners
    /\ GlobalListener \in BOOLEAN
    /\ ListReferences \in BOOLEAN
    /\ MaxHandles \in Nat
    /\ MaxDepth \in Nat
    /\ MaxMessages \in Nat
    /\ \A m \in Messages : HasLayout(m)

NullHandle == 0    \* RIVE_NULL_HANDLE
Handles == 1 .. MaxHandles

VARIABLES
    messageMutex,   \* who holds m_messageMutex
    messageStream,  \* m_messageStream, one element per field
    messageNames,   \* m_messageNames
    sending,        \* the message the server is writing
    waiting,        \* the messages and markers not extracted yet, oldest first
    calls,          \* the calls of processMessages in progress, innermost last
    handleIdx,      \* m_currentViewModelHandleIdx
    registry,       \* m_viewModelListeners
    alive,          \* the listeners constructed and not destroyed
    owning,         \* the listeners whose m_owningQueue is set
    handleOf        \* m_handle of each listener

vars == <<messageMutex, messageStream, messageNames, sending, waiting, calls,
          handleIdx, registry, alive, owning, handleOf>>

streamVars == <<messageMutex, messageStream, messageNames, sending, waiting>>
listenerVars == <<handleIdx, registry, alive, owning, handleOf>>

Init ==
    /\ messageMutex = "none"
    /\ messageStream = <<>>
    /\ messageNames = <<>>
    /\ sending = <<>>
    /\ waiting = <<>>
    /\ calls = <<>>
    /\ handleIdx = 0
    /\ registry = [h \in {} |-> NoListener]
    /\ alive = {}
    /\ owning = {}
    /\ handleOf = [l \in Listeners |-> NullHandle]

LoopBreak == [kind |-> "messageLoopBreak", handle |-> NullHandle, shape |-> <<>>]

IsMarker(m) == m.kind = "messageLoopBreak"

\* The places of the messages in a queue of messages and markers.
Unread(queue) == {i \in DOMAIN queue : ~IsMarker(queue[i])}

(***************************************************************************)
(* The server                                                              *)
(***************************************************************************)

\* A bug of this kind: the lock is gone when the names are written.
ServerWritesUnlocked ==
    /\ messageMutex = "none"
    /\ sending = <<>>
    /\ Cardinality(Unread(waiting)) < MaxMessages
    /\ \E m \in Messages, h \in 1 .. handleIdx :
        LET message == [kind |-> m.kind, handle |-> h, shape |-> m.shape]
        IN  /\ sending' = <<message>>
            /\ waiting' = Append(waiting, message)
            /\ messageStream' = messageStream \o WritePODs(message)
    /\ UNCHANGED <<messageMutex, messageNames, calls, listenerVars>>

\* messageLock, ErrorReporter's constructor: the fields of m_messageStream.
ServerWrites ==
    /\ messageMutex = "none"
    /\ messageMutex' = "server"
    /\ Cardinality(Unread(waiting)) < MaxMessages
    /\ \E m \in Messages, h \in 1 .. handleIdx :
        LET message == [kind |-> m.kind, handle |-> h, shape |-> m.shape]
        IN  /\ sending' = <<message>>
            /\ waiting' = Append(waiting, message)
            /\ messageStream' = messageStream \o WritePODs(message)
    /\ UNCHANGED <<messageNames, calls, listenerVars>>

\* The names, then the end of the lock's scope.
ServerFinishes ==
    /\ sending # <<>>
    /\ messageNames' = messageNames \o WriteNames(sending[1])
    /\ sending' = <<>>
    /\ messageMutex' = "none"
    /\ UNCHANGED <<messageStream, waiting, calls, listenerVars>>

(***************************************************************************)
(* processMessages                                                         *)
(***************************************************************************)

Depth == Len(calls)
Current == calls[Depth]

\* The client runs code of its own outside processMessages and in callbacks.
InClientCode == calls # <<>> => Current.at \in {"global", "listener"}

Goto(call) == calls' = [calls EXCEPT ![Depth] = call]
Return == calls' = SubSeq(calls, 1, Depth - 1)

\* owed counts the messages that were waiting when the call was made and have
\* not been extracted since.
NewCall ==
    [at |-> "pop", handle |-> NullHandle, callee |-> NoListener,
     owed |-> Cardinality(Unread(waiting))]

\* A bug of this kind: nothing marks where this call will end.
ProcessMessagesUnmarked ==
    /\ InClientCode
    /\ Depth < MaxDepth
    /\ messageMutex = "none"
    /\ messageStream # <<>>
    /\ messageMutex' = "client"
    /\ calls' = Append(calls, NewCall)
    /\ UNCHANGED <<messageStream, waiting, messageNames, sending, listenerVars>>

\* A bug of this kind: the marker goes where it is read first.
ProcessMessagesMarkedFirst ==
    /\ InClientCode
    /\ Depth < MaxDepth
    /\ messageMutex = "none"
    /\ messageStream # <<>>
    /\ messageMutex' = "client"
    /\ messageStream' = <<Field("message", LoopBreak.kind)>> \o messageStream
    /\ waiting' = <<LoopBreak>> \o waiting
    /\ calls' = Append(calls, NewCall)
    /\ UNCHANGED <<messageNames, sending, listenerVars>>

\* The call returns at once when no message waits; it marks the end otherwise.
ProcessMessages ==
    /\ InClientCode
    /\ Depth < MaxDepth
    /\ messageMutex = "none"
    /\ messageStream # <<>>
    /\ messageMutex' = "client"
    /\ messageStream' = Append(messageStream, Field("message", LoopBreak.kind))
    /\ waiting' = Append(waiting, LoopBreak)
    /\ calls' = Append(calls, NewCall)
    /\ UNCHANGED <<messageNames, sending, listenerVars>>

\* find in the listener map, and the call of what is found.
CallListener(call) ==
    IF call.handle \in DOMAIN registry
    THEN [call EXCEPT !.at = "listener", !.callee = registry[call.handle]]
    ELSE [call EXCEPT !.at = "lock"]

Paid(call) == [call EXCEPT !.owed = IF @ = 0 THEN 0 ELSE @ - 1]

\* Both streams give up the fields of the message at the head; the mutex is
\* released for the callbacks.  The marker ends the innermost call.
Pop ==
    LET pods == ReadPODs(messageStream)
        names == ReadNames(messageStream)
        read == [i \in DOMAIN calls |-> Paid(calls[i])]
        call == [read[Depth] EXCEPT !.handle = messageStream[2].value]
    IN  /\ calls # <<>>
        /\ Current.at = "pop"
        /\ messageStream' =
              SubSeq(messageStream, Len(pods) + 1, Len(messageStream))
        /\ messageNames' = SubSeq(messageNames, Len(names) + 1, Len(messageNames))
        /\ waiting' = Tail(waiting)
        /\ messageMutex' = "none"
        /\ \/ KindAt(messageStream) = LoopBreak.kind /\ Return
           \/ /\ KindAt(messageStream) # LoopBreak.kind
              /\ calls' = [read EXCEPT ![Depth] =
                             IF GlobalListener THEN [call EXCEPT !.at = "global"]
                             ELSE CallListener(call)]
        /\ UNCHANGED <<sending, listenerVars>>

\* The global listener returns; only then is the handle's listener looked up.
ReturnFromGlobal ==
    /\ calls # <<>>
    /\ Current.at = "global"
    /\ Goto(CallListener(Current))
    /\ UNCHANGED <<streamVars, listenerVars>>

ReturnFromListener ==
    /\ calls # <<>>
    /\ Current.at = "listener"
    /\ Goto([Current EXCEPT !.at = "lock", !.callee = NoListener])
    /\ UNCHANGED <<streamVars, listenerVars>>

\* lock.lock() and the condition of the loop.
Relock ==
    /\ calls # <<>>
    /\ Current.at = "lock"
    /\ messageMutex = "none"
    /\ IF messageStream = <<>> THEN Return /\ UNCHANGED messageMutex
       ELSE Goto([Current EXCEPT !.at = "pop"]) /\ messageMutex' = "client"
    /\ UNCHANGED <<messageStream, messageNames, sending, waiting, listenerVars>>

(***************************************************************************)
(* Listeners                                                               *)
(***************************************************************************)

Registered(h, l) == [k \in DOMAIN registry \cup {h} |->
                        IF k = h THEN l ELSE registry[k]]
Unregistered(h) == [k \in DOMAIN registry \ {h} |-> registry[k]]

Construct(l) ==
    /\ InClientCode
    /\ l \notin alive
    /\ alive' = alive \cup {l}
    /\ handleOf' = [handleOf EXCEPT ![l] = NullHandle]
    /\ UNCHANGED <<streamVars, calls, handleIdx, registry, owning>>

\* Any call that is given a listener that has no handle yet: the new handle is
\* stored in it and it is registered there.
Instantiate(l) ==
    /\ InClientCode
    /\ l \in alive
    /\ handleOf[l] = NullHandle
    /\ handleIdx < MaxHandles
    /\ handleIdx' = handleIdx + 1
    /\ handleOf' = [handleOf EXCEPT ![l] = handleIdx']
    /\ owning' = owning \cup {l}
    /\ registry' = Registered(handleIdx', l)
    /\ UNCHANGED <<streamVars, calls, alive>>

\* referenceListViewModelInstance stores the handle of the list's owner instead.
ReferenceListViewModelInstance(l) ==
    /\ ListReferences
    /\ InClientCode
    /\ l \in alive
    /\ handleOf[l] = NullHandle
    /\ handleIdx < MaxHandles
    /\ handleIdx' = handleIdx + 1
    /\ \E handle \in 1 .. handleIdx :
        handleOf' = [handleOf EXCEPT ![l] = handle]
    /\ owning' = owning \cup {l}
    /\ registry' = Registered(handleIdx', l)
    /\ UNCHANGED <<streamVars, calls, alive>>

\* A bug of this kind: the moved listener stays registered.
MoveUnregistered(other, l) ==
    /\ InClientCode
    /\ other \in alive
    /\ l \notin alive
    /\ alive' = alive \cup {l}
    /\ handleOf' = [handleOf EXCEPT ![l] = handleOf[other]]
    /\ owning' = IF other \in owning THEN (owning \ {other}) \cup {l} ELSE owning
    /\ UNCHANGED <<streamVars, calls, handleIdx, registry>>

\* ListenerBase(ListenerBase&& other): m_owningQueue is moved from other, whose
\* m_handle keeps its value.
Move(other, l) ==
    /\ InClientCode
    /\ other \in alive
    /\ l \notin alive
    /\ alive' = alive \cup {l}
    /\ handleOf' = [handleOf EXCEPT ![l] = handleOf[other]]
    /\ owning' = IF other \in owning THEN (owning \ {other}) \cup {l} ELSE owning
    /\ registry' = IF other \in owning THEN Registered(handleOf[other], l)
                   ELSE registry
    /\ UNCHANGED <<streamVars, calls, handleIdx>>

\* A bug of this kind: the destructor leaves the registration.
DestroyRegistered(l) ==
    /\ InClientCode
    /\ l \in alive
    /\ alive' = alive \ {l}
    /\ owning' = owning \ {l}
    /\ UNCHANGED <<streamVars, calls, handleIdx, registry, handleOf>>

\* ~ListenerBase
Destroy(l) ==
    /\ InClientCode
    /\ l \in alive
    /\ alive' = alive \ {l}
    /\ owning' = owning \ {l}
    /\ registry' = IF l \in owning THEN Unregistered(handleOf[l]) ELSE registry
    /\ UNCHANGED <<streamVars, calls, handleIdx, handleOf>>

(***************************************************************************)
(* Specification                                                           *)
(***************************************************************************)

\* A handle the client is given without a listener.
InstantiateUnheard ==
    /\ InClientCode
    /\ handleIdx < MaxHandles
    /\ handleIdx' = handleIdx + 1
    /\ UNCHANGED <<streamVars, calls, registry, alive, owning, handleOf>>

ServerNext == ServerWrites \/ ServerFinishes

ProcessNext ==
    ProcessMessages \/ Pop \/ ReturnFromGlobal \/ ReturnFromListener \/ Relock

ListenerNext ==
    \/ InstantiateUnheard
    \/ \E l \in Listeners :
        \/ Construct(l) \/ Instantiate(l) \/ ReferenceListViewModelInstance(l)
        \/ Destroy(l)
        \/ \E other \in Listeners : Move(other, l)

Next == ServerNext \/ ProcessNext \/ ListenerNext

\* A message once begun is finished, a callback returns, whatever calls of
\* processMessages it makes before it does, and processMessages, once called,
\* gets the mutex it asks for again and again.
Fairness ==
    /\ WF_vars(ServerFinishes)
    /\ WF_vars(Pop)
    /\ SF_vars(ReturnFromGlobal)
    /\ SF_vars(ReturnFromListener)
    /\ SF_vars(Relock)

Spec == Init /\ [][Next]_vars /\ Fairness

(***************************************************************************)
(* Properties                                                              *)
(***************************************************************************)

CallPoints == {"pop", "global", "listener", "lock"}

\* Type invariant.  The mutex is the server's exactly while it writes a message
\* and the client's exactly while it extracts one, and no other thread and no
\* call further out than the innermost is in the streams.
TypeOK ==
    /\ messageMutex \in {"none", "server", "client"}
    /\ (messageMutex = "server") <=> (sending # <<>>)
    /\ (messageMutex = "client") <=> (calls # <<>> /\ Current.at = "pop")
    /\ \A i \in 1 .. Depth - 1 : calls[i].at \in {"global", "listener"}
    /\ \A i \in DOMAIN calls :
        /\ calls[i].at \in CallPoints
        /\ calls[i].handle \in Handles \cup {NullHandle}
        /\ calls[i].callee \in Listeners \cup {NoListener}
        /\ calls[i].owed \in Nat
    /\ handleIdx \in 0 .. MaxHandles
    /\ alive \subseteq Listeners
    /\ owning \subseteq alive
    /\ handleOf \in [Listeners -> 0 .. handleIdx]
    /\ DOMAIN registry \subseteq 1 .. handleIdx
    /\ \A h \in DOMAIN registry : registry[h] \in Listeners

IsPrefixOf(s, t) == Len(s) <= Len(t) /\ s = SubSeq(t, 1, Len(s))

Written(m) == IF IsMarker(m) THEN <<Field("message", m.kind)>> ELSE WritePODs(m)

\* Whenever the client may extract a message, the fields it is about to take
\* from either stream are the fields the server wrote for the oldest message,
\* no more and no fewer, though server and client were written apart and the
\* number of fields depends on the data (hazard: streams out of step).
ReadsWhatWasWritten ==
    (messageMutex # "server" /\ messageStream # <<>>) =>
        LET m == Head(waiting)
            names == ReadNames(messageStream)
        IN  /\ ReadPODs(messageStream) = FieldNames(Written(m))
            /\ IsPrefixOf(Written(m), messageStream)
            /\ names = (IF IsMarker(m) THEN <<>> ELSE FieldNames(WriteNames(m)))
            /\ IsPrefixOf(names, FieldNames(messageNames))

\* What the listener map holds is alive and knows where it is registered, and a
\* listener that would unregister itself is registered: no pointer in the map
\* dangles, whatever was moved or destroyed in a callback (hazard: lifetimes).
ListenersAreRegisteredOnce ==
    /\ \A h \in DOMAIN registry :
        /\ registry[h] \in owning
        /\ handleOf[registry[h]] = h
    /\ \A l \in owning :
        /\ handleOf[l] \in DOMAIN registry
        /\ registry[handleOf[l]] = l

\* processMessages calls a listener that is alive at that moment, even if the
\* global listener destroyed or moved listeners for the same message just before.
CallsLiveListener ==
    [][\A i \in DOMAIN calls' :
        (calls'[i].at = "listener" /\ (i \notin DOMAIN calls \/ calls[i].at # "listener"))
            => /\ calls'[i].handle \in DOMAIN registry
               /\ calls'[i].callee = registry[calls'[i].handle]
               /\ calls'[i].callee \in alive]_vars

\* "Consume all messages received from the server": a call of processMessages
\* returns only after every message that was waiting when it was made has been
\* extracted (command_queue.hpp:630), whatever calls its callbacks make.  It is
\* so of the outermost call only: a call made in a callback takes the marker of
\* the call around it, returns there, and leaves its own to that call.
ConsumesAllReceived ==
    [][(Depth = 1 /\ Depth' = 0) => Current.owed = 0]_vars

\* "if new messages come in while we're processing the existing ones, we won't
\* loop forever" (command_queue.cpp:1006): the client comes out of
\* processMessages however fast the server sends, provided its callbacks do not
\* call it forever, for each such call moves the end of the outer one.
ProcessMessagesReturns ==
    <>[](Depth <= 1) => ((calls # <<>>) ~> (calls = <<>>))

\* unregisterListener takes "the listener pointer (even though it is not needed)"
\* (command_queue.hpp:719): the handle alone finds the registration to remove,
\* so a registration is removed or replaced only when its own listener is
\* destroyed or moved from.
UnregistersItself ==
    [][\A h \in DOMAIN registry :
        (h \notin DOMAIN registry' \/ registry'[h] # registry[h])
            => registry[h] \notin owning']_vars
==============================================================================
