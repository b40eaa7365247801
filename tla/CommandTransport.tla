-------------------------- MODULE CommandTransport --------------------------
(* The command half of CommandQueue and CommandServer: how commands travel   *)
(* from any number of client threads to the one server thread.               *)
(*                                                                           *)
(* A client call (runtime/src/command_queue.cpp) takes m_commandMutex in an  *)
(* AutoLockAndNotify, writes plain data to m_commandStream and an object to  *)
(* the side stream its command uses, and on leaving its scope notifies the   *)
(* condition variable BEFORE it unlocks.  The server thread                  *)
(* (runtime/src/command_server.cpp) sleeps on the condition variable         *)
(* (waitCommands), marks the end of the batch with commandLoopBreak, then    *)
(* pops under the lock and executes without it (processCommands), and after  *)
(* the batch runs the last draw callback recorded for every draw key.        *)
(*                                                                           *)
(* What a command does to the resources of the server is the subject of      *)
(* ServerResources; here a command is told apart only by the side stream its *)
(* object travels in, the draw key, and a tag that identifies the payload.   *)
EXTENDS Naturals, Sequences

CONSTANTS
    Clients,    \* threads that record commands on the queue
    Server,     \* the thread that owns the CommandServer
    NoThread,   \* nobody holds m_commandMutex
    DrawKeys,   \* keys returned by createDrawKey
    Tags,       \* what tells two payloads of one kind apart
    Nothing,    \* no key, no object, no callback run yet
    ClientOps,  \* the calls the clients make
    ServeModes, \* the entry points the server's host uses
    MaxQueued   \* bound: a call starts only with fewer commands queued

\* One representative for every way a call frames its command ...
Ops == {"deleteFile", "loadFile", "instantiateArtboard", "runOnce", "draw",
        "disconnect", "createDrawKey"}

\* ... and the side stream into which its call puts the object.
ObjectStreams == {"byteVectors", "names", "callbacks", "drawCallbacks"}

StreamOf(op) ==
    CASE op = "loadFile" -> "byteVectors"
      [] op = "instantiateArtboard" -> "names"
      [] op = "runOnce" -> "callbacks"
      [] op = "draw" -> "drawCallbacks"
      [] OTHER -> "none"

ASSUME ThreadsAssumption ==
    /\ Server \notin Clients
    /\ NoThread \notin Clients \cup {Server}

ASSUME ConfigurationAssumption ==
    /\ ClientOps \subseteq Ops
    /\ ServeModes \subseteq {"waitCommands", "processCommands"}
    /\ Nothing \notin Tags \cup DrawKeys
    /\ MaxQueued \in Nat

Threads == Clients \cup {Server}

HasObject(op) == StreamOf(op) \in ObjectStreams

\* The calls a client can make; only draw names a draw key.  op and key are the
\* POD part of the command, the tag stands for the object.
Calls ==
    {c \in [op : ClientOps, key : DrawKeys \cup {Nothing}, tag : Tags] :
        (c.op = "draw") <=> (c.key \in DrawKeys)}

\* The POD part of a command as it lies in m_commandStream.  sent is the tag of
\* the call, kept to compare it with the object the server pops for the command.
PodOf(c) == [op |-> c.op, key |-> c.key, sent |-> c.tag]

\* The marker that processCommands appends is in the stream too.
LoopBreak == [op |-> "commandLoopBreak", key |-> Nothing, sent |-> Nothing]

PODs == {PodOf(c) : c \in Calls} \cup {LoopBreak}

ClientPCs == {"idle", "recording", "object", "notify", "unlock"}
ServerPCs == {"serving", "waitLock", "waitCheck", "blocked", "batchLock",
              "batchBegin", "pop", "execute", "loopLock", "loopCheck",
              "drawing", "disconnected"}

VARIABLES
    commandMutex,         \* the thread that holds m_commandMutex
    commandStream,        \* m_commandStream, one element per command
    objects,              \* m_byteVectors, m_names, m_callbacks, m_drawCallbacks
    pc,                   \* where each thread is
    call,                 \* the call each client is making
    command,              \* the command the server popped, with its object
    uniqueDraws,          \* m_uniqueDraws: draw key -> callback
    drawn,                \* keys whose callback ran in this drawing pass
    presented,            \* draw key -> the callback that ran last for it
    shouldProcessCommands,
    wasDisconnectReceived

vars == <<commandMutex, commandStream, objects, pc, call, command, uniqueDraws,
          drawn, presented, shouldProcessCommands, wasDisconnectReceived>>

clientVars == <<call>>
serverVars == <<command, uniqueDraws, drawn, presented, shouldProcessCommands,
                wasDisconnectReceived>>

Init ==
    /\ commandMutex = NoThread
    /\ commandStream = <<>>
    /\ objects = [s \in ObjectStreams |-> <<>>]
    /\ pc = [t \in Threads |-> IF t = Server THEN "serving" ELSE "idle"]
    /\ call \in [Clients -> {Nothing}]
    /\ command = Nothing
    /\ uniqueDraws = [k \in {} |-> Nothing]
    /\ drawn = {}
    /\ presented = [k \in DrawKeys |-> Nothing]
    /\ shouldProcessCommands = TRUE
    /\ wasDisconnectReceived = FALSE

Goto(t, label) == pc' = [pc EXCEPT ![t] = label]

Acquire(t) == commandMutex = NoThread /\ commandMutex' = t
Release(t) == commandMutex = t /\ commandMutex' = NoThread

(***************************************************************************)
(* Clients                                                                 *)
(***************************************************************************)

\* AutoLockAndNotify's constructor, at the head of every recording call.
BeginCall(c) ==
    /\ pc[c] = "idle"
    /\ Len(commandStream) < MaxQueued
    /\ Acquire(c)
    /\ \E k \in Calls : call' = [call EXCEPT ![c] = k]
    /\ Goto(c, "recording")
    /\ UNCHANGED <<commandStream, objects, serverVars>>

\* m_commandStream << Command::x << handle << ...; createDrawKey only
\* increments its counter under the lock.
RecordPOD(c) ==
    /\ pc[c] = "recording"
    /\ commandStream' = IF call[c].op = "createDrawKey" THEN commandStream
                        ELSE Append(commandStream, PodOf(call[c]))
    /\ Goto(c, IF HasObject(call[c].op) THEN "object" ELSE "notify")
    /\ UNCHANGED <<commandMutex, objects, clientVars, serverVars>>

\* m_byteVectors << ..., m_names << ..., m_callbacks << ..., m_drawCallbacks << ...
RecordObject(c) ==
    /\ pc[c] = "object"
    /\ objects' = [objects EXCEPT
                     ![StreamOf(call[c].op)] = Append(@, call[c].tag)]
    /\ Goto(c, "notify")
    /\ UNCHANGED <<commandMutex, commandStream, clientVars, serverVars>>

\* A bug of this kind: the notification is left out of the destructor.
NotifyDropped(c) ==
    /\ pc[c] = "notify"
    /\ Goto(c, "unlock")
    /\ UNCHANGED <<commandMutex, commandStream, objects, clientVars, serverVars>>

\* ~AutoLockAndNotify: notify_one while the mutex is still held.  The server is
\* the only thread that waits; it has to take the mutex back before it runs on.
Notify(c) ==
    /\ pc[c] = "notify"
    /\ pc' = [pc EXCEPT ![c] = "unlock",
                        ![Server] = IF @ = "blocked" THEN "waitLock" ELSE @]
    /\ UNCHANGED <<commandMutex, commandStream, objects, clientVars, serverVars>>

\* ~AutoLockAndNotify: unlock.
EndCall(c) ==
    /\ pc[c] = "unlock"
    /\ Release(c)
    /\ Goto(c, "idle")
    /\ call' = [call EXCEPT ![c] = Nothing]
    /\ UNCHANGED <<commandStream, objects, serverVars>>

FinishCall(c) == RecordPOD(c) \/ RecordObject(c) \/ Notify(c) \/ EndCall(c)

(***************************************************************************)
(* Server: waitCommands                                                    *)
(***************************************************************************)

\* The first test of commandStream.empty() in waitCommands reads the stream
\* without the lock.
WaitCommands ==
    /\ pc[Server] = "serving"
    /\ "waitCommands" \in ServeModes
    /\ Goto(Server, IF commandStream = <<>> THEN "waitLock" ELSE "batchLock")
    /\ UNCHANGED <<commandMutex, commandStream, objects, clientVars, serverVars>>

\* Take the lock: on entry, or again when the wait returns.
WaitLock ==
    /\ pc[Server] = "waitLock"
    /\ Acquire(Server)
    /\ Goto(Server, "waitCheck")
    /\ UNCHANGED <<commandStream, objects, clientVars, serverVars>>

\* The while loop: test and wait are one step for the other threads, since the
\* lock is held from the test until the wait gives it back.
WaitCheck ==
    /\ pc[Server] = "waitCheck"
    /\ Release(Server)
    /\ Goto(Server, IF commandStream = <<>> THEN "blocked" ELSE "batchLock")
    /\ UNCHANGED <<commandStream, objects, clientVars, serverVars>>

\* A condition variable may return from wait without a notification.
SpuriousWakeup ==
    /\ pc[Server] = "blocked"
    /\ Goto(Server, "waitLock")
    /\ UNCHANGED <<commandMutex, commandStream, objects, clientVars, serverVars>>

(***************************************************************************)
(* Server: processCommands                                                 *)
(***************************************************************************)

\* A host that polls once per frame instead of waiting.
PollCommands ==
    /\ pc[Server] = "serving"
    /\ "processCommands" \in ServeModes
    /\ Goto(Server, "batchLock")
    /\ UNCHANGED <<commandMutex, commandStream, objects, clientVars, serverVars>>

BatchLock ==
    /\ pc[Server] = "batchLock"
    /\ Acquire(Server)
    /\ Goto(Server, "batchBegin")
    /\ UNCHANGED <<commandStream, objects, clientVars, serverVars>>

\* if (commandStream.empty()) return !m_wasDisconnectReceived;
EarlyOut ==
    /\ pc[Server] = "batchBegin"
    /\ commandStream = <<>>
    /\ Release(Server)
    /\ Goto(Server, "serving")
    /\ UNCHANGED <<commandStream, objects, clientVars, serverVars>>

\* A bug of this kind: the batch has no end of its own.
BeginUnmarkedBatch ==
    /\ pc[Server] = "batchBegin"
    /\ commandStream # <<>>
    /\ shouldProcessCommands' = TRUE
    /\ Goto(Server, "pop")
    /\ UNCHANGED <<commandMutex, commandStream, objects, clientVars, command,
                   uniqueDraws, drawn, presented, wasDisconnectReceived>>

\* A bug of this kind: shouldProcessCommands outlives the call.
BeginBatchNoReset ==
    /\ pc[Server] = "batchBegin"
    /\ commandStream # <<>>
    /\ commandStream' = Append(commandStream, LoopBreak)
    /\ Goto(Server, "pop")
    /\ UNCHANGED <<commandMutex, objects, clientVars, command, uniqueDraws,
                   drawn, presented, shouldProcessCommands,
                   wasDisconnectReceived>>

\* commandStream << commandLoopBreak; shouldProcessCommands = true
BeginBatch ==
    /\ pc[Server] = "batchBegin"
    /\ commandStream # <<>>
    /\ commandStream' = Append(commandStream, LoopBreak)
    /\ shouldProcessCommands' = TRUE
    /\ Goto(Server, "pop")
    /\ UNCHANGED <<commandMutex, objects, clientVars, command, uniqueDraws,
                   drawn, presented, wasDisconnectReceived>>

\* The side stream from which the case of a command takes an object.
ReadFrom(op) ==
    CASE op = "loadFile" -> "byteVectors"
      [] op = "instantiateArtboard" -> "names"
      [] op = "runOnce" -> "callbacks"
      [] op = "draw" -> "drawCallbacks"
      [] OTHER -> "none"

\* What the case of a command gets, the oldest object of its stream, ...
Operand(pod) ==
    IF ReadFrom(pod.op) \in ObjectStreams THEN Head(objects[ReadFrom(pod.op)])
    ELSE Nothing

\* A bug of this kind: a name is looked at and not taken.
RestWithName(pod) ==
    [s \in ObjectStreams |-> IF ReadFrom(pod.op) = s /\ s # "names"
                             THEN Tail(objects[s]) ELSE objects[s]]

\* ... and what it leaves of the streams.
Rest(pod) ==
    [s \in ObjectStreams |-> IF ReadFrom(pod.op) = s THEN Tail(objects[s])
                             ELSE objects[s]]

\* commandStream >> command and its operands, then lock.unlock().
Pop ==
    /\ pc[Server] = "pop"
    /\ LET pod == Head(commandStream)
       IN  /\ command' = [pod |-> pod, object |-> Operand(pod)]
           /\ objects' = Rest(pod)
    /\ commandStream' = Tail(commandStream)
    /\ Release(Server)
    /\ Goto(Server, "execute")
    /\ UNCHANGED <<clientVars, uniqueDraws, drawn, presented,
                   shouldProcessCommands, wasDisconnectReceived>>

\* A bug of this kind: std::unordered_map::emplace keeps the first callback.
KeepFirstDraw ==
    /\ pc[Server] = "execute"
    /\ command.pod.op = "draw"
    /\ uniqueDraws' =
         [k \in DOMAIN uniqueDraws \cup {command.pod.key} |->
            IF k \in DOMAIN uniqueDraws THEN uniqueDraws[k] ELSE command.object]
    /\ Goto(Server, "loopLock")
    /\ command' = Nothing
    /\ UNCHANGED <<commandMutex, commandStream, objects, clientVars, drawn,
                   presented, shouldProcessCommands, wasDisconnectReceived>>

\* case draw: m_uniqueDraws[drawKey] = std::move(drawCallback)
ExecuteDraw ==
    /\ pc[Server] = "execute"
    /\ command.pod.op = "draw"
    /\ uniqueDraws' =
         [k \in DOMAIN uniqueDraws \cup {command.pod.key} |->
            IF k = command.pod.key THEN command.object ELSE uniqueDraws[k]]
    /\ Goto(Server, "loopLock")
    /\ command' = Nothing
    /\ UNCHANGED <<commandMutex, commandStream, objects, clientVars, drawn,
                   presented, shouldProcessCommands, wasDisconnectReceived>>

\* case commandLoopBreak: the batch ends with this iteration.
ExecuteLoopBreak ==
    /\ pc[Server] = "execute"
    /\ command.pod.op = "commandLoopBreak"
    /\ shouldProcessCommands' = FALSE
    /\ Goto(Server, "loopLock")
    /\ command' = Nothing
    /\ UNCHANGED <<commandMutex, commandStream, objects, clientVars,
                   uniqueDraws, drawn, presented, wasDisconnectReceived>>

\* case disconnect: return at once; m_uniqueDraws and the stream are left as
\* they are.
ExecuteDisconnect ==
    /\ pc[Server] = "execute"
    /\ command.pod.op = "disconnect"
    /\ wasDisconnectReceived' = TRUE
    /\ Goto(Server, "disconnected")
    /\ command' = Nothing
    /\ UNCHANGED <<commandMutex, commandStream, objects, clientVars,
                   uniqueDraws, drawn, presented, shouldProcessCommands>>

\* Every other case works on the resources of the server, see CommandServer.
ExecuteOther ==
    /\ pc[Server] = "execute"
    /\ command.pod.op \in {"deleteFile", "loadFile", "instantiateArtboard",
                           "runOnce"}
    /\ Goto(Server, "loopLock")
    /\ command' = Nothing
    /\ UNCHANGED <<commandMutex, commandStream, objects, clientVars,
                   uniqueDraws, drawn, presented, shouldProcessCommands,
                   wasDisconnectReceived>>

\* lock.lock() at the foot of the do loop.
LoopLock ==
    /\ pc[Server] = "loopLock"
    /\ Acquire(Server)
    /\ Goto(Server, "loopCheck")
    /\ UNCHANGED <<commandStream, objects, clientVars, serverVars>>

\* while (!commandStream.empty() && shouldProcessCommands): go round with the
\* lock held ...
LoopAgain ==
    /\ pc[Server] = "loopCheck"
    /\ commandStream # <<>> /\ shouldProcessCommands
    /\ Goto(Server, "pop")
    /\ UNCHANGED <<commandMutex, commandStream, objects, clientVars, serverVars>>

\* ... or unlock and go on to the draw callbacks.
LoopExit ==
    /\ pc[Server] = "loopCheck"
    /\ ~(commandStream # <<>> /\ shouldProcessCommands)
    /\ Release(Server)
    /\ Goto(Server, "drawing")
    /\ UNCHANGED <<commandStream, objects, clientVars, serverVars>>

\* for (const auto& drawPair : m_uniqueDraws): the order of an unordered_map.
RunDraw(k) ==
    /\ pc[Server] = "drawing"
    /\ k \in DOMAIN uniqueDraws \ drawn
    /\ drawn' = drawn \cup {k}
    /\ presented' = [presented EXCEPT ![k] = uniqueDraws[k]]
    /\ UNCHANGED <<commandMutex, commandStream, objects, pc, clientVars,
                   command, uniqueDraws, shouldProcessCommands,
                   wasDisconnectReceived>>

\* m_uniqueDraws.clear() and the return to the host.
EndBatch ==
    /\ pc[Server] = "drawing"
    /\ drawn = DOMAIN uniqueDraws
    /\ uniqueDraws' = [k \in {} |-> Nothing]
    /\ drawn' = {}
    /\ Goto(Server, "serving")
    /\ UNCHANGED <<commandMutex, commandStream, objects, clientVars, command,
                   presented, shouldProcessCommands, wasDisconnectReceived>>

Execute == \/ ExecuteDraw \/ ExecuteLoopBreak \/ ExecuteDisconnect
           \/ ExecuteOther

ServerLock == WaitLock \/ BatchLock \/ LoopLock

ServerStep ==
    \/ WaitCommands \/ PollCommands \/ WaitCheck
    \/ EarlyOut \/ BeginBatch \/ Pop \/ Execute \/ LoopAgain \/ LoopExit
    \/ \E k \in DrawKeys : RunDraw(k)
    \/ EndBatch

ClientStep(c) == BeginCall(c) \/ FinishCall(c)

Next ==
    \/ \E c \in Clients : ClientStep(c)
    \/ ServerLock
    \/ ServerStep
    \/ SpuriousWakeup

Spec == Init /\ [][Next]_vars

(* Fairness.  A thread inside a call or a batch goes on running; the host of *)
(* the server keeps calling it; and a mutex that is free again and again is  *)
(* granted to the server in the end.  Nothing makes a client start a call    *)
(* and nothing makes the condition variable wake up by itself.               *)
Fairness ==
    /\ \A c \in Clients : WF_vars(FinishCall(c))
    /\ WF_vars(ServerStep)
    /\ SF_vars(ServerLock)

FairSpec == Spec /\ Fairness

(***************************************************************************)
(* Properties                                                              *)
(***************************************************************************)

\* Every variable keeps its type; the object streams hold payloads and the
\* callbacks recorded for drawing belong to draw keys.
TypeOK ==
    /\ commandMutex \in Threads \cup {NoThread}
    /\ commandStream \in Seq(PODs)
    /\ objects \in [ObjectStreams -> Seq(Tags)]
    /\ pc \in [Threads -> ClientPCs \cup ServerPCs]
    /\ pc[Server] \in ServerPCs
    /\ \A c \in Clients : pc[c] \in ClientPCs
    /\ call \in [Clients -> Calls \cup {Nothing}]
    /\ \A c \in Clients : pc[c] # "idle" => call[c] \in Calls
    /\ pc[Server] = "execute" =>
         command \in [pod : PODs, object : Tags \cup {Nothing}]
    /\ DOMAIN uniqueDraws \subseteq DrawKeys
    /\ \A k \in DOMAIN uniqueDraws : uniqueDraws[k] \in Tags
    /\ drawn \subseteq DOMAIN uniqueDraws
    /\ presented \in [DrawKeys -> Tags \cup {Nothing}]
    /\ shouldProcessCommands \in BOOLEAN
    /\ wasDisconnectReceived \in BOOLEAN

\* The places at which a thread's code relies on holding m_commandMutex.
InCriticalSection(t) ==
    pc[t] \in (ClientPCs \ {"idle"})
               \cup {"waitCheck", "batchBegin", "pop", "loopCheck"}

\* Lock discipline: a thread holds the mutex exactly where its code relies on
\* it, so no two threads touch the streams at once and a command is executed
\* without the lock (the assertion !lock.owns_lock() at the foot of the loop).
MutualExclusion ==
    \A t \in Threads : InCriticalSection(t) <=> (commandMutex = t)

\* No lost wakeup: if the server sleeps while a command is queued, the client
\* that queued it still holds the lock and has its notify_one ahead of it.
NoLostWakeup ==
    (pc[Server] = "blocked" /\ commandStream # <<>>) =>
        \E c \in Clients : pc[c] \in {"object", "notify"}

\* The assertions in waitCommands before it waits: when the server finds the
\* command stream empty under the lock, no client left an object behind in a
\* side stream.
NoOrphanObjects ==
    (pc[Server] = "waitCheck" /\ commandStream = <<>>) =>
        \A s \in ObjectStreams : objects[s] = <<>>

\* The objects objs are those that the commands of stream carry in side stream
\* s: an order preserving map from the one to the other that reaches every
\* command which uses s.
InStep(stream, objs, s) ==
    \E f \in [1..Len(objs) -> 1..Len(stream)] :
        /\ \A i, j \in 1..Len(objs) : i < j => f[i] < f[j]
        /\ \A i \in 1..Len(objs) : /\ StreamOf(stream[f[i]].op) = s
                                  /\ stream[f[i]].sent = objs[i]
        /\ \A n \in 1..Len(stream) :
              StreamOf(stream[n].op) = s => \E i \in 1..Len(objs) : f[i] = n

\* Client c has recorded the POD part of a command but not its object.
Owes(c, s) == pc[c] = "object" /\ StreamOf(call[c].op) = s

\* PODStream requires that "Object types must be read back in the same order
\* they were writen": every side stream is in step with m_commandStream, but
\* for the object that the client holding the lock is about to record.
StreamsInStep ==
    \A s \in ObjectStreams :
        /\ (\A c \in Clients : ~Owes(c, s)) =>
              InStep(commandStream, objects[s], s)
        /\ \A c \in Clients : Owes(c, s) =>
              InStep(commandStream, Append(objects[s], call[c].tag), s)

\* A popped command carries the object its own client recorded with it: what the
\* calls put into the side streams is what the cases of processCommands take out
\* of them, in step with m_commandStream over any interleaving.
OwnObject ==
    pc[Server] = "execute" =>
        command.object = IF HasObject(command.pod.op) THEN command.pod.sent
                         ELSE Nothing

\* assert(m_uniqueDraws.empty()) when a batch begins: no callback survives the
\* batch that recorded it.
NoLeftoverDraws == pc[Server] = "batchBegin" => DOMAIN uniqueDraws = {}

Markers == {i \in DOMAIN commandStream : commandStream[i] = LoopBreak}

InCommandLoop == pc[Server] \in {"pop", "execute", "loopLock", "loopCheck"}

MarkerPopped == pc[Server] = "execute" /\ command.pod.op = "commandLoopBreak"

\* A batch runs up to its own marker and to no other: while it runs there is
\* exactly one marker, in the stream or just popped; otherwise there is none,
\* so neither an old marker nor an empty stream ends a batch early.
BatchEndsAtItsMarker ==
    /\ InCommandLoop /\ shouldProcessCommands /\ ~MarkerPopped =>
         \E i \in DOMAIN commandStream : Markers = {i}
    /\ ~(InCommandLoop /\ shouldProcessCommands /\ ~MarkerPopped)
         /\ pc[Server] # "disconnected" => Markers = {}

\* Drawing is never starved: a recorded draw callback is run (and forgotten)
\* even if clients never stop queueing, unless a disconnect cuts the batch off.
\* This is what the comment on commandLoopBreak asks for.
DrawsAreReached ==
    \A k \in DrawKeys :
        (k \in DOMAIN uniqueDraws) ~>
            (k \notin DOMAIN uniqueDraws \/ wasDisconnectReceived)

(***************************************************************************)
(* Refinement of CommandService                                            *)
(***************************************************************************)

IsCommand(pod) == pod # LoopBreak

\* A stream without its markers.
CommandsOf(stream) ==
    LET UpTo[i \in 0 .. Len(stream)] ==
            IF i = 0 THEN <<>>
            ELSE IF IsCommand(stream[i]) THEN Append(UpTo[i - 1], stream[i])
            ELSE UpTo[i - 1]
    IN UpTo[Len(stream)]

\* The popped command counts as pending until its case has been executed.
pendingCommands ==
    (IF pc[Server] = "execute" /\ IsCommand(command.pod) THEN <<command.pod>>
     ELSE <<>>) \o CommandsOf(commandStream)

latestDraws == [k \in DOMAIN uniqueDraws \ drawn |-> uniqueDraws[k]]

Service == INSTANCE CommandService WITH
    Requests <- PODs, Keys <- DrawKeys, Unset <- Nothing,
    pending <- pendingCommands, latest <- latestDraws, shown <- presented,
    stopped <- wasDisconnectReceived

\* Locks, batches, markers and side streams implement the service: commands
\* are executed once, in order, all of them; of the draws recorded for a key
\* the latest executed is the one that runs.
ImplementsService == Service!ServiceSpec
=============================================================================
