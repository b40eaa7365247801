----------------------- MODULE CommandTransport_proofs -----------------------
(* Proofs about CommandTransport: the lock discipline, no lost wakeup, the    *)
(* side streams in step with the command stream, one marker to a batch and no *)
(* leftover draw callbacks, and that the transport takes no step the abstract  *)
(* CommandService does not allow; for any number of clients, keys and payloads *)
(* and any bound on the queue.                                                *)
EXTENDS CommandTransport, Integers, SequenceTheorems, WellFoundedInduction, TLAPS

(***************************************************************************)
(* A stream and the objects of one side stream                             *)
(***************************************************************************)

\* A command that carries no object of s leaves the side stream in step
\* (m_commandStream << ... of a call that does not use it).
LEMMA InStepAppendOther ==
    ASSUME NEW P, NEW T, NEW stream \in Seq(P), NEW objs \in Seq(T),
           NEW p \in P, NEW s,
           StreamOf(p.op) # s, InStep(stream, objs, s)
    PROVE  InStep(Append(stream, p), objs, s)
<1> DEFINE new == Append(stream, p)
<1>1. PICK f \in [1..Len(objs) -> 1..Len(stream)] :
        /\ \A i, j \in 1..Len(objs) : i < j => f[i] < f[j]
        /\ \A i \in 1..Len(objs) : /\ StreamOf(stream[f[i]].op) = s
                                  /\ stream[f[i]].sent = objs[i]
        /\ \A n \in 1..Len(stream) :
              StreamOf(stream[n].op) = s => \E i \in 1..Len(objs) : f[i] = n
  BY DEF InStep
<1>2. /\ Len(new) = Len(stream) + 1
      /\ \A n \in 1..Len(stream) : new[n] = stream[n]
      /\ new[Len(stream) + 1] = p
      /\ Len(stream) \in Nat /\ Len(objs) \in Nat
  OBVIOUS
<1>3. f \in [1..Len(objs) -> 1..Len(new)]
  BY <1>2
<1>4. \A i \in 1..Len(objs) : /\ StreamOf(new[f[i]].op) = s
                              /\ new[f[i]].sent = objs[i]
  BY <1>1, <1>2
<1>5. ASSUME NEW n \in 1..Len(new), StreamOf(new[n].op) = s
      PROVE  \E i \in 1..Len(objs) : f[i] = n
  <2>1. n \in 1..Len(stream)
    BY <1>2, <1>5
  <2>2. QED
    BY <1>1, <1>2, <1>5, <2>1
<1> HIDE DEF new
<1>6. QED
  BY <1>1, <1>3, <1>4, <1>5 DEF InStep, new

\* A command and its object appended together keep the side stream in step.
LEMMA InStepAppendBoth ==
    ASSUME NEW P, NEW T, NEW stream \in Seq(P), NEW objs \in Seq(T),
           NEW p \in P, NEW s, p.sent \in T,
           StreamOf(p.op) = s, InStep(stream, objs, s)
    PROVE  InStep(Append(stream, p), Append(objs, p.sent), s)
<1> DEFINE new == Append(stream, p)
           more == Append(objs, p.sent)
<1>1. PICK f \in [1..Len(objs) -> 1..Len(stream)] :
        /\ \A i, j \in 1..Len(objs) : i < j => f[i] < f[j]
        /\ \A i \in 1..Len(objs) : /\ StreamOf(stream[f[i]].op) = s
                                  /\ stream[f[i]].sent = objs[i]
        /\ \A n \in 1..Len(stream) :
              StreamOf(stream[n].op) = s => \E i \in 1..Len(objs) : f[i] = n
  BY DEF InStep
<1>2. /\ Len(new) = Len(stream) + 1
      /\ \A n \in 1..Len(stream) : new[n] = stream[n]
      /\ new[Len(stream) + 1] = p
      /\ Len(stream) \in Nat
  OBVIOUS
<1>3. /\ Len(more) = Len(objs) + 1
      /\ \A n \in 1..Len(objs) : more[n] = objs[n]
      /\ more[Len(objs) + 1] = p.sent
      /\ Len(objs) \in Nat
  OBVIOUS
<1> HIDE DEF new, more
<1> DEFINE g == [i \in 1..Len(more) |-> IF i = Len(more) THEN Len(new) ELSE f[i]]
<1>4. g \in [1..Len(more) -> 1..Len(new)]
  BY <1>2, <1>3
<1>5. ASSUME NEW i \in 1..Len(more), NEW j \in 1..Len(more), i < j
      PROVE  g[i] < g[j]
  <2>1. i \in 1..Len(objs) /\ g[i] = f[i] /\ f[i] \in 1..Len(stream)
    BY <1>3, <1>5
  <2>2. CASE j = Len(more)
    BY <1>2, <2>1, <2>2
  <2>3. CASE j # Len(more)
    <3>1. j \in 1..Len(objs) /\ g[j] = f[j]
      BY <1>3, <2>3
    <3>2. QED
      BY <1>1, <1>5, <2>1, <3>1
  <2>4. QED
    BY <2>2, <2>3
<1>6. \A i \in 1..Len(more) : /\ StreamOf(new[g[i]].op) = s
                              /\ new[g[i]].sent = more[i]
  <2> TAKE i \in 1..Len(more)
  <2>1. CASE i = Len(more)
    BY <1>2, <1>3, <2>1
  <2>2. CASE i # Len(more)
    <3>1. i \in 1..Len(objs) /\ g[i] = f[i]
      BY <1>3, <2>2
    <3>2. new[f[i]] = stream[f[i]] /\ more[i] = objs[i]
      BY <1>2, <1>3, <3>1
    <3>3. QED
      BY <1>1, <3>1, <3>2
  <2>3. QED
    BY <2>1, <2>2
<1>7. ASSUME NEW n \in 1..Len(new), StreamOf(new[n].op) = s
      PROVE  \E i \in 1..Len(more) : g[i] = n
  <2>1. CASE n = Len(new)
    <3>1. Len(more) \in 1..Len(more) /\ g[Len(more)] = n
      BY <1>3, <2>1
    <3>2. QED
      BY <3>1
  <2>2. CASE n # Len(new)
    <3>1. n \in 1..Len(stream) /\ new[n] = stream[n]
      BY <1>2, <2>2
    <3>2. PICK i \in 1..Len(objs) : f[i] = n
      BY <1>1, <1>7, <3>1
    <3>3. i \in 1..Len(more) /\ g[i] = n
      BY <1>3, <3>2
    <3>4. QED
      BY <3>3
  <2>3. QED
    BY <2>1, <2>2
<1> HIDE DEF g
<1>8. InStep(new, more, s)
  BY <1>4, <1>5, <1>6, <1>7 DEF InStep
<1>9. QED
  BY <1>8 DEF new, more

\* Popping a command that carries no object of s.
LEMMA InStepTailOther ==
    ASSUME NEW P, NEW T, NEW stream \in Seq(P), NEW objs \in Seq(T), NEW s,
           stream # <<>>, StreamOf(Head(stream).op) # s,
           InStep(stream, objs, s)
    PROVE  InStep(Tail(stream), objs, s)
<1> DEFINE rest == Tail(stream)
<1>1. PICK f \in [1..Len(objs) -> 1..Len(stream)] :
        /\ \A i, j \in 1..Len(objs) : i < j => f[i] < f[j]
        /\ \A i \in 1..Len(objs) : /\ StreamOf(stream[f[i]].op) = s
                                  /\ stream[f[i]].sent = objs[i]
        /\ \A n \in 1..Len(stream) :
              StreamOf(stream[n].op) = s => \E i \in 1..Len(objs) : f[i] = n
  BY DEF InStep
<1>2. /\ Len(stream) = Len(rest) + 1
      /\ \A n \in 1..Len(rest) : rest[n] = stream[n + 1]
      /\ Head(stream) = stream[1]
      /\ Len(rest) \in Nat /\ Len(objs) \in Nat
  OBVIOUS
<1> HIDE DEF rest
<1> DEFINE g == [i \in 1..Len(objs) |-> f[i] - 1]
<1>3. ASSUME NEW i \in 1..Len(objs) PROVE f[i] \in 1..Len(stream) /\ f[i] # 1
  <2>1. StreamOf(stream[f[i]].op) = s /\ StreamOf(stream[1].op) # s
    BY <1>1, <1>2
  <2>2. QED
    BY <2>1
<1>4. g \in [1..Len(objs) -> 1..Len(rest)]
  BY <1>1, <1>2, <1>3
<1>5. ASSUME NEW i \in 1..Len(objs), NEW j \in 1..Len(objs), i < j
      PROVE  g[i] < g[j]
  <2>1. f[i] < f[j] /\ f[i] \in Int /\ f[j] \in Int
    BY <1>1, <1>3, <1>5
  <2>2. QED
    BY <2>1
<1>6. \A i \in 1..Len(objs) : /\ StreamOf(rest[g[i]].op) = s
                              /\ rest[g[i]].sent = objs[i]
  <2> TAKE i \in 1..Len(objs)
  <2>1. f[i] \in 1..Len(stream) /\ Len(stream) \in Nat
    BY <1>2
  <2>2. g[i] \in 1..Len(rest) /\ g[i] + 1 = f[i]
    BY <1>4, <2>1
  <2>3. rest[g[i]] = stream[f[i]]
    BY <1>2, <2>2
  <2>4. QED
    BY <1>1, <2>3
<1>7. ASSUME NEW n \in 1..Len(rest), StreamOf(rest[n].op) = s
      PROVE  \E i \in 1..Len(objs) : g[i] = n
  <2>1. n + 1 \in 1..Len(stream) /\ rest[n] = stream[n + 1]
    BY <1>2
  <2>2. PICK i \in 1..Len(objs) : f[i] = n + 1
    BY <1>1, <1>7, <2>1
  <2>3. g[i] = n
    BY <2>2, <1>3
  <2>4. QED
    BY <2>3
<1> HIDE DEF g
<1>8. InStep(rest, objs, s)
  BY <1>4, <1>5, <1>6, <1>7 DEF InStep
<1>9. QED
  BY <1>8 DEF rest

\* Popping a command and the head of its side stream: the object is the one
\* that was sent with the command, and what is left is in step.
LEMMA InStepTailBoth ==
    ASSUME NEW P, NEW T, NEW stream \in Seq(P), NEW objs \in Seq(T), NEW s,
           stream # <<>>, StreamOf(Head(stream).op) = s,
           InStep(stream, objs, s)
    PROVE  /\ objs # <<>>
           /\ Head(objs) = Head(stream).sent
           /\ InStep(Tail(stream), Tail(objs), s)
<1> DEFINE rest == Tail(stream)
           less == Tail(objs)
<1>1. PICK f \in [1..Len(objs) -> 1..Len(stream)] :
        /\ \A i, j \in 1..Len(objs) : i < j => f[i] < f[j]
        /\ \A i \in 1..Len(objs) : /\ StreamOf(stream[f[i]].op) = s
                                  /\ stream[f[i]].sent = objs[i]
        /\ \A n \in 1..Len(stream) :
              StreamOf(stream[n].op) = s => \E i \in 1..Len(objs) : f[i] = n
  BY DEF InStep
<1>2. /\ Len(stream) = Len(rest) + 1
      /\ \A n \in 1..Len(rest) : rest[n] = stream[n + 1]
      /\ Head(stream) = stream[1]
      /\ Len(rest) \in Nat /\ Len(objs) \in Nat
  OBVIOUS
<1>3. PICK k \in 1..Len(objs) : f[k] = 1
  BY <1>1, <1>2
<1>4. k = 1
  <2>1. SUFFICES ASSUME 1 < k PROVE FALSE
    BY <1>2
  <2>2. 1 \in 1..Len(objs) /\ f[1] < f[k]
    BY <1>1, <2>1
  <2>3. f[1] \in 1..Len(stream)
    BY <1>1, <2>2
  <2>4. QED
    BY <1>3, <2>2, <2>3
<1>5. objs # <<>> /\ 1 \in 1..Len(objs) /\ f[1] = 1
  BY <1>3, <1>4
<1>6. Head(objs) = Head(stream).sent
  BY <1>1, <1>2, <1>5
<1>7. /\ Len(objs) = Len(less) + 1
      /\ \A n \in 1..Len(less) : less[n] = objs[n + 1]
      /\ Len(less) \in Nat
  BY <1>5
<1> HIDE DEF rest, less
<1> DEFINE g == [i \in 1..Len(less) |-> f[i + 1] - 1]
<1>8. \A i \in 1..Len(less) : /\ i + 1 \in 1..Len(objs)
                              /\ f[i + 1] \in 1..Len(stream)
                              /\ f[i + 1] > 1
  BY <1>1, <1>5, <1>7
<1>9. g \in [1..Len(less) -> 1..Len(rest)]
  BY <1>2, <1>8
<1>10. ASSUME NEW i \in 1..Len(less), NEW j \in 1..Len(less), i < j
       PROVE  g[i] < g[j]
  <2>1. /\ i + 1 \in 1..Len(objs) /\ j + 1 \in 1..Len(objs) /\ i + 1 < j + 1
        /\ f[i + 1] \in Int /\ f[j + 1] \in Int
    BY <1>7, <1>8, <1>10
  <2>2. f[i + 1] < f[j + 1]
    BY <1>1, <2>1
  <2>3. QED
    BY <2>1, <2>2
<1>11. ASSUME NEW i \in 1..Len(less)
       PROVE  rest[g[i]] = stream[f[i + 1]] /\ less[i] = objs[i + 1]
  <2>1. f[i + 1] \in 1..Len(stream) /\ Len(stream) \in Nat
    BY <1>2, <1>8
  <2>2. g[i] = f[i + 1] - 1
    OBVIOUS
  <2>3. g[i] \in 1..Len(rest)
    BY <1>9
  <2>4. g[i] + 1 = f[i + 1]
    BY <2>1, <2>2
  <2>5. rest[g[i]] = stream[f[i + 1]]
    BY <1>2, <2>3, <2>4
  <2>6. QED
    BY <1>7, <2>5
<1>12. \A i \in 1..Len(less) : /\ StreamOf(rest[g[i]].op) = s
                               /\ rest[g[i]].sent = less[i]
  <2> TAKE i \in 1..Len(less)
  <2>1. i + 1 \in 1..Len(objs)
    BY <1>8
  <2>2. StreamOf(stream[f[i + 1]].op) = s /\ stream[f[i + 1]].sent = objs[i + 1]
    BY <1>1, <2>1
  <2>3. QED
    BY <1>11, <2>2
<1>13. ASSUME NEW n \in 1..Len(rest), StreamOf(rest[n].op) = s
       PROVE  \E i \in 1..Len(less) : g[i] = n
  <2>1. n + 1 \in 1..Len(stream) /\ rest[n] = stream[n + 1]
    BY <1>2
  <2>2. PICK i \in 1..Len(objs) : f[i] = n + 1
    BY <1>1, <1>13, <2>1
  <2>3. i # 1
    BY <1>5, <2>2
  <2>4. i - 1 \in 1..Len(less) /\ (i - 1) + 1 = i
    BY <1>7, <2>3
  <2>5. g[i - 1] = n
    BY <1>2, <2>2, <2>4
  <2>6. QED
    BY <2>4, <2>5
<1> HIDE DEF g
<1>14. InStep(rest, less, s)
  BY <1>9, <1>10, <1>12, <1>13 DEF InStep
<1>15. QED
  BY <1>5, <1>6, <1>14 DEF rest, less

\* With no command left there is no object left.
LEMMA InStepEmpty ==
    ASSUME NEW T, NEW objs \in Seq(T), NEW s
    PROVE  /\ InStep(<<>>, objs, s) => objs = <<>>
           /\ InStep(<<>>, <<>>, s)
<1>1. ASSUME InStep(<<>>, objs, s) PROVE objs = <<>>
  <2>1. PICK f \in [1..Len(objs) -> 1..Len(<<>>)] : TRUE
    BY <1>1 DEF InStep
  <2>2. 1..Len(objs) = {}
    BY <2>1
  <2>3. QED
    BY <2>2
<1>2. InStep(<<>>, <<>>, s)
  <2> DEFINE f == [i \in 1..0 |-> i]
  <2>1. f \in [1..Len(<<>>) -> 1..Len(<<>>)] /\ 1..Len(<<>>) = {}
    OBVIOUS
  <2>2. QED
    BY <2>1 DEF InStep
<1>3. QED
  BY <1>1, <1>2

(***************************************************************************)
(* The inductive invariant                                                 *)
(***************************************************************************)

\* The server reads a command only where there is one.
PopHasCommand == pc[Server] = "pop" => commandStream # <<>>

\* Callbacks are recorded between the start of a batch and its end.
DrawsOnlyInBatch ==
    pc[Server] \in {"serving", "waitLock", "waitCheck", "blocked", "batchLock",
                   "batchBegin"} => DOMAIN uniqueDraws = {}

IInv ==
    /\ TypeOK
    /\ MutualExclusion
    /\ StreamsInStep
    /\ OwnObject
    /\ PopHasCommand
    /\ DrawsOnlyInBatch

\* The initial states satisfy the inductive invariant.
LEMMA InitIInv == Init => IInv
<1> SUFFICES ASSUME Init PROVE IInv
  OBVIOUS
<1> USE DEF Init
<1>1. \A t \in Threads : pc[t] = IF t = Server THEN "serving" ELSE "idle"
  OBVIOUS
<1>2. \A c \in Clients : pc[c] = "idle"
  BY <1>1, ThreadsAssumption DEF Threads
<1>3. pc[Server] = "serving"
  BY <1>1 DEF Threads
<1>4. TypeOK
  <2>1. /\ commandMutex \in Threads \cup {NoThread}
        /\ pc \in [Threads -> ClientPCs \cup ServerPCs]
        /\ pc[Server] \in ServerPCs
        /\ \A c \in Clients : pc[c] \in ClientPCs
    BY <1>2, <1>3 DEF Threads, ClientPCs, ServerPCs
  <2>2. commandStream \in Seq(PODs) /\ objects \in [ObjectStreams -> Seq(Tags)]
    OBVIOUS
  <2>3. call \in [Clients -> Calls \cup {Nothing}]
    OBVIOUS
  <2>4. /\ DOMAIN uniqueDraws = {}
        /\ drawn \subseteq DOMAIN uniqueDraws
        /\ presented \in [DrawKeys -> Tags \cup {Nothing}]
    OBVIOUS
  <2>5. QED
    BY <1>2, <1>3, <2>1, <2>2, <2>3, <2>4 DEF TypeOK
<1>5. MutualExclusion
  <2> SUFFICES ASSUME NEW t \in Threads
               PROVE  InCriticalSection(t) <=> (commandMutex = t)
    BY DEF MutualExclusion
  <2>1. commandMutex # t
    BY ThreadsAssumption DEF Threads
  <2>2. ~InCriticalSection(t)
    BY <1>2, <1>3 DEF InCriticalSection, ClientPCs, Threads
  <2>3. QED
    BY <2>1, <2>2
<1>6. StreamsInStep
  <2> SUFFICES ASSUME NEW s \in ObjectStreams
               PROVE  /\ InStep(commandStream, objects[s], s)
                      /\ \A c \in Clients : ~Owes(c, s)
    BY DEF StreamsInStep
  <2>1. InStep(commandStream, objects[s], s)
    <3>1. commandStream = <<>> /\ objects[s] = <<>>
      OBVIOUS
    <3>2. <<>> \in Seq(Tags)
      OBVIOUS
    <3>3. QED
      BY <3>1, <3>2, InStepEmpty
  <2>2. \A c \in Clients : ~Owes(c, s)
    BY <1>2 DEF Owes
  <2>3. QED
    BY <2>1, <2>2
<1>7. OwnObject /\ PopHasCommand /\ DrawsOnlyInBatch
  BY <1>3 DEF OwnObject, PopHasCommand, DrawsOnlyInBatch
<1>8. QED
  BY <1>4, <1>5, <1>6, <1>7 DEF IInv

\* Every step keeps the lock discipline: Acquire and Release bracket exactly the
\* places that rely on the lock.
LEMMA MutualExclusionStep ==
    TypeOK /\ MutualExclusion /\ [Next]_vars => MutualExclusion'
<1> SUFFICES ASSUME TypeOK, MutualExclusion, [Next]_vars
             PROVE  MutualExclusion'
  OBVIOUS
<1> USE ThreadsAssumption DEF MutualExclusion, InCriticalSection, Threads,
        ClientPCs, ServerPCs, TypeOK, Goto, Acquire, Release
<1>1. ASSUME NEW c \in Clients, ClientStep(c) PROVE MutualExclusion'
  <2>1. CASE BeginCall(c)
    BY <2>1 DEF BeginCall
  <2>2. CASE RecordPOD(c)
    BY <2>2 DEF RecordPOD
  <2>3. CASE RecordObject(c)
    BY <2>3 DEF RecordObject
  <2>4. CASE Notify(c)
    BY <2>4 DEF Notify
  <2>5. CASE EndCall(c)
    BY <2>5 DEF EndCall
  <2>6. QED
    BY <1>1, <2>1, <2>2, <2>3, <2>4, <2>5 DEF ClientStep, FinishCall
<1>2. CASE ServerLock
  BY <1>2 DEF ServerLock, WaitLock, BatchLock, LoopLock
<1>3. CASE WaitCommands \/ PollCommands \/ SpuriousWakeup
  BY <1>3 DEF WaitCommands, PollCommands, SpuriousWakeup
<1>4. CASE WaitCheck \/ EarlyOut \/ LoopExit \/ Pop
  BY <1>4 DEF WaitCheck, EarlyOut, LoopExit, Pop
<1>5. CASE BeginBatch \/ LoopAgain
  BY <1>5 DEF BeginBatch, LoopAgain
<1>6. CASE Execute
  BY <1>6 DEF Execute, ExecuteDraw, ExecuteLoopBreak, ExecuteDisconnect,
              ExecuteOther
<1>7. CASE EndBatch \/ \E k \in DrawKeys : RunDraw(k)
  BY <1>7 DEF EndBatch, RunDraw
<1>8. CASE UNCHANGED vars
  BY <1>8 DEF vars
<1>9. QED
  BY <1>1, <1>2, <1>3, <1>4, <1>5, <1>6, <1>7, <1>8 DEF Next, ServerStep

\* The case of a command takes its object from where its call has put it.
LEMMA ReadsWhereWritten ==
    /\ \A op : ReadFrom(op) = StreamOf(op)
    /\ \A pod : Operand(pod) = IF HasObject(pod.op) THEN Head(objects[StreamOf(pod.op)])
                               ELSE Nothing
    /\ \A pod : Rest(pod) = [s \in ObjectStreams |->
                               IF StreamOf(pod.op) = s THEN Tail(objects[s])
                               ELSE objects[s]]
<1>1. \A op : ReadFrom(op) = StreamOf(op)
  BY DEF ReadFrom, StreamOf
<1>2. QED
  BY <1>1 DEF Operand, Rest, HasObject

\* What Pop reads: the head of the stream, and for a command that carries an
\* object the head of its side stream, which is the object sent with it.
LEMMA PopOperand ==
    ASSUME IInv, Pop
    PROVE  /\ commandStream # <<>>
           /\ Head(commandStream) \in PODs
           /\ Operand(Head(commandStream)) =
                IF HasObject(Head(commandStream).op)
                THEN Head(commandStream).sent ELSE Nothing
           /\ \A s \in ObjectStreams : \A c \in Clients : ~Owes(c, s)
           /\ \A s \in ObjectStreams :
                StreamOf(Head(commandStream).op) = s => objects[s] # <<>>
<1>1. commandStream # <<>> /\ pc[Server] = "pop"
  BY DEF IInv, PopHasCommand, Pop
<1>2. commandStream \in Seq(PODs) /\ Head(commandStream) \in PODs
  BY <1>1 DEF IInv, TypeOK
<1>3. commandMutex = Server
  BY <1>1 DEF IInv, MutualExclusion, InCriticalSection, Threads
<1>4. ASSUME NEW s \in ObjectStreams, NEW c \in Clients PROVE ~Owes(c, s)
  <2>1. commandMutex # c
    BY <1>3, ThreadsAssumption
  <2>2. pc[c] # "object"
    BY <2>1 DEF IInv, MutualExclusion, InCriticalSection, Threads, ClientPCs
  <2>3. QED
    BY <2>2 DEF Owes
<1>5. ASSUME NEW s \in ObjectStreams, StreamOf(Head(commandStream).op) = s
      PROVE  objects[s] # <<>> /\ Head(objects[s]) = Head(commandStream).sent
  <2>1. InStep(commandStream, objects[s], s)
    BY <1>4 DEF IInv, StreamsInStep
  <2>2. objects[s] \in Seq(Tags)
    BY DEF IInv, TypeOK
  <2>3. QED
    BY <1>1, <1>2, <1>5, <2>1, <2>2, InStepTailBoth
<1>6. QED
  BY <1>1, <1>2, <1>4, <1>5, ReadsWhereWritten DEF HasObject

\* Every step keeps the types.
LEMMA TypeOKStep == IInv /\ [Next]_vars => TypeOK'
<1> SUFFICES ASSUME IInv, [Next]_vars
             PROVE  TypeOK'
  OBVIOUS
<1>0. TypeOK
  BY DEF IInv
<1> USE ThreadsAssumption DEF Threads, ClientPCs, ServerPCs, Goto, Acquire,
        Release
<1>1. ASSUME NEW c \in Clients, ClientStep(c) PROVE TypeOK'
  <2>0. c # Server
    OBVIOUS
  <2>1. CASE BeginCall(c)
    BY <1>0, <2>0, <2>1 DEF BeginCall, TypeOK, serverVars
  <2>2. CASE RecordPOD(c)
    <3>1. pc[c] = "recording" /\ call[c] \in Calls
      BY <1>0, <2>2 DEF RecordPOD, TypeOK
    <3>2. PodOf(call[c]) \in PODs
      BY <3>1 DEF PODs
    <3>3. commandStream' \in Seq(PODs)
      BY <1>0, <2>2, <3>2 DEF RecordPOD, TypeOK
    <3>4. QED
      BY <1>0, <2>0, <2>2, <3>1, <3>3
      DEF RecordPOD, TypeOK, clientVars, serverVars
  <2>3. CASE RecordObject(c)
    <3>1. pc[c] = "object" /\ call[c] \in Calls
      BY <1>0, <2>3 DEF RecordObject, TypeOK
    <3>2. call[c].tag \in Tags
      BY <3>1 DEF Calls
    <3>3. objects' \in [ObjectStreams -> Seq(Tags)]
      <4>1. objects \in [ObjectStreams -> Seq(Tags)]
        BY <1>0 DEF TypeOK
      <4>2. ASSUME NEW s \in ObjectStreams, StreamOf(call[c].op) = s
            PROVE  Append(objects[s], call[c].tag) \in Seq(Tags)
        BY <3>2, <4>1
      <4>3. objects' = [objects EXCEPT ![StreamOf(call[c].op)] =
                          Append(objects[StreamOf(call[c].op)], call[c].tag)]
        BY <2>3 DEF RecordObject
      <4>4. CASE StreamOf(call[c].op) \in ObjectStreams
        BY <4>1, <4>2, <4>3, <4>4
      <4>5. CASE StreamOf(call[c].op) \notin ObjectStreams
        BY <4>1, <4>3, <4>5
      <4>6. QED
        BY <4>4, <4>5
    <3>4. QED
      BY <1>0, <2>0, <2>3, <3>1, <3>3
      DEF RecordObject, TypeOK, clientVars, serverVars
  <2>4. CASE Notify(c)
    BY <1>0, <2>0, <2>4 DEF Notify, TypeOK, clientVars, serverVars
  <2>5. CASE EndCall(c)
    BY <1>0, <2>0, <2>5 DEF EndCall, TypeOK, serverVars
  <2>6. QED
    BY <1>1, <2>1, <2>2, <2>3, <2>4, <2>5 DEF ClientStep, FinishCall
<1>2. CASE ServerLock
  BY <1>0, <1>2 DEF ServerLock, WaitLock, BatchLock, LoopLock, TypeOK,
                   clientVars, serverVars
<1>3. CASE WaitCommands \/ PollCommands \/ SpuriousWakeup
  BY <1>0, <1>3 DEF WaitCommands, PollCommands, SpuriousWakeup, TypeOK,
                   clientVars, serverVars
<1>4. CASE WaitCheck \/ EarlyOut \/ LoopExit
  BY <1>0, <1>4 DEF WaitCheck, EarlyOut, LoopExit, TypeOK, clientVars, serverVars
<1>5. CASE BeginBatch
  <2>1. commandStream' \in Seq(PODs)
    BY <1>0, <1>5 DEF BeginBatch, TypeOK, PODs
  <2>2. QED
    BY <1>0, <1>5, <2>1 DEF BeginBatch, TypeOK, clientVars
<1>6. CASE LoopAgain
  BY <1>0, <1>6 DEF LoopAgain, TypeOK, clientVars, serverVars
<1>7. CASE Pop
  <2> DEFINE pod == Head(commandStream)
  <2>1. commandStream # <<>> /\ pod \in PODs
    BY <1>7, PopOperand
  <2>2. HasObject(pod.op) => pod.sent \in Tags
    <3>1. LoopBreak.op = "commandLoopBreak"
      BY DEF LoopBreak
    <3>2. ~HasObject("commandLoopBreak")
      BY DEF HasObject, StreamOf, ObjectStreams
    <3>3. \A k \in Calls : PodOf(k).sent \in Tags
      BY DEF PodOf, Calls
    <3>4. CASE pod = LoopBreak
      BY <3>1, <3>2, <3>4
    <3>5. CASE \E k \in Calls : pod = PodOf(k)
      BY <3>3, <3>5
    <3>6. QED
      BY <2>1, <3>4, <3>5 DEF PODs
  <2>3. Operand(pod) \in Tags \cup {Nothing}
    BY <1>7, <2>2, PopOperand
  <2>4. command' \in [pod : PODs, object : Tags \cup {Nothing}]
    BY <1>7, <2>1, <2>3 DEF Pop
  <2>5. objects' \in [ObjectStreams -> Seq(Tags)]
    <3>1. \A s \in ObjectStreams :
             StreamOf(pod.op) = s => objects[s] # <<>>
      BY <1>7, PopOperand
    <3>2. objects' = [s \in ObjectStreams |->
                        IF StreamOf(pod.op) = s THEN Tail(objects[s])
                        ELSE objects[s]]
      BY <1>7, ReadsWhereWritten DEF Pop
    <3>3. \A s \in ObjectStreams : objects[s] \in Seq(Tags)
      BY <1>0 DEF TypeOK
    <3>4. \A s \in ObjectStreams :
             StreamOf(pod.op) = s => Tail(objects[s]) \in Seq(Tags)
      BY <3>1, <3>3
    <3>5. QED
      BY <3>2, <3>3, <3>4
  <2>6. commandStream' \in Seq(PODs)
    BY <1>0, <1>7, <2>1 DEF Pop, TypeOK
  <2>7. QED
    BY <1>0, <1>7, <2>4, <2>5, <2>6 DEF Pop, TypeOK, clientVars
<1>8. CASE ExecuteDraw
  <2>1. /\ command \in [pod : PODs, object : Tags \cup {Nothing}]
        /\ command.pod.op = "draw" /\ pc[Server] = "execute"
    BY <1>0, <1>8 DEF ExecuteDraw, TypeOK
  <2>2. HasObject("draw")
    BY DEF HasObject, StreamOf, ObjectStreams
  <2>3. command.object = command.pod.sent
    BY <2>1, <2>2 DEF IInv, OwnObject
  <2>4. PICK k \in Calls : command.pod = PodOf(k)
    BY <2>1 DEF PODs, LoopBreak
  <2>5. k.op = "draw" /\ command.pod.key = k.key /\ command.pod.sent = k.tag
    BY <2>1, <2>4 DEF PodOf
  <2>6. command.pod.key \in DrawKeys /\ command.object \in Tags
    BY <2>3, <2>5 DEF Calls
  <2>7. QED
    BY <1>0, <1>8, <2>6 DEF ExecuteDraw, TypeOK, clientVars
<1>9. CASE ExecuteLoopBreak \/ ExecuteDisconnect \/ ExecuteOther
  BY <1>0, <1>9 DEF ExecuteLoopBreak, ExecuteDisconnect, ExecuteOther, TypeOK,
                   clientVars
<1>10. ASSUME NEW k \in DrawKeys, RunDraw(k) PROVE TypeOK'
  BY <1>0, <1>10 DEF RunDraw, TypeOK, clientVars
<1>11. CASE EndBatch
  BY <1>0, <1>11 DEF EndBatch, TypeOK, clientVars
<1>12. CASE UNCHANGED vars
  BY <1>0, <1>12 DEF vars, TypeOK
<1>13. QED
  BY <1>1, <1>2, <1>3, <1>4, <1>5, <1>6, <1>7, <1>8, <1>9, <1>10, <1>11, <1>12
  DEF Next, ServerStep, Execute

\* Every step keeps the side streams in step with the command stream.
LEMMA StreamsInStepStep == IInv /\ [Next]_vars => StreamsInStep'
<1> SUFFICES ASSUME IInv, [Next]_vars
             PROVE  StreamsInStep'
  OBVIOUS
<1>0. TypeOK /\ MutualExclusion /\ StreamsInStep
  BY DEF IInv
<1>t. /\ commandStream \in Seq(PODs)
      /\ \A s \in ObjectStreams : objects[s] \in Seq(Tags)
  BY <1>0 DEF TypeOK
<1>u. ASSUME UNCHANGED <<commandStream, objects, call>>,
             \A c \in Clients : pc'[c] = "object" <=> pc[c] = "object"
      PROVE  StreamsInStep'
  BY <1>0, <1>u DEF StreamsInStep, Owes
<1>1. ASSUME NEW c \in Clients, ClientStep(c) PROVE StreamsInStep'
  <2>1. CASE BeginCall(c)
    <3>1. commandMutex = NoThread
      BY <2>1 DEF BeginCall, Acquire
    <3>2. \A d \in Clients : pc[d] # "object"
      BY <1>0, <3>1, ThreadsAssumption
      DEF MutualExclusion, InCriticalSection, Threads, ClientPCs
    <3>3. \A d \in Clients : pc'[d] # "object"
      BY <1>0, <2>1, <3>2 DEF BeginCall, Goto, TypeOK
    <3>4. UNCHANGED <<commandStream, objects>>
      BY <2>1 DEF BeginCall
    <3>5. QED
      BY <1>0, <3>2, <3>3, <3>4 DEF StreamsInStep, Owes
  <2>2. CASE RecordPOD(c)
    <3> DEFINE p == PodOf(call[c])
    <3>1. pc[c] = "recording" /\ call[c] \in Calls
      BY <1>0, <2>2 DEF RecordPOD, TypeOK
    <3>2. /\ p \in PODs
          /\ p.op = call[c].op /\ p.sent = call[c].tag /\ p.sent \in Tags
      BY <3>1 DEF PODs, PodOf, Calls
    <3>3. \A d \in Clients : pc[d] # "object"
      <4>1. commandMutex = c
        BY <1>0, <3>1
        DEF MutualExclusion, InCriticalSection, Threads, ClientPCs
      <4>2. QED
        BY <1>0, <3>1, <4>1
        DEF MutualExclusion, InCriticalSection, Threads, ClientPCs
    <3>4. \A d \in Clients :
             pc'[d] = "object" <=> (d = c /\ HasObject(call[c].op))
      BY <1>0, <2>2, <3>3 DEF RecordPOD, Goto, TypeOK, Threads
    <3>5. objects' = objects /\ call' = call
      BY <2>2 DEF RecordPOD, clientVars
    <3>6. SUFFICES ASSUME NEW s \in ObjectStreams
                   PROVE  /\ (\A d \in Clients : ~Owes(d, s)') =>
                                InStep(commandStream', objects[s], s)
                          /\ \A d \in Clients : Owes(d, s)' =>
                                InStep(commandStream',
                                       Append(objects[s], call[d].tag), s)
      BY <3>5 DEF StreamsInStep
    <3>7. InStep(commandStream, objects[s], s)
      BY <1>0, <3>3 DEF StreamsInStep, Owes
    <3>8. \A d \in Clients :
             Owes(d, s)' <=> (d = c /\ StreamOf(call[c].op) = s)
      BY <3>4, <3>5 DEF Owes, HasObject
    <3>9. CASE StreamOf(call[c].op) = s
      <4>1. call[c].op # "createDrawKey"
        BY <3>9 DEF StreamOf, ObjectStreams
      <4>2. commandStream' = Append(commandStream, p)
        BY <2>2, <4>1 DEF RecordPOD
      <4>3. InStep(Append(commandStream, p), Append(objects[s], p.sent), s)
        BY <1>t, <3>2, <3>7, <3>9, InStepAppendBoth
      <4>4. QED
        BY <3>2, <3>8, <3>9, <4>2, <4>3
    <3>10. CASE StreamOf(call[c].op) # s
      <4>1. InStep(Append(commandStream, p), objects[s], s)
        BY <1>t, <3>2, <3>7, <3>10, InStepAppendOther
      <4>2. commandStream' \in {commandStream, Append(commandStream, p)}
        BY <2>2 DEF RecordPOD
      <4>3. QED
        BY <3>7, <3>8, <3>10, <4>1, <4>2
    <3>11. QED
      BY <3>9, <3>10
  <2>3. CASE RecordObject(c)
    <3>1. pc[c] = "object" /\ call[c] \in Calls
      BY <1>0, <2>3 DEF RecordObject, TypeOK
    <3>2. commandMutex = c
      BY <1>0, <3>1 DEF MutualExclusion, InCriticalSection, Threads, ClientPCs
    <3>3. \A d \in Clients : pc[d] = "object" => d = c
      BY <1>0, <3>2 DEF MutualExclusion, InCriticalSection, Threads, ClientPCs
    <3>4. \A d \in Clients : pc'[d] # "object"
      BY <1>0, <2>3, <3>3 DEF RecordObject, Goto, TypeOK, Threads
    <3>5. commandStream' = commandStream /\ call' = call
      BY <2>3 DEF RecordObject, clientVars
    <3>6. SUFFICES ASSUME NEW s \in ObjectStreams
                   PROVE  InStep(commandStream, objects'[s], s)
      BY <3>4, <3>5 DEF StreamsInStep, Owes
    <3>7. objects'[s] = IF StreamOf(call[c].op) = s
                        THEN Append(objects[s], call[c].tag) ELSE objects[s]
      BY <1>0, <2>3 DEF RecordObject, TypeOK
    <3>8. CASE StreamOf(call[c].op) = s
      BY <1>0, <3>1, <3>7, <3>8 DEF StreamsInStep, Owes
    <3>9. CASE StreamOf(call[c].op) # s
      <4>1. \A d \in Clients : ~Owes(d, s)
        BY <3>3, <3>9 DEF Owes
      <4>2. QED
        BY <1>0, <3>7, <3>9, <4>1 DEF StreamsInStep
    <3>10. QED
      BY <3>8, <3>9
  <2>4. CASE Notify(c)
    BY <1>0, <1>u, <2>4, ThreadsAssumption DEF Notify, clientVars, TypeOK, Threads
  <2>5. CASE EndCall(c)
    <3>1. pc[c] = "unlock" /\ commandMutex = c
      BY <2>5 DEF EndCall, Release
    <3>2. \A d \in Clients : pc[d] # "object"
      BY <1>0, <3>1 DEF MutualExclusion, InCriticalSection, Threads, ClientPCs
    <3>3. \A d \in Clients : pc'[d] # "object"
      BY <1>0, <2>5, <3>2 DEF EndCall, Goto, TypeOK
    <3>4. UNCHANGED <<commandStream, objects>>
      BY <2>5 DEF EndCall
    <3>5. QED
      BY <1>0, <3>2, <3>3, <3>4 DEF StreamsInStep, Owes
  <2>6. QED
    BY <1>1, <2>1, <2>2, <2>3, <2>4, <2>5 DEF ClientStep, FinishCall
<1>v. ASSUME UNCHANGED <<commandStream, objects, clientVars>>,
             NEW label, Goto(Server, label)
      PROVE  StreamsInStep'
  BY <1>0, <1>u, <1>v, ThreadsAssumption DEF Goto, TypeOK, Threads, clientVars
<1>2. CASE ServerLock
  BY <1>2, <1>v DEF ServerLock, WaitLock, BatchLock, LoopLock
<1>3. CASE WaitCommands \/ PollCommands \/ SpuriousWakeup
  BY <1>3, <1>v DEF WaitCommands, PollCommands, SpuriousWakeup
<1>4. CASE WaitCheck \/ EarlyOut \/ LoopExit \/ LoopAgain
  BY <1>4, <1>v DEF WaitCheck, EarlyOut, LoopExit, LoopAgain
<1>5. CASE Execute
  BY <1>5, <1>v DEF Execute, ExecuteDraw, ExecuteLoopBreak, ExecuteDisconnect,
                   ExecuteOther
<1>6. CASE EndBatch
  BY <1>6, <1>v DEF EndBatch
<1>7. ASSUME NEW k \in DrawKeys, RunDraw(k) PROVE StreamsInStep'
  BY <1>7, <1>u DEF RunDraw, clientVars
<1>8. CASE BeginBatch
  <2>1. pc[Server] = "batchBegin"
    BY <1>8 DEF BeginBatch
  <2>2. \A d \in Clients : pc[d] # "object"
    BY <1>0, <2>1, ThreadsAssumption
    DEF MutualExclusion, InCriticalSection, Threads, ClientPCs
  <2>3. \A d \in Clients : pc'[d] # "object"
    BY <1>0, <1>8, <2>2, ThreadsAssumption DEF BeginBatch, Goto, TypeOK, Threads
  <2>4. /\ commandStream' = Append(commandStream, LoopBreak)
        /\ objects' = objects
    BY <1>8 DEF BeginBatch
  <2>5. SUFFICES ASSUME NEW s \in ObjectStreams
                 PROVE  InStep(Append(commandStream, LoopBreak), objects[s], s)
    BY <2>3, <2>4 DEF StreamsInStep, Owes
  <2>6. InStep(commandStream, objects[s], s)
    BY <1>0, <2>2 DEF StreamsInStep, Owes
  <2>7. LoopBreak \in PODs /\ StreamOf(LoopBreak.op) # s
    BY DEF PODs, LoopBreak, StreamOf, ObjectStreams
  <2>8. QED
    BY <1>t, <2>6, <2>7, InStepAppendOther
<1>9. CASE Pop
  <2> DEFINE pod == Head(commandStream)
  <2>1. commandStream # <<>> /\ \A s \in ObjectStreams : \A c \in Clients : ~Owes(c, s)
    BY <1>9, PopOperand
  <2>2. \A s \in ObjectStreams : \A c \in Clients : ~Owes(c, s)'
    BY <1>0, <1>9, <2>1, ThreadsAssumption
    DEF Pop, Goto, TypeOK, Threads, clientVars, Owes
  <2>3. commandStream' = Tail(commandStream)
    BY <1>9 DEF Pop
  <2>4. SUFFICES ASSUME NEW s \in ObjectStreams
                 PROVE  InStep(Tail(commandStream), objects'[s], s)
    BY <2>2, <2>3 DEF StreamsInStep
  <2>5. objects'[s] = IF StreamOf(pod.op) = s THEN Tail(objects[s])
                      ELSE objects[s]
    BY <1>9, ReadsWhereWritten DEF Pop
  <2>6. InStep(commandStream, objects[s], s)
    BY <1>0, <2>1 DEF StreamsInStep
  <2>7. CASE StreamOf(pod.op) = s
    BY <1>t, <2>1, <2>5, <2>6, <2>7, InStepTailBoth
  <2>8. CASE StreamOf(pod.op) # s
    BY <1>t, <2>1, <2>5, <2>6, <2>8, InStepTailOther
  <2>9. QED
    BY <2>7, <2>8
<1>10. CASE UNCHANGED vars
  BY <1>10, <1>u DEF vars
<1>11. QED
  BY <1>1, <1>2, <1>3, <1>4, <1>5, <1>6, <1>7, <1>8, <1>9, <1>10
  DEF Next, ServerStep

\* Every step keeps a popped command together with its own object.
LEMMA OwnObjectStep == IInv /\ [Next]_vars => OwnObject'
<1> SUFFICES ASSUME IInv, [Next]_vars, pc'[Server] = "execute"
             PROVE  command'.object = IF HasObject(command'.pod.op)
                                      THEN command'.pod.sent ELSE Nothing
  BY DEF OwnObject
<1>0. TypeOK /\ OwnObject
  BY DEF IInv
<1>1. CASE Pop
  <2>1. /\ command'.pod = Head(commandStream)
        /\ command'.object = Operand(Head(commandStream))
    BY <1>1 DEF Pop
  <2>2. QED
    BY <1>1, <2>1, PopOperand
<1>2. CASE ~Pop
  <2>1. command' = command /\ pc[Server] = "execute"
    <3> USE ThreadsAssumption, <1>0, <1>2 DEF TypeOK, Threads, Goto
    <3>1. ASSUME NEW c \in Clients, ClientStep(c)
          PROVE  command' = command /\ pc[Server] = "execute"
      BY <3>1 DEF ClientStep, FinishCall, BeginCall, RecordPOD, RecordObject,
                  Notify, EndCall, serverVars
    <3>2. CASE ServerLock \/ SpuriousWakeup
      BY <3>2 DEF ServerLock, WaitLock, BatchLock, LoopLock, SpuriousWakeup
    <3>3. CASE WaitCommands \/ PollCommands \/ WaitCheck \/ EarlyOut
      BY <3>3 DEF WaitCommands, PollCommands, WaitCheck, EarlyOut
    <3>4. CASE BeginBatch \/ LoopAgain \/ LoopExit \/ EndBatch
      BY <3>4 DEF BeginBatch, LoopAgain, LoopExit, EndBatch
    <3>5. CASE Execute
      BY <3>5 DEF Execute, ExecuteDraw, ExecuteLoopBreak, ExecuteDisconnect,
                  ExecuteOther
    <3>6. CASE \E k \in DrawKeys : RunDraw(k)
      BY <3>6 DEF RunDraw
    <3>7. CASE UNCHANGED vars
      BY <3>7 DEF vars
    <3>8. QED
      BY <3>1, <3>2, <3>3, <3>4, <3>5, <3>6, <3>7 DEF Next, ServerStep
  <2>2. QED
    BY <1>0, <2>1 DEF OwnObject
<1>3. QED
  BY <1>1, <1>2

\* Every step that leads to a pop leaves a command to pop.
LEMMA PopHasCommandStep == IInv /\ [Next]_vars => PopHasCommand'
<1> SUFFICES ASSUME IInv, [Next]_vars, pc'[Server] = "pop"
             PROVE  commandStream' # <<>>
  BY DEF PopHasCommand
<1>0. TypeOK /\ MutualExclusion /\ PopHasCommand
  BY DEF IInv
<1>1. commandStream \in Seq(PODs)
  BY <1>0 DEF TypeOK
<1> USE ThreadsAssumption, <1>0 DEF TypeOK, Threads, Goto
<1>2. ASSUME NEW c \in Clients, ClientStep(c) PROVE commandStream' # <<>>
  <2>1. pc[Server] = "pop" /\ commandStream # <<>>
    BY <1>2 DEF ClientStep, FinishCall, BeginCall, RecordPOD, RecordObject,
                Notify, EndCall, PopHasCommand
  <2>2. commandStream' \in {commandStream, Append(commandStream, PodOf(call[c]))}
    BY <1>2 DEF ClientStep, FinishCall, BeginCall, RecordPOD, RecordObject,
                Notify, EndCall
  <2>3. QED
    BY <1>1, <2>1, <2>2
<1>3. CASE ServerLock \/ SpuriousWakeup
  BY <1>3 DEF ServerLock, WaitLock, BatchLock, LoopLock, SpuriousWakeup
<1>4. CASE WaitCommands \/ PollCommands \/ WaitCheck \/ EarlyOut
  BY <1>4 DEF WaitCommands, PollCommands, WaitCheck, EarlyOut
<1>5. CASE BeginBatch
  BY <1>1, <1>5 DEF BeginBatch
<1>6. CASE LoopAgain \/ LoopExit \/ EndBatch
  BY <1>6 DEF LoopAgain, LoopExit, EndBatch
<1>7. CASE Pop
  BY <1>7 DEF Pop
<1>8. CASE Execute
  BY <1>8 DEF Execute, ExecuteDraw, ExecuteLoopBreak, ExecuteDisconnect,
              ExecuteOther
<1>9. CASE (\E k \in DrawKeys : RunDraw(k)) \/ UNCHANGED vars
  BY <1>9 DEF RunDraw, vars, PopHasCommand
<1>10. QED
  BY <1>2, <1>3, <1>4, <1>5, <1>6, <1>7, <1>8, <1>9 DEF Next, ServerStep

\* Every step keeps the draw callbacks inside their batch.
LEMMA DrawsOnlyInBatchStep == IInv /\ [Next]_vars => DrawsOnlyInBatch'
<1> SUFFICES ASSUME IInv, [Next]_vars PROVE DrawsOnlyInBatch'
  OBVIOUS
<1>0. TypeOK /\ DrawsOnlyInBatch
  BY DEF IInv
<1> USE ThreadsAssumption, <1>0 DEF TypeOK, Threads, Goto, DrawsOnlyInBatch
<1>1. ASSUME NEW c \in Clients, ClientStep(c) PROVE DrawsOnlyInBatch'
  BY <1>1 DEF ClientStep, FinishCall, BeginCall, RecordPOD, RecordObject,
              Notify, EndCall, serverVars
<1>2. CASE ServerLock \/ SpuriousWakeup
  BY <1>2 DEF ServerLock, WaitLock, BatchLock, LoopLock, SpuriousWakeup,
              serverVars
<1>3. CASE WaitCommands \/ PollCommands \/ WaitCheck \/ EarlyOut
  BY <1>3 DEF WaitCommands, PollCommands, WaitCheck, EarlyOut, serverVars
<1>4. CASE BeginBatch \/ LoopAgain \/ LoopExit \/ Pop \/ Execute
  BY <1>4 DEF BeginBatch, LoopAgain, LoopExit, Pop, Execute, ExecuteDraw,
              ExecuteLoopBreak, ExecuteDisconnect, ExecuteOther
<1>5. CASE EndBatch
  BY <1>5 DEF EndBatch
<1>6. CASE (\E k \in DrawKeys : RunDraw(k)) \/ UNCHANGED vars
  BY <1>6 DEF RunDraw, vars
<1>7. QED
  BY <1>1, <1>2, <1>3, <1>4, <1>5, <1>6 DEF Next, ServerStep

(***************************************************************************)
(* Theorems                                                                *)
(***************************************************************************)

\* The inductive invariant holds in every reachable state.
THEOREM TransportInvariant == Spec => []IInv
<1>1. Init => IInv
  BY InitIInv
<1>2. IInv /\ [Next]_vars => IInv'
  BY TypeOKStep, MutualExclusionStep, StreamsInStepStep, OwnObjectStep,
     PopHasCommandStep, DrawsOnlyInBatchStep DEF IInv
<1>3. QED
  BY <1>1, <1>2, PTL DEF Spec

\* The variables of queue and server keep their types: above all a draw
\* callback recorded in m_uniqueDraws is one that a client sent, under a key
\* that createDrawKey returned.
THEOREM TypeCorrectness == Spec => []TypeOK
<1>1. IInv => TypeOK
  BY DEF IInv
<1>2. QED
  BY <1>1, TransportInvariant, PTL

\* AutoLockAndNotify and the unique_locks of the server bracket every access to
\* the streams, and no command is executed with the lock held.
THEOREM LockDiscipline == Spec => []MutualExclusion
<1>1. IInv => MutualExclusion
  BY DEF IInv
<1>2. QED
  BY <1>1, TransportInvariant, PTL

\* Objects are read back in the order in which their commands were written.
THEOREM SideStreamsInStep == Spec => []StreamsInStep
<1>1. IInv => StreamsInStep
  BY DEF IInv
<1>2. QED
  BY <1>1, TransportInvariant, PTL

\* processCommands executes every command with the object that its own client
\* recorded.
THEOREM CommandsKeepTheirObject == Spec => []OwnObject
<1>1. IInv => OwnObject
  BY DEF IInv
<1>2. QED
  BY <1>1, TransportInvariant, PTL

\* The assertions of waitCommands on m_callbacks, m_byteVectors and m_names hold
\* (and the same for m_drawCallbacks, which the code does not assert).
THEOREM WaitAssertionsHold == Spec => []NoOrphanObjects
<1>1. IInv => NoOrphanObjects
  <2> SUFFICES ASSUME IInv, pc[Server] = "waitCheck", commandStream = <<>>,
                      NEW s \in ObjectStreams
               PROVE  objects[s] = <<>>
    BY DEF NoOrphanObjects
  <2>1. commandMutex = Server
    BY DEF IInv, MutualExclusion, InCriticalSection, Threads
  <2>2. \A c \in Clients : ~Owes(c, s)
    BY <2>1, ThreadsAssumption
    DEF IInv, MutualExclusion, InCriticalSection, Threads, ClientPCs, Owes
  <2>3. InStep(<<>>, objects[s], s)
    BY <2>2 DEF IInv, StreamsInStep
  <2>4. objects[s] \in Seq(Tags)
    BY DEF IInv, TypeOK
  <2>5. QED
    BY <2>3, <2>4, InStepEmpty
<1>2. QED
  BY <1>1, TransportInvariant, PTL

\* The assertion m_uniqueDraws.empty() at the start of a batch holds.
THEOREM UniqueDrawsAssertionHolds == Spec => []NoLeftoverDraws
<1>1. IInv => NoLeftoverDraws
  BY DEF IInv, DrawsOnlyInBatch, NoLeftoverDraws
<1>2. QED
  BY <1>1, TransportInvariant, PTL

\* Every step keeps the notification ahead of a sleeping server.
LEMMA NoLostWakeupStep ==
    IInv /\ NoLostWakeup /\ [Next]_vars => NoLostWakeup'
<1> SUFFICES ASSUME IInv, NoLostWakeup, [Next]_vars,
                    pc'[Server] = "blocked", commandStream' # <<>>
             PROVE  \E c \in Clients : pc'[c] \in {"object", "notify"}
  BY DEF NoLostWakeup
<1>0. TypeOK /\ MutualExclusion
  BY DEF IInv
<1> USE ThreadsAssumption, <1>0 DEF TypeOK, Threads, Goto
<1>1. ASSUME NEW c \in Clients, ClientStep(c)
      PROVE  \E d \in Clients : pc'[d] \in {"object", "notify"}
  <2>1. CASE RecordPOD(c)
    BY <2>1 DEF RecordPOD
  <2>2. CASE RecordObject(c)
    BY <2>2 DEF RecordObject
  <2>3. CASE Notify(c)
    BY <2>3 DEF Notify
  <2>4. CASE BeginCall(c) \/ EndCall(c)
    <3>1. pc[Server] = "blocked" /\ commandStream' = commandStream
      BY <2>4 DEF BeginCall, EndCall
    <3>2. PICK d \in Clients : pc[d] \in {"object", "notify"}
      BY <3>1 DEF NoLostWakeup
    <3>3. d # c
      BY <2>4, <3>2 DEF BeginCall, EndCall
    <3>4. pc'[d] = pc[d]
      BY <2>4, <3>3 DEF BeginCall, EndCall
    <3>5. QED
      BY <3>2, <3>4
  <2>5. QED
    BY <1>1, <2>1, <2>2, <2>3, <2>4 DEF ClientStep, FinishCall
<1>2. CASE WaitCheck
  BY <1>2 DEF WaitCheck
<1>3. CASE ServerLock \/ WaitCommands \/ PollCommands \/ EarlyOut \/ BeginBatch
  BY <1>3 DEF ServerLock, WaitLock, BatchLock, LoopLock, WaitCommands,
              PollCommands, EarlyOut, BeginBatch
<1>4. CASE Pop \/ Execute \/ LoopAgain \/ LoopExit \/ EndBatch \/ SpuriousWakeup
  BY <1>4 DEF Pop, Execute, ExecuteDraw, ExecuteLoopBreak, ExecuteDisconnect,
              ExecuteOther, LoopAgain, LoopExit, EndBatch, SpuriousWakeup
<1>5. CASE (\E k \in DrawKeys : RunDraw(k)) \/ UNCHANGED vars
  BY <1>5 DEF RunDraw, vars, NoLostWakeup
<1>6. QED
  BY <1>1, <1>2, <1>3, <1>4, <1>5 DEF Next, ServerStep

\* No lost wakeup: notify_one before the unlock, and the test of the stream
\* under the lock before the wait, never leave the server asleep on a command.
THEOREM WakeupsAreNotLost == Spec => []NoLostWakeup
<1>1. Init => NoLostWakeup
  BY DEF Init, NoLostWakeup
<1>2. QED
  BY <1>1, NoLostWakeupStep, TransportInvariant, PTL DEF Spec

\* What appending to a stream and popping from it do to the set of markers.
LEMMA MarkersAppend ==
    ASSUME NEW p \in PODs, commandStream \in Seq(PODs),
           commandStream' = Append(commandStream, p)
    PROVE  Markers' = IF p = LoopBreak THEN Markers \cup {Len(commandStream) + 1}
                      ELSE Markers
<1>1. /\ DOMAIN commandStream = 1..Len(commandStream)
      /\ DOMAIN commandStream' = 1..(Len(commandStream) + 1)
      /\ \A i \in 1..Len(commandStream) : commandStream'[i] = commandStream[i]
      /\ commandStream'[Len(commandStream) + 1] = p
      /\ Len(commandStream) \in Nat
  OBVIOUS
<1>2. QED
  BY <1>1 DEF Markers

LEMMA MarkersTail ==
    ASSUME commandStream \in Seq(PODs), commandStream # <<>>,
           commandStream' = Tail(commandStream)
    PROVE  /\ 1 \in Markers <=> Head(commandStream) = LoopBreak
           /\ Markers \subseteq Nat \ {0}
           /\ \A i \in Nat \ {0} : i \in Markers' <=> i + 1 \in Markers
           /\ Markers' \subseteq Nat \ {0}
<1>1. /\ DOMAIN commandStream = 1..Len(commandStream)
      /\ DOMAIN commandStream' = 1..(Len(commandStream) - 1)
      /\ \A i \in 1..(Len(commandStream) - 1) :
            commandStream'[i] = commandStream[i + 1]
      /\ Len(commandStream) \in Nat \ {0}
      /\ Head(commandStream) = commandStream[1]
  OBVIOUS
<1>2. QED
  BY <1>1 DEF Markers

\* The place in front of a marker that is not at the head.
LEMMA PredecessorIsPositive ==
  ASSUME NEW i \in Nat \ {0}, i # 1
  PROVE  /\ i - 1 \in Nat \ {0}
         /\ \A j \in Nat \ {0} : j + 1 = i <=> j = i - 1
  OBVIOUS

\* A batch in which commands are still popped has not met its marker.
PoppingMeansProcessing == pc[Server] = "pop" => shouldProcessCommands

\* Every step keeps one marker to a running batch and none elsewhere.
LEMMA BatchEndsAtItsMarkerStep ==
    IInv /\ PoppingMeansProcessing /\ BatchEndsAtItsMarker /\ [Next]_vars
        => PoppingMeansProcessing' /\ BatchEndsAtItsMarker'
<1> SUFFICES ASSUME IInv, PoppingMeansProcessing, BatchEndsAtItsMarker,
                    [Next]_vars
             PROVE  PoppingMeansProcessing' /\ BatchEndsAtItsMarker'
  OBVIOUS
<1>0. TypeOK
  BY DEF IInv
<1>t. commandStream \in Seq(PODs) /\ shouldProcessCommands \in BOOLEAN
  BY <1>0 DEF TypeOK
<1> USE ThreadsAssumption, <1>0 DEF TypeOK, Threads, Goto, PoppingMeansProcessing
<1>u. ASSUME UNCHANGED <<commandStream, command, shouldProcessCommands>>,
             pc'[Server] = pc[Server]
      PROVE  PoppingMeansProcessing' /\ BatchEndsAtItsMarker'
  BY <1>u DEF BatchEndsAtItsMarker, Markers, InCommandLoop, MarkerPopped
<1>1. ASSUME NEW c \in Clients, ClientStep(c)
      PROVE  PoppingMeansProcessing' /\ BatchEndsAtItsMarker'
  <2>1. CASE BeginCall(c) \/ RecordObject(c) \/ EndCall(c)
    BY <1>u, <2>1 DEF BeginCall, RecordObject, EndCall, serverVars
  <2>2. CASE Notify(c)
    BY <2>2 DEF Notify, serverVars, BatchEndsAtItsMarker, Markers, InCommandLoop,
                MarkerPopped
  <2>3. CASE RecordPOD(c)
    <3>1. /\ call[c] \in Calls /\ pc'[Server] = pc[Server]
          /\ UNCHANGED <<command, shouldProcessCommands>>
      BY <2>3 DEF RecordPOD, serverVars
    <3>2. PodOf(call[c]) \in PODs /\ PodOf(call[c]) # LoopBreak
      <4>1. call[c].op # "commandLoopBreak"
        BY <3>1, ConfigurationAssumption DEF Calls, Ops
      <4>2. PodOf(call[c]).op = call[c].op /\ LoopBreak.op = "commandLoopBreak"
        BY DEF PodOf, LoopBreak
      <4>3. QED
        BY <3>1, <4>1, <4>2 DEF PODs
    <3>3. CASE commandStream' = commandStream
      BY <1>u, <3>1, <3>3
    <3>4. CASE commandStream' = Append(commandStream, PodOf(call[c]))
      <4>1. Markers' = Markers
        BY <1>t, <3>2, <3>4, MarkersAppend
      <4>2. DOMAIN commandStream \subseteq DOMAIN commandStream'
        BY <1>t, <3>2, <3>4
      <4>3. QED
        BY <3>1, <4>1, <4>2 DEF BatchEndsAtItsMarker, InCommandLoop, MarkerPopped
    <3>5. QED
      BY <2>3, <3>3, <3>4 DEF RecordPOD
  <2>4. QED
    BY <1>1, <2>1, <2>2, <2>3 DEF ClientStep, FinishCall
<1>2. CASE ServerLock \/ SpuriousWakeup \/ WaitCommands \/ PollCommands
             \/ WaitCheck \/ EarlyOut \/ EndBatch
  <2>1. UNCHANGED <<commandStream, command, shouldProcessCommands>>
    BY <1>2 DEF ServerLock, WaitLock, BatchLock, LoopLock, SpuriousWakeup,
                WaitCommands, PollCommands, WaitCheck, EarlyOut, EndBatch,
                serverVars
  <2>2. Markers' = Markers
    BY <2>1 DEF Markers
  <2>3. CASE LoopLock
    BY <2>1, <2>2, <2>3 DEF LoopLock, BatchEndsAtItsMarker, InCommandLoop,
                            MarkerPopped
  <2>4. CASE ~LoopLock
    <3>1. /\ pc[Server] \in {"serving", "waitLock", "waitCheck", "blocked",
                             "batchLock", "batchBegin", "drawing"}
          /\ pc'[Server] \in {"serving", "waitLock", "waitCheck", "blocked",
                              "batchLock", "batchBegin", "drawing"}
      BY <1>2, <2>4 DEF ServerLock, WaitLock, BatchLock, SpuriousWakeup,
                  WaitCommands, PollCommands, WaitCheck, EarlyOut, EndBatch
    <3>2. Markers = {}
      BY <3>1 DEF BatchEndsAtItsMarker, InCommandLoop
    <3>3. QED
      BY <2>2, <3>1, <3>2 DEF BatchEndsAtItsMarker, InCommandLoop
  <2>5. QED
    BY <2>3, <2>4
<1>3. CASE BeginBatch
  <2>1. Markers = {} /\ pc[Server] = "batchBegin"
    BY <1>3 DEF BeginBatch, BatchEndsAtItsMarker, InCommandLoop, MarkerPopped
  <2>2. LoopBreak \in PODs /\ commandStream' = Append(commandStream, LoopBreak)
    BY <1>3 DEF BeginBatch, PODs
  <2>3. Markers' = {Len(commandStream) + 1}
    BY <1>t, <2>1, <2>2, MarkersAppend
  <2>4. Len(commandStream) + 1 \in DOMAIN commandStream'
    BY <1>t, <2>2
  <2>5. pc'[Server] = "pop" /\ shouldProcessCommands' = TRUE
    BY <1>3 DEF BeginBatch
  <2>6. QED
    BY <2>3, <2>4, <2>5 DEF BatchEndsAtItsMarker, InCommandLoop, MarkerPopped
<1>4. CASE Pop
  <2>1. /\ commandStream # <<>> /\ commandStream' = Tail(commandStream)
        /\ Head(commandStream) \in PODs
    BY <1>4, PopOperand DEF Pop
  <2>2. PICK i \in DOMAIN commandStream : Markers = {i}
    BY <1>4 DEF Pop, BatchEndsAtItsMarker, InCommandLoop, MarkerPopped
  <2>3. /\ pc'[Server] = "execute" /\ command'.pod = Head(commandStream)
        /\ shouldProcessCommands' = shouldProcessCommands
        /\ shouldProcessCommands
    BY <1>4 DEF Pop
  <2>4. /\ i = 1 <=> Head(commandStream) = LoopBreak
        /\ i \in Nat \ {0}
        /\ \A j \in Nat \ {0} : j \in Markers' <=> j + 1 = i
        /\ Markers' \subseteq Nat \ {0}
    BY <1>t, <2>1, <2>2, MarkersTail
  <2>5. Head(commandStream).op = "commandLoopBreak"
          <=> Head(commandStream) = LoopBreak
    <3>1. CASE Head(commandStream) = LoopBreak
      BY <3>1 DEF LoopBreak
    <3>2. ASSUME NEW k \in Calls, Head(commandStream) = PodOf(k)
          PROVE  /\ Head(commandStream).op # "commandLoopBreak"
                 /\ Head(commandStream) # LoopBreak
      <4>1. k.op # "commandLoopBreak"
        BY ConfigurationAssumption DEF Calls, Ops
      <4>2. PodOf(k).op = k.op /\ LoopBreak.op = "commandLoopBreak"
        BY DEF PodOf, LoopBreak
      <4>3. QED
        BY <3>2, <4>1, <4>2
    <3>3. QED
      BY <2>1, <3>1, <3>2 DEF PODs
  <2>6. CASE i = 1
    <3>1. Markers' = {}
      BY <2>4, <2>6
    <3>2. MarkerPopped'
      BY <2>3, <2>4, <2>5, <2>6 DEF MarkerPopped
    <3>3. QED
      BY <2>3, <3>1, <3>2 DEF BatchEndsAtItsMarker, InCommandLoop
  <2>7. CASE i # 1
    <3>1. /\ i - 1 \in Nat \ {0}
          /\ \A j \in Nat \ {0} : j + 1 = i <=> j = i - 1
      BY <2>4, <2>7, PredecessorIsPositive
    <3>2. Markers' = {i - 1}
      <4>1. \A j \in Markers' : j = i - 1
        BY <2>4, <3>1, Zenon
      <4>2. i - 1 \in Markers'
        BY <2>4, <3>1, Zenon
      <4>3. QED
        BY <4>1, <4>2, Zenon
    <3>3. i - 1 \in DOMAIN commandStream'
      BY <3>2 DEF Markers
    <3>4. ~MarkerPopped'
      BY <2>3, <2>4, <2>5, <2>7 DEF MarkerPopped
    <3>5. QED
      BY <2>3, <3>2, <3>3, <3>4 DEF BatchEndsAtItsMarker, InCommandLoop
  <2>8. QED
    BY <2>6, <2>7
<1>5. CASE ExecuteLoopBreak
  BY <1>5 DEF ExecuteLoopBreak, BatchEndsAtItsMarker, Markers, InCommandLoop,
              MarkerPopped
<1>6. CASE ExecuteDraw \/ ExecuteOther \/ ExecuteDisconnect
  BY <1>6 DEF ExecuteDraw, ExecuteOther, ExecuteDisconnect,
              BatchEndsAtItsMarker, Markers, InCommandLoop, MarkerPopped
<1>7. CASE LoopAgain
  BY <1>7 DEF LoopAgain, serverVars, BatchEndsAtItsMarker, Markers,
              InCommandLoop, MarkerPopped
<1>8. CASE LoopExit
  <2>1. shouldProcessCommands => commandStream # <<>>
    BY <1>8, <1>t DEF LoopExit, BatchEndsAtItsMarker, InCommandLoop, MarkerPopped
  <2>2. ~shouldProcessCommands
    BY <1>8, <2>1 DEF LoopExit
  <2>3. QED
    BY <1>8, <2>2 DEF LoopExit, serverVars, BatchEndsAtItsMarker, Markers,
                      InCommandLoop, MarkerPopped
<1>9. CASE (\E k \in DrawKeys : RunDraw(k)) \/ UNCHANGED vars
  BY <1>9, <1>u DEF RunDraw, vars
<1>10. QED
  BY <1>1, <1>2, <1>3, <1>4, <1>5, <1>6, <1>7, <1>8, <1>9
  DEF Next, ServerStep, Execute

\* commandLoopBreak does what its comment says: a batch ends at the marker that
\* its own processCommands appended, so it executes what was queued when it
\* began (and what slipped in before the marker), and never runs on.
THEOREM BatchesEndAtTheirMarker == Spec => []BatchEndsAtItsMarker
<1>1. Init => PoppingMeansProcessing /\ BatchEndsAtItsMarker
  BY DEF Init, PoppingMeansProcessing, BatchEndsAtItsMarker, Markers,
         InCommandLoop, MarkerPopped, Threads
<1>2. QED
  BY <1>1, BatchEndsAtItsMarkerStep, TransportInvariant, PTL DEF Spec

(***************************************************************************)
(* The commands of a stream (CommandsOf)                                   *)
(***************************************************************************)

\* The order of the natural numbers, for WFMin.
LEMMA LessIsWellFounded == IsWellFoundedOn({p \in Nat \X Nat : p[1] < p[2]}, Nat)
  BY NatLessThanWellFounded, Zenon DEF OpToRel

\* Induction over the natural numbers, for a set.
LEMMA SetInduction ==
    ASSUME NEW S \in SUBSET Nat, 0 \in S, \A n \in S : n + 1 \in S
    PROVE  S = Nat
<1> SUFFICES ASSUME Nat \ S # {} PROVE FALSE
  OBVIOUS
<1> DEFINE R == {p \in Nat \X Nat : p[1] < p[2]}
           U == Nat \ S
<1>1. IsWellFoundedOn(R, Nat) /\ U \subseteq Nat /\ U # {}
  BY LessIsWellFounded
<1> HIDE DEF R, U
<1>2. \E n \in U : \A m \in U : <<m, n>> \notin R
  BY <1>1, WFMin, Zenon
<1>3. PICK n \in U : \A m \in U : <<m, n>> \notin R
  BY <1>2
<1>4. n # 0 /\ n - 1 \in Nat /\ n - 1 < n /\ (n - 1) + 1 = n
  BY <1>3 DEF U
<1>5. n - 1 \notin U
  BY <1>3, <1>4 DEF R, U
<1>6. QED
  BY <1>3, <1>4, <1>5 DEF U

\* Induction up to n.
LEMMA InductionUpTo ==
    ASSUME NEW n \in Nat, NEW S, 0 \in S, \A k \in 1..n : k - 1 \in S => k \in S
    PROVE  0..n \subseteq S
<1> DEFINE P == {m \in Nat : m <= n => m \in S}
<1>1. ASSUME NEW m \in P PROVE m + 1 \in P
  <2>1. m \in Nat /\ (m <= n => m \in S)
    OBVIOUS
  <2>2. CASE m + 1 <= n
    <3>1. m + 1 \in 1..n /\ (m + 1) - 1 \in S
      BY <2>1, <2>2
    <3>2. QED
      BY <2>1, <3>1
  <2>3. QED
    BY <2>1, <2>2
<1>2. 0 \in P /\ P \in SUBSET Nat
  OBVIOUS
<1>3. P = Nat
  <2> HIDE DEF P
  <2>1. QED
    BY <1>1, <1>2, SetInduction
<1>4. QED
  BY <1>3

\* What CommandsOf has put down after the i-th command.
KeptUpTo(stream, R, i) ==
    IF i = 0 THEN <<>>
    ELSE IF IsCommand(stream[i]) THEN Append(R[i - 1], stream[i])
    ELSE R[i - 1]

\* R follows that rule for the first n commands.
Keeps(stream, n, R) == \A i \in 0..n : R[i] = KeptUpTo(stream, R, i)

\* The recursive function of CommandsOf exists, and its values are commands of
\* the stream.
LEMMA KeptExists ==
    ASSUME NEW P, NEW stream \in Seq(P)
    PROVE  \E R \in [0..Len(stream) -> Seq(P)] :
               R = [i \in 0..Len(stream) |-> KeptUpTo(stream, R, i)]
<1> DEFINE n == Len(stream)
           Fits(R, m) == \A i \in 0..m : R[i] = KeptUpTo(stream, R, i)
           S == {m \in 0..n : \E R \in [0..n -> Seq(P)] : Fits(R, m)}
<1>1. n \in Nat /\ \A i \in 1..n : stream[i] \in P
  OBVIOUS
<1> HIDE DEF n
<1>2. 0 \in S
  <2> DEFINE R == [i \in 0..n |-> <<>>]
  <2>1. R \in [0..n -> Seq(P)] /\ R[0] = <<>> /\ 0 \in 0..n
    BY <1>1
  <2> HIDE DEF R
  <2>2. Fits(R, 0)
    BY <2>1 DEF KeptUpTo
  <2>3. QED
    BY <2>1, <2>2
<1>3. ASSUME NEW m \in 1..n, m - 1 \in S PROVE m \in S
  <2>1. PICK R \in [0..n -> Seq(P)] : Fits(R, m - 1)
    BY <1>3
  <2>2. m \in 0..n /\ m - 1 \in 0..n /\ m # 0 /\ R[m - 1] \in Seq(P) /\ stream[m] \in P
    BY <1>1, <2>1
  <2> DEFINE x == KeptUpTo(stream, R, m)
             J == [R EXCEPT ![m] = x]
  <2>3. x \in Seq(P)
    BY <2>2 DEF KeptUpTo
  <2> HIDE DEF x
  <2>4. J \in [0..n -> Seq(P)] /\ J[m] = x /\ \A k \in 0..n : k # m => J[k] = R[k]
    BY <2>1, <2>2, <2>3
  <2> HIDE DEF J
  <2>5. ASSUME NEW i \in 0..m PROVE J[i] = KeptUpTo(stream, J, i)
    <3>1. i \in 0..n /\ (i = 0 \/ (i - 1 \in 0..n /\ i - 1 # m))
      BY <1>1
    <3>2. KeptUpTo(stream, J, i) = KeptUpTo(stream, R, i)
      BY <2>4, <3>1 DEF KeptUpTo
    <3>3. CASE i = m
      BY <2>4, <3>2, <3>3 DEF x
    <3>4. CASE i # m
      <4>1. i \in 0..(m - 1)
        BY <1>1, <3>4
      <4>2. R[i] = KeptUpTo(stream, R, i)
        BY <2>1, <4>1
      <4>3. QED
        BY <2>4, <3>1, <3>2, <3>4, <4>2
    <3>5. QED
      BY <3>3, <3>4
  <2>6. QED
    BY <2>2, <2>4, <2>5
<1>4. n \in S
  <2>1. n \in 0..n
    BY <1>1
  <2> HIDE DEF S
  <2>2. QED
    BY <1>1, <1>2, <1>3, <2>1, InductionUpTo
<1>5. PICK R \in [0..n -> Seq(P)] : Fits(R, n)
  BY <1>4
<1>6. R = [i \in 0..n |-> KeptUpTo(stream, R, i)]
  BY <1>5
<1>7. QED
  BY <1>6 DEF n

\* Two of them agree.
LEMMA KeptIsUnique ==
    ASSUME NEW stream, NEW n \in Nat, NEW R, NEW Q,
           Keeps(stream, n, R), Keeps(stream, n, Q)
    PROVE  R[n] = Q[n]
<1> USE DEF Keeps
<1> DEFINE S == {k \in 0..n : R[k] = Q[k]}
<1>1. 0 \in S
  BY DEF KeptUpTo
<1>2. ASSUME NEW k \in 1..n, k - 1 \in S PROVE k \in S
  <2>1. k \in 0..n /\ k # 0 /\ R[k - 1] = Q[k - 1]
    BY <1>2
  <2>2. KeptUpTo(stream, R, k) = KeptUpTo(stream, Q, k)
    BY <2>1 DEF KeptUpTo
  <2>3. QED
    BY <2>1, <2>2
<1>3. 0..n \subseteq S
  <2> HIDE DEF S
  <2>1. QED
    BY <1>1, <1>2, InductionUpTo
<1>4. QED
  BY <1>3

\* What CommandsOf computes.
Computes(stream, R) ==
    /\ CommandsOf(stream) = R[Len(stream)]
    /\ Keeps(stream, Len(stream), R)

LEMMA CommandsOfFacts ==
    ASSUME NEW P, NEW stream \in Seq(P)
    PROVE  \E R \in [0..Len(stream) -> Seq(P)] : Computes(stream, R)
<1> DEFINE n == Len(stream)
           F == CHOOSE R : R = [i \in 0..Len(stream) |-> KeptUpTo(stream, R, i)]
<1>1. PICK Q \in [0..n -> Seq(P)] : Q = [i \in 0..n |-> KeptUpTo(stream, Q, i)]
  BY KeptExists
<1>2. F = [i \in 0..n |-> KeptUpTo(stream, F, i)]
  BY <1>1
<1>3. CommandsOf(stream) = F[n]
  BY DEF CommandsOf, KeptUpTo
<1>4. n \in Nat
  OBVIOUS
<1> HIDE DEF F, n
<1>5. Keeps(stream, n, F) /\ Keeps(stream, n, Q)
  BY <1>1, <1>2 DEF Keeps
<1>6. F[n] = Q[n]
  BY <1>4, <1>5, KeptIsUnique
<1>7. QED
  BY <1>1, <1>3, <1>5, <1>6 DEF Computes, n

\* The commands of a stream are a sequence of elements of the stream.
LEMMA CommandsOfType ==
    ASSUME NEW P, NEW stream \in Seq(P)
    PROVE  CommandsOf(stream) \in Seq(P)
<1>1. PICK R \in [0..Len(stream) -> Seq(P)] : Computes(stream, R)
  BY CommandsOfFacts
<1>2. Len(stream) \in 0..Len(stream)
  OBVIOUS
<1>3. QED
  BY <1>1, <1>2 DEF Computes

\* An empty stream has none.
LEMMA CommandsOfEmpty == CommandsOf(<<>>) = <<>>
<1>0. <<>> \in Seq({})
  OBVIOUS
<1>1. PICK R \in [0..Len(<<>>) -> Seq({})] : Computes(<<>>, R)
  BY <1>0, CommandsOfFacts, Zenon
<1>2. Len(<<>>) = 0 /\ 0 \in 0..0
  OBVIOUS
<1>3. R[0] = KeptUpTo(<<>>, R, 0) /\ CommandsOf(<<>>) = R[0]
  BY <1>1, <1>2 DEF Computes, Keeps
<1>4. QED
  BY <1>3 DEF KeptUpTo

\* What recording adds at the end, CommandsOf adds at the end.
LEMMA CommandsOfAppend ==
    ASSUME NEW P, NEW stream \in Seq(P), NEW x \in P
    PROVE  CommandsOf(Append(stream, x)) =
               IF IsCommand(x) THEN Append(CommandsOf(stream), x)
               ELSE CommandsOf(stream)
<1> DEFINE new == Append(stream, x)
           n == Len(stream)
<1>1. /\ new \in Seq(P) /\ n \in Nat /\ Len(new) = n + 1 /\ new[n + 1] = x
      /\ \A i \in 1..n : new[i] = stream[i]
  OBVIOUS
<1>2. PICK R \in [0..Len(stream) -> Seq(P)] : Computes(stream, R)
  BY CommandsOfFacts
<1> HIDE DEF new
<1>3. PICK Q \in [0..Len(new) -> Seq(P)] : Computes(new, Q)
  BY <1>1, CommandsOfFacts
<1>4. Keeps(new, n + 1, Q) /\ Keeps(stream, n, R)
  BY <1>1, <1>2, <1>3 DEF Computes
<1> HIDE DEF n
<1>5. ASSUME NEW i \in 0..n PROVE Q[i] = KeptUpTo(stream, Q, i)
  <2>1. i \in 0..(n + 1) /\ (i = 0 \/ i \in 1..n)
    BY <1>1
  <2>2. Q[i] = KeptUpTo(new, Q, i)
    BY <1>4, <2>1 DEF Keeps
  <2>3. KeptUpTo(new, Q, i) = KeptUpTo(stream, Q, i)
    BY <1>1, <2>1 DEF KeptUpTo
  <2>4. QED
    BY <2>2, <2>3
<1>6. Keeps(stream, n, Q)
  BY <1>5 DEF Keeps
<1>7. Q[n] = R[n]
  BY <1>1, <1>4, <1>6, KeptIsUnique
<1>8. Q[n + 1] = IF IsCommand(x) THEN Append(Q[n], x) ELSE Q[n]
  <2>1. n + 1 \in 0..(n + 1) /\ n + 1 # 0 /\ (n + 1) - 1 = n
    BY <1>1
  <2>2. Q[n + 1] = KeptUpTo(new, Q, n + 1)
    BY <1>4, <2>1 DEF Keeps
  <2>3. QED
    BY <1>1, <2>1, <2>2 DEF KeptUpTo
<1>9. CommandsOf(stream) = R[n] /\ CommandsOf(new) = Q[n + 1]
  BY <1>1, <1>2, <1>3 DEF Computes, n
<1>10. QED
  BY <1>7, <1>8, <1>9 DEF new

\* What popping takes from the front, CommandsOf loses at the front.
LEMMA CommandsOfTail ==
    ASSUME NEW P, NEW stream \in Seq(P), stream # <<>>
    PROVE  CommandsOf(stream) =
               (IF IsCommand(Head(stream)) THEN <<Head(stream)>> ELSE <<>>)
                   \o CommandsOf(Tail(stream))
<1> DEFINE rest == Tail(stream)
           n == Len(rest)
           x == Head(stream)
           first == IF IsCommand(x) THEN <<x>> ELSE <<>>
<1>1. /\ rest \in Seq(P) /\ n \in Nat /\ Len(stream) = n + 1 /\ x = stream[1]
      /\ x \in P
      /\ \A i \in 1..n : rest[i] = stream[i + 1] /\ rest[i] \in P
  OBVIOUS
<1>2. first \in Seq(P)
  BY <1>1
<1>3. PICK R \in [0..Len(stream) -> Seq(P)] : Computes(stream, R)
  BY CommandsOfFacts
<1> HIDE DEF rest, x
<1>4. PICK Q \in [0..Len(rest) -> Seq(P)] : Computes(rest, Q)
  BY <1>1, CommandsOfFacts
<1> HIDE DEF n
<1>5. /\ Keeps(stream, n + 1, R) /\ Keeps(rest, n, Q)
      /\ Q \in [0..n -> Seq(P)]
  BY <1>1, <1>3, <1>4 DEF Computes, n
<1> DEFINE S == {i \in 0..n : R[i + 1] = first \o Q[i]}
<1>6. 0 \in S
  <2>1. 0 \in 0..n /\ 0 \in 0..(n + 1) /\ 1 \in 0..(n + 1)
    BY <1>1
  <2>2. Q[0] = <<>> /\ R[0] = <<>>
    BY <1>5, <2>1 DEF Keeps, KeptUpTo
  <2>3. R[1] = KeptUpTo(stream, R, 1)
    BY <1>5, <2>1 DEF Keeps
  <2>4. R[1] = IF IsCommand(x) THEN Append(<<>>, x) ELSE <<>>
    <3>1. 1 - 1 = 0 /\ 1 # 0
      OBVIOUS
    <3>2. R[1] = IF IsCommand(stream[1]) THEN Append(R[0], stream[1]) ELSE R[0]
      BY <2>3, <3>1 DEF KeptUpTo
    <3>3. QED
      BY <1>1, <2>2, <3>2
  <2>5. R[1] = first
    <3>1. Append(<<>>, x) = <<x>>
      OBVIOUS
    <3>2. QED
      BY <2>4, <3>1
  <2> HIDE DEF first
  <2>6. first \o <<>> = first
    BY <1>2
  <2>7. R[0 + 1] = first \o Q[0]
    BY <2>2, <2>5, <2>6
  <2>8. QED
    BY <2>1, <2>7
<1> HIDE DEF first
<1>7. ASSUME NEW i \in 1..n, i - 1 \in S PROVE i \in S
  <2>1. /\ i \in 0..n /\ i - 1 \in 0..n /\ i # 0 /\ (i - 1) + 1 = i
        /\ i + 1 \in 0..(n + 1) /\ i + 1 # 0 /\ (i + 1) - 1 = i
    BY <1>1
  <2>2. R[i] = first \o Q[i - 1]
    BY <1>7, <2>1
  <2>3. R[i + 1] = KeptUpTo(stream, R, i + 1) /\ Q[i] = KeptUpTo(rest, Q, i)
    BY <1>5, <2>1 DEF Keeps
  <2>4. rest[i] = stream[i + 1] /\ rest[i] \in P /\ Q[i - 1] \in Seq(P)
    BY <1>1, <1>5, <2>1
  <2>5. CASE IsCommand(rest[i])
    <3>1. R[i + 1] = Append(R[i], rest[i]) /\ Q[i] = Append(Q[i - 1], rest[i])
      BY <2>1, <2>3, <2>4, <2>5 DEF KeptUpTo
    <3>2. Append(first \o Q[i - 1], rest[i]) = first \o Append(Q[i - 1], rest[i])
      <4> DEFINE q == Q[i - 1]
                 y == rest[i]
      <4>1. first \in Seq(P) /\ q \in Seq(P) /\ y \in P
        BY <1>2, <2>4
      <4> HIDE DEF q, y
      <4>2. <<y>> \in Seq(P) /\ first \o q \in Seq(P)
        BY <4>1
      <4>3. /\ Append(first \o q, y) = (first \o q) \o <<y>>
            /\ Append(q, y) = q \o <<y>>
        BY <4>1, <4>2, AppendIsConcat
      <4>4. (first \o q) \o <<y>> = first \o (q \o <<y>>)
        BY <4>1, <4>2, ConcatAssociative
      <4>5. QED
        BY <4>3, <4>4 DEF q, y
    <3>3. QED
      BY <2>1, <2>2, <3>1, <3>2
  <2>6. CASE ~IsCommand(rest[i])
    <3>1. R[i + 1] = R[i] /\ Q[i] = Q[i - 1]
      BY <2>1, <2>3, <2>4, <2>6 DEF KeptUpTo
    <3>2. QED
      BY <2>1, <2>2, <3>1
  <2>7. QED
    BY <2>5, <2>6
<1>8. 0..n \subseteq S
  <2> HIDE DEF S
  <2>1. QED
    BY <1>1, <1>6, <1>7, InductionUpTo
<1>9. R[n + 1] = first \o Q[n]
  BY <1>1, <1>8
<1>10. CommandsOf(stream) = R[n + 1] /\ CommandsOf(rest) = Q[n]
  BY <1>1, <1>3, <1>4 DEF Computes, n
<1>11. QED
  BY <1>9, <1>10 DEF first, rest, x

(***************************************************************************)
(* The transport implements the service                                    *)
(***************************************************************************)

\* Callbacks run only while the server draws.
DrawsInDrawing == pc[Server] # "drawing" => drawn = {}

\* A server that has executed a disconnect goes no further.
DisconnectIsLast ==
    wasDisconnectReceived => pc[Server] = "disconnected"

\* What the refinement needs to know of a state.
ServiceInv == IInv /\ DrawsInDrawing /\ DisconnectIsLast

\* The server's place after any other step than its own.
LEMMA ServerUndisturbed ==
    ASSUME IInv, NEW c \in Clients, ClientStep(c)
    PROVE  /\ pc'[Server] = pc[Server]
              \/ (pc[Server] = "blocked" /\ pc'[Server] = "waitLock")
           /\ UNCHANGED serverVars
  BY ThreadsAssumption
  DEF IInv, TypeOK, ClientStep, FinishCall, BeginCall, RecordPOD, RecordObject,
      Notify, EndCall, Goto, Threads, serverVars

\* Both facts are kept by every step.
LEMMA ServiceInvStep ==
    IInv /\ DrawsInDrawing /\ DisconnectIsLast /\ [Next]_vars
        => (DrawsInDrawing /\ DisconnectIsLast)'
<1> SUFFICES ASSUME IInv, DrawsInDrawing, DisconnectIsLast, [Next]_vars
             PROVE  DrawsInDrawing' /\ DisconnectIsLast'
  OBVIOUS
<1>t. pc \in [Threads -> ClientPCs \cup ServerPCs] /\ Server \in Threads
  BY DEF IInv, TypeOK, Threads
<1> USE DEF DrawsInDrawing, DisconnectIsLast, Goto
<1>1. ASSUME NEW c \in Clients, ClientStep(c)
      PROVE  DrawsInDrawing' /\ DisconnectIsLast'
  BY <1>1, ServerUndisturbed DEF serverVars
<1>2. CASE WaitLock \/ BatchLock \/ LoopLock
  BY <1>2, <1>t DEF WaitLock, BatchLock, LoopLock, serverVars
<1>3. CASE WaitCommands \/ PollCommands \/ WaitCheck \/ SpuriousWakeup
  BY <1>3, <1>t DEF WaitCommands, PollCommands, WaitCheck, SpuriousWakeup,
                    serverVars
<1>4. CASE EarlyOut \/ BeginBatch \/ Pop
  BY <1>4, <1>t DEF EarlyOut, BeginBatch, Pop, serverVars
<1>5. CASE Execute
  BY <1>5, <1>t DEF Execute, ExecuteDraw, ExecuteLoopBreak, ExecuteDisconnect,
                    ExecuteOther
<1>6. CASE LoopAgain \/ LoopExit \/ EndBatch \/ \E k \in DrawKeys : RunDraw(k)
  BY <1>6, <1>t DEF LoopAgain, LoopExit, EndBatch, RunDraw, serverVars
<1>7. CASE UNCHANGED vars
  BY <1>7 DEF vars
<1>8. QED
  BY <1>1, <1>2, <1>3, <1>4, <1>5, <1>6, <1>7 DEF Next, ServerLock, ServerStep

\* The commands that the service has not executed, in either place.
LEMMA PendingWhileExecuting ==
    ASSUME pc[Server] = "execute", IsCommand(command.pod)
    PROVE  pendingCommands = <<command.pod>> \o CommandsOf(commandStream)
  BY DEF pendingCommands

LEMMA PendingOtherwise ==
    ASSUME TypeOK, ~(pc[Server] = "execute" /\ IsCommand(command.pod))
    PROVE  pendingCommands = CommandsOf(commandStream)
<1>1. CommandsOf(commandStream) \in Seq(PODs)
  BY CommandsOfType DEF TypeOK
<1>2. pendingCommands = <<>> \o CommandsOf(commandStream)
  BY DEF pendingCommands
<1>3. QED
  BY <1>1, <1>2, ConcatEmptySeq

\* The initial state of the transport is that of the service.
LEMMA InitIsServiceInit == Init => Service!ServiceInit
<1> SUFFICES ASSUME Init PROVE Service!ServiceInit
  OBVIOUS
<1>1. pc[Server] = "serving" /\ commandStream = <<>>
  BY DEF Init, Threads
<1>2. pendingCommands = <<>> \o CommandsOf(<<>>)
  BY <1>1 DEF pendingCommands
<1>3. pendingCommands = <<>>
  BY <1>2, CommandsOfEmpty
<1>4. latestDraws = [k \in {} |-> Nothing]
  BY DEF Init, latestDraws
<1>5. QED
  BY <1>3, <1>4 DEF Init, Service!ServiceInit

\* Recording the plain part of a command is the submission of the command;
\* createDrawKey records none.
LEMMA RecordPODIsSubmit ==
    ASSUME ServiceInv, NEW c \in Clients, RecordPOD(c)
    PROVE  [Service!ServiceNext]_(Service!serviceVars)
<1>t. TypeOK /\ pc[c] = "recording" /\ call[c] \in Calls
  BY DEF ServiceInv, IInv, TypeOK, RecordPOD
<1> DEFINE x == PodOf(call[c])
           e == pc[Server] = "execute" /\ IsCommand(command.pod)
<1>1. x \in PODs /\ IsCommand(x)
  <2>1. call[c].op # "commandLoopBreak"
    BY <1>t, ConfigurationAssumption DEF Calls, Ops
  <2>2. x.op = call[c].op /\ LoopBreak.op = "commandLoopBreak"
    BY DEF PodOf, LoopBreak
  <2>3. QED
    BY <1>t, <2>1, <2>2 DEF IsCommand, PODs
<1>2. UNCHANGED serverVars /\ pc'[Server] = pc[Server]
  BY <1>t, ThreadsAssumption DEF RecordPOD, Goto, TypeOK, serverVars
<1>3. /\ UNCHANGED <<latestDraws, presented, wasDisconnectReceived>>
      /\ e' <=> e
      /\ command' = command
  BY <1>2 DEF latestDraws, serverVars
<1>4. commandStream \in Seq(PODs) /\ CommandsOf(commandStream) \in Seq(PODs)
  BY <1>t, CommandsOfType DEF TypeOK
<1>5. CASE call[c].op = "createDrawKey"
  <2>1. commandStream' = commandStream
    BY <1>5 DEF RecordPOD
  <2>2. pendingCommands' = pendingCommands
    BY <1>2, <1>3, <2>1 DEF pendingCommands
  <2>3. QED
    BY <1>3, <2>2 DEF Service!serviceVars
<1>6. CASE call[c].op # "createDrawKey"
  <2>1. commandStream' = Append(commandStream, x)
    BY <1>6 DEF RecordPOD
  <2> HIDE DEF x
  <2>2. CommandsOf(Append(commandStream, x)) = Append(CommandsOf(commandStream), x)
    BY <1>1, <1>4, CommandsOfAppend
  <2>3. CommandsOf(commandStream)' = CommandsOf(commandStream')
    BY DEF CommandsOf, IsCommand
  <2>4. CommandsOf(commandStream') = Append(CommandsOf(commandStream), x)
    BY <2>1, <2>2
  <2>5. pendingCommands' = Append(pendingCommands, x)
    <3>1. CASE e
      <4>1. command.pod \in PODs
        BY <1>t, <3>1 DEF TypeOK
      <4>2. <<command.pod>> \in Seq(PODs)
        BY <4>1
      <4>3. Append(<<command.pod>> \o CommandsOf(commandStream), x)
              = <<command.pod>> \o Append(CommandsOf(commandStream), x)
        <5> DEFINE first == <<command.pod>>
                   q == CommandsOf(commandStream)
        <5>1. first \in Seq(PODs) /\ q \in Seq(PODs) /\ x \in PODs
          BY <1>1, <1>4, <4>2
        <5> HIDE DEF first, q
        <5>2. <<x>> \in Seq(PODs) /\ first \o q \in Seq(PODs)
          BY <5>1
        <5>3. /\ Append(first \o q, x) = (first \o q) \o <<x>>
              /\ Append(q, x) = q \o <<x>>
          BY <5>1, <5>2, AppendIsConcat
        <5>4. (first \o q) \o <<x>> = first \o (q \o <<x>>)
          BY <5>1, <5>2, ConcatAssociative
        <5>5. QED
          BY <5>3, <5>4 DEF first, q
      <4>4. pendingCommands = <<command.pod>> \o CommandsOf(commandStream)
        BY <3>1 DEF pendingCommands
      <4>5. pendingCommands' = <<command.pod>> \o CommandsOf(commandStream')
        BY <1>3, <3>1 DEF pendingCommands
      <4>6. QED
        BY <2>4, <4>3, <4>4, <4>5
    <3>2. CASE ~e
      <4>1. pendingCommands = <<>> \o CommandsOf(commandStream)
        BY <3>2 DEF pendingCommands
      <4>2. pendingCommands' = <<>> \o CommandsOf(commandStream')
        BY <1>3, <3>2 DEF pendingCommands
      <4>3. Append(CommandsOf(commandStream), x) \in Seq(PODs)
        BY <1>1, <1>4
      <4>4. QED
        BY <1>4, <2>4, <4>1, <4>2, <4>3, ConcatEmptySeq
    <3>3. QED
      BY <3>1, <3>2
  <2>6. Service!Submit(x)
    BY <1>3, <2>5 DEF Service!Submit
  <2>7. QED
    BY <1>1, <2>6 DEF Service!ServiceNext
<1>7. QED
  BY <1>5, <1>6

\* Popping moves a command from the stream into the server's hands; the service
\* sees no change.
LEMMA PopIsStutter ==
    ASSUME ServiceInv, Pop
    PROVE  UNCHANGED Service!serviceVars
<1>t. TypeOK /\ pc[Server] = "pop" /\ commandStream # <<>>
  BY DEF ServiceInv, IInv, PopHasCommand, Pop
<1> DEFINE x == Head(commandStream)
           rest == Tail(commandStream)
<1>1. commandStream \in Seq(PODs) /\ rest \in Seq(PODs)
  BY <1>t DEF TypeOK
<1>2. /\ pc'[Server] = "execute" /\ command'.pod = x /\ commandStream' = rest
      /\ UNCHANGED <<latestDraws, presented, wasDisconnectReceived>>
  BY <1>t DEF Pop, Goto, TypeOK, Threads, latestDraws
<1> HIDE DEF x, rest
<1>3. pendingCommands = CommandsOf(commandStream)
  BY <1>t, PendingOtherwise
<1>4. CommandsOf(commandStream) =
        (IF IsCommand(x) THEN <<x>> ELSE <<>>) \o CommandsOf(rest)
  BY <1>1, <1>t, CommandsOfTail DEF x, rest
<1>5. pendingCommands' =
        (IF IsCommand(x) THEN <<x>> ELSE <<>>) \o CommandsOf(rest)
  BY <1>2 DEF pendingCommands
<1>6. QED
  BY <1>2, <1>3, <1>4, <1>5 DEF Service!serviceVars

\* So is the marker that begins a batch ...
LEMMA BeginBatchIsStutter ==
    ASSUME ServiceInv, BeginBatch
    PROVE  UNCHANGED Service!serviceVars
<1>t. TypeOK /\ pc[Server] = "batchBegin" /\ LoopBreak \in PODs
  BY DEF ServiceInv, IInv, BeginBatch, PODs
<1>1. commandStream \in Seq(PODs)
  BY <1>t DEF TypeOK
<1>2. /\ pc'[Server] = "pop" /\ commandStream' = Append(commandStream, LoopBreak)
      /\ UNCHANGED <<latestDraws, presented, wasDisconnectReceived>>
  BY <1>t DEF BeginBatch, Goto, TypeOK, Threads, latestDraws
<1>3. CommandsOf(Append(commandStream, LoopBreak)) = CommandsOf(commandStream)
  BY <1>1, <1>t, CommandsOfAppend DEF IsCommand
<1>4. pendingCommands = <<>> \o CommandsOf(commandStream)
  BY <1>t DEF pendingCommands
<1>5. pendingCommands' = <<>> \o CommandsOf(Append(commandStream, LoopBreak))
  BY <1>2 DEF pendingCommands
<1>6. QED
  BY <1>2, <1>3, <1>4, <1>5 DEF Service!serviceVars

\* ... and its execution at the end.
LEMMA LoopBreakIsStutter ==
    ASSUME ServiceInv, ExecuteLoopBreak
    PROVE  UNCHANGED Service!serviceVars
<1>t. TypeOK /\ pc[Server] = "execute" /\ command.pod.op = "commandLoopBreak"
  BY DEF ServiceInv, IInv, ExecuteLoopBreak
<1>1. command.pod = LoopBreak
  <2>1. command.pod \in PODs
    BY <1>t DEF TypeOK
  <2>2. ASSUME NEW k \in Calls, command.pod = PodOf(k) PROVE FALSE
    BY <1>t, <2>2, ConfigurationAssumption DEF Calls, Ops, PodOf
  <2>3. QED
    BY <2>1, <2>2 DEF PODs
<1>2. /\ pc'[Server] = "loopLock" /\ commandStream' = commandStream
      /\ UNCHANGED <<latestDraws, presented, wasDisconnectReceived>>
  BY <1>t DEF ExecuteLoopBreak, Goto, TypeOK, Threads, latestDraws
<1>3. pendingCommands = <<>> \o CommandsOf(commandStream)
  BY <1>1 DEF pendingCommands, IsCommand
<1>4. pendingCommands' = <<>> \o CommandsOf(commandStream)
  BY <1>2 DEF pendingCommands
<1>5. QED
  BY <1>2, <1>3, <1>4 DEF Service!serviceVars

\* A step that leaves the stream, the draws and the flags alone and does not
\* begin or end the execution of a command is invisible to the service.
LEMMA QuietIsStutter ==
    ASSUME pc[Server] # "execute", pc'[Server] # "execute",
           UNCHANGED <<commandStream, uniqueDraws, drawn, presented,
                       wasDisconnectReceived>>
    PROVE  UNCHANGED Service!serviceVars
<1>1. pendingCommands = <<>> \o CommandsOf(commandStream)
  BY DEF pendingCommands
<1>2. pendingCommands' = <<>> \o CommandsOf(commandStream)
  BY DEF pendingCommands
<1>3. latestDraws' = latestDraws
  BY DEF latestDraws
<1>4. QED
  BY <1>1, <1>2, <1>3 DEF Service!serviceVars

\* The other steps of a client are too, wherever the server is.
LEMMA ClientIsStutter ==
    ASSUME ServiceInv, NEW c \in Clients, ClientStep(c), ~RecordPOD(c)
    PROVE  UNCHANGED Service!serviceVars
<1>1. UNCHANGED serverVars /\ commandStream' = commandStream
  BY DEF ClientStep, FinishCall, BeginCall, RecordObject, Notify, EndCall,
         serverVars
<1>2. pc[Server] = "execute" <=> pc'[Server] = "execute"
  BY ServerUndisturbed DEF ServiceInv
<1>3. pendingCommands' = pendingCommands
  BY <1>1, <1>2 DEF pendingCommands, serverVars
<1>4. latestDraws' = latestDraws
  BY <1>1 DEF latestDraws, serverVars
<1>5. QED
  BY <1>1, <1>3, <1>4 DEF Service!serviceVars, serverVars

\* What the service holds while a command of a client is executed: the command
\* is the first that is pending, and it carries its own payload.
LEMMA ExecutingIsHead ==
    ASSUME ServiceInv, pc[Server] = "execute", IsCommand(command.pod),
           pc'[Server] # "execute", commandStream' = commandStream
    PROVE  /\ pendingCommands # <<>>
           /\ Head(pendingCommands) = command.pod
           /\ pendingCommands' = Tail(pendingCommands)
           /\ command.pod.op = "draw" => command.object = command.pod.sent
           /\ drawn = {}
           /\ wasDisconnectReceived = FALSE
<1>t. TypeOK /\ OwnObject /\ DrawsInDrawing /\ DisconnectIsLast
  BY DEF ServiceInv, IInv
<1> DEFINE q == CommandsOf(commandStream)
           x == command.pod
           all == <<x>> \o q
<1>1. x \in PODs /\ q \in Seq(PODs)
  BY <1>t, CommandsOfType DEF TypeOK
<1>2. pendingCommands = all
  BY DEF pendingCommands
<1>3. pendingCommands' = <<>> \o q
  BY DEF pendingCommands
<1>4. command.pod.op = "draw" => command.object = command.pod.sent
  BY <1>t DEF OwnObject, HasObject, StreamOf, ObjectStreams
<1>5. drawn = {} /\ wasDisconnectReceived = FALSE
  BY <1>t DEF DrawsInDrawing, DisconnectIsLast, TypeOK
<1> HIDE DEF q, x
<1>6. all # <<>> /\ Head(all) = x /\ Tail(all) = q /\ <<>> \o q = q
  <2>1. <<x>> \in Seq(PODs)
    BY <1>1
  <2>2. all \in Seq(PODs) /\ Len(all) = Len(q) + 1 /\ all[1] = x
    BY <1>1
  <2>3. all # <<>> /\ Head(all) = x
    BY <2>2
  <2>4. Tail(all) = q
    BY <1>1, <2>2
  <2>5. QED
    BY <1>1, <2>3, <2>4, ConcatEmptySeq
<1>7. QED
  BY <1>2, <1>3, <1>4, <1>5, <1>6 DEF x

\* Executing a command of a client is serving the oldest pending one.
LEMMA ExecuteIsServe ==
    ASSUME ServiceInv, ExecuteDraw \/ ExecuteOther \/ ExecuteDisconnect
    PROVE  Service!Serve
<1>t. TypeOK /\ pc[Server] = "execute"
  BY DEF ServiceInv, IInv, ExecuteDraw, ExecuteOther, ExecuteDisconnect
<1> DEFINE r == command.pod
<1>1. /\ pc'[Server] # "execute" /\ IsCommand(r)
      /\ commandStream' = commandStream
      /\ UNCHANGED <<presented, drawn>>
  BY <1>t DEF ExecuteDraw, ExecuteOther, ExecuteDisconnect, Goto, TypeOK,
              Threads, IsCommand, LoopBreak
<1>2. /\ pendingCommands # <<>>
      /\ Head(pendingCommands) = r
      /\ pendingCommands' = Tail(pendingCommands)
      /\ drawn = {} /\ wasDisconnectReceived = FALSE
      /\ r.op = "draw" => command.object = r.sent
  BY <1>1, <1>t, ExecutingIsHead
<1>3. /\ latestDraws = [k \in DOMAIN uniqueDraws |-> uniqueDraws[k]]
      /\ latestDraws' = [k \in DOMAIN uniqueDraws' |-> uniqueDraws'[k]]
  BY <1>1, <1>2 DEF latestDraws
<1>4. latestDraws' = IF r.op = "draw"
                     THEN [k \in DOMAIN latestDraws \cup {r.key} |->
                             IF k = r.key THEN r.sent ELSE latestDraws[k]]
                     ELSE latestDraws
  <2>1. CASE ExecuteDraw
    <3>1. /\ r.op = "draw"
          /\ uniqueDraws' = [k \in DOMAIN uniqueDraws \cup {r.key} |->
                               IF k = r.key THEN r.sent ELSE uniqueDraws[k]]
      BY <1>2, <2>1 DEF ExecuteDraw
    <3>2. QED
      BY <1>3, <3>1
  <2>2. CASE ExecuteOther \/ ExecuteDisconnect
    <3>1. r.op # "draw" /\ uniqueDraws' = uniqueDraws
      BY <2>2 DEF ExecuteOther, ExecuteDisconnect
    <3>2. QED
      BY <1>3, <3>1
  <2>3. QED
    BY <2>1, <2>2
<1>5. wasDisconnectReceived' = (r.op = "disconnect")
  BY <1>2 DEF ExecuteDraw, ExecuteOther, ExecuteDisconnect
<1> HIDE DEF r
<1>6. QED
  BY <1>1, <1>2, <1>4, <1>5 DEF Service!Serve

\* Running a callback shows the latest for its key.
LEMMA RunDrawIsShow ==
    ASSUME ServiceInv, NEW k \in DrawKeys, RunDraw(k)
    PROVE  Service!Show(k)
<1>1. /\ pc[Server] = "drawing" /\ pc' = pc /\ commandStream' = commandStream
      /\ k \in DOMAIN uniqueDraws \ drawn
      /\ drawn' = drawn \cup {k}
      /\ presented' = [presented EXCEPT ![k] = uniqueDraws[k]]
      /\ uniqueDraws' = uniqueDraws
      /\ wasDisconnectReceived' = wasDisconnectReceived
  BY DEF RunDraw
<1>2. ~wasDisconnectReceived
  BY <1>1 DEF ServiceInv, DisconnectIsLast
<1>3. pendingCommands' = pendingCommands
  BY <1>1 DEF pendingCommands
<1>4. DOMAIN latestDraws = DOMAIN uniqueDraws \ drawn /\ latestDraws[k] = uniqueDraws[k]
  BY <1>1 DEF latestDraws
<1>5. latestDraws' = [j \in DOMAIN latestDraws \ {k} |-> latestDraws[j]]
  BY <1>1, <1>4 DEF latestDraws
<1>6. QED
  BY <1>1, <1>2, <1>3, <1>4, <1>5 DEF Service!Show

\* Forgetting the callbacks when all have run changes nothing.
LEMMA EndBatchIsStutter ==
    ASSUME ServiceInv, EndBatch
    PROVE  UNCHANGED Service!serviceVars
<1>t. TypeOK /\ pc[Server] = "drawing"
  BY DEF ServiceInv, IInv, EndBatch
<1>1. pc'[Server] = "serving" /\ commandStream' = commandStream
  BY <1>t DEF EndBatch, Goto, TypeOK, Threads
<1>2. pendingCommands' = pendingCommands
  BY <1>1, <1>t DEF pendingCommands
<1>3. latestDraws = [k \in {} |-> uniqueDraws[k]] /\ latestDraws' = [k \in {} |-> uniqueDraws'[k]]
  BY DEF EndBatch, latestDraws
<1>4. latestDraws' = latestDraws
  BY <1>3
<1>5. QED
  BY <1>2, <1>4 DEF EndBatch, Service!serviceVars

\* Every step of the transport is a step of the service, or none.
LEMMA ServiceStep ==
    ServiceInv /\ [Next]_vars => [Service!ServiceNext]_(Service!serviceVars)
<1> SUFFICES ASSUME ServiceInv, [Next]_vars
             PROVE  [Service!ServiceNext]_(Service!serviceVars)
  OBVIOUS
<1>t. TypeOK /\ Server \in Threads
  BY DEF ServiceInv, IInv, Threads
<1>1. ASSUME NEW c \in Clients, ClientStep(c)
      PROVE  [Service!ServiceNext]_(Service!serviceVars)
  BY <1>1, RecordPODIsSubmit, ClientIsStutter
<1>2. CASE ServerLock \/ SpuriousWakeup \/ WaitCommands \/ PollCommands
           \/ WaitCheck \/ EarlyOut \/ LoopAgain \/ LoopExit
  <2>1. /\ pc[Server] # "execute" /\ pc'[Server] # "execute"
        /\ UNCHANGED <<commandStream, uniqueDraws, drawn, presented,
                       wasDisconnectReceived>>
    BY <1>2, <1>t
    DEF TypeOK, ServerLock, WaitLock, BatchLock, LoopLock, SpuriousWakeup,
        WaitCommands, PollCommands, WaitCheck, EarlyOut, LoopAgain, LoopExit,
        Goto, serverVars
  <2>2. QED
    BY <2>1, QuietIsStutter
<1>3. CASE BeginBatch \/ Pop \/ ExecuteLoopBreak \/ EndBatch
  BY <1>3, BeginBatchIsStutter, PopIsStutter, LoopBreakIsStutter,
     EndBatchIsStutter
<1>4. CASE ExecuteDraw \/ ExecuteOther \/ ExecuteDisconnect
  BY <1>4, ExecuteIsServe DEF Service!ServiceNext
<1>5. ASSUME NEW k \in DrawKeys, RunDraw(k)
      PROVE  [Service!ServiceNext]_(Service!serviceVars)
  BY <1>5, RunDrawIsShow DEF Service!ServiceNext
<1>6. CASE UNCHANGED vars
  BY <1>6 DEF vars, Service!serviceVars, pendingCommands, latestDraws
<1>7. QED
  BY <1>1, <1>2, <1>3, <1>4, <1>5, <1>6 DEF Next, ServerStep, Execute

\* Locks, batches, markers and side streams implement the service: nothing is
\* executed but what a client recorded, in the order of recording and once; of
\* the draws executed for a key the latest is the one that runs; nothing
\* happens after a disconnect.
THEOREM TransportServesInOrder == Spec => Service!ServiceSafety
<1>1. Init => DrawsInDrawing /\ DisconnectIsLast
  BY DEF Init, DrawsInDrawing, DisconnectIsLast
<1>2. QED
  BY <1>1, InitIsServiceInit, TransportInvariant, ServiceInvStep, ServiceStep,
     PTL DEF Spec, ServiceInv, Service!ServiceSafety
=============================================================================
