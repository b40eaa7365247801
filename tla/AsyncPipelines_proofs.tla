------------------------ MODULE AsyncPipelines_proofs ------------------------
(* No job is lost or compiled twice, no vertex shader is built by two        *)
(* threads at once, and the two threads implement PipelineCache, for any     *)
(* pipelines, shaders, modes and back ends.                                  *)
EXTENDS AsyncPipelines, SequenceTheorems, TLAPS

Labels == RenderLabels \cup WorkerLabels

\* The render thread stores a pipeline that nobody has asked for yet, or one
\* whose program it polls.
RenderOwnsItsEntry ==
    /\ pc.render \in {"queue"} \cup Compiling => pipelines[key.render] = "none"
    /\ pc.render = "advance" => pipelines[key.render] = "notReady"

\* The GL renderer, which alone clears the cache, has no background thread.
PolledHasNoThread ==
    /\ pc.render = "queue" => backend = "threaded"
    /\ backend = "polled" =>
          jobQueue = <<>> /\ completedJobs = <<>> /\ pc.worker = "none"

IInv ==
    /\ TypeOK
    /\ RenderOwnsItsEntry
    /\ PolledHasNoThread
    /\ EachJobInOnePlace
    /\ ShaderBuiltOnce

(***************************************************************************)
(* Steps of a thread                                                       *)
(***************************************************************************)

\* The threads are two.
LEMMA TwoThreads ==
    ASSUME TypeOK
    PROVE  /\ pc \in [Threads -> Labels]
           /\ key \in [Threads -> Keys \cup {None}]
           /\ "render" \in Threads /\ "worker" \in Threads
           /\ \A t \in Threads : t = "render" \/ t = "worker"
BY DEF TypeOK, Labels, Threads

\* One thread goes on, the other stays where it is.
LEMMA GotoFacts ==
    ASSUME pc \in [Threads -> Labels], NEW t \in Threads, NEW l \in Labels,
           pc' = [pc EXCEPT ![t] = l]
    PROVE  /\ pc' \in [Threads -> Labels]
           /\ pc'[t] = l
           /\ \A u \in Threads : u # t => pc'[u] = pc[u]
OBVIOUS

\* One thread goes on, and wakes the other if that sleeps.
LEMMA WokenFacts ==
    ASSUME pc \in [Threads -> Labels], NEW t \in Threads,
           NEW from \in Labels, NEW to \in Labels, NEW l \in Labels,
           pc' = [Woken(from, to) EXCEPT ![t] = l]
    PROVE  /\ pc' \in [Threads -> Labels]
           /\ pc'[t] = l
           /\ \A u \in Threads : u # t =>
                 pc'[u] = (IF pc[u] = from THEN to ELSE pc[u])
<1>1. Woken(from, to) = [u \in Threads |-> IF pc[u] = from THEN to ELSE pc[u]]
  BY DEF Woken
<1>2. Woken(from, to) \in [Threads -> Labels]
  BY <1>1
<1> QED BY <1>1, <1>2

\* Steps that leave the jobs alone and touch no entry that is waited for.
LEMMA JobsStay ==
    ASSUME EachJobInOnePlace,
           UNCHANGED <<jobQueue, completedJobs>>,
           key'.worker = key.worker,
           \A k \in Keys : pipelines'[k] = "empty" <=> pipelines[k] = "empty"
    PROVE  EachJobInOnePlace'
BY DEF EachJobInOnePlace, Queued, Completed

\* Steps that neither begin nor end the building of a shader.
LEMMA ShadersStay ==
    ASSUME ShaderBuiltOnce, UNCHANGED shaders,
           \A t \in Threads :
               /\ pc'[t] = "build" <=> pc[t] = "build"
               /\ pc[t] = "build" => key'[t] = key[t]
               /\ pc'[t] = "link" => pc[t] = "link" /\ key'[t] = key[t]
    PROVE  ShaderBuiltOnce'
<1> "render" \in Threads /\ "worker" \in Threads
  BY DEF Threads
<1>1. ASSUME NEW v \in Vertices
      PROVE  shaders'[v] = "building" <=>
                 {t \in Threads : pc'[t] = "build" /\ Vertex[key'[t]] = v} # {}
  <2>1. {t \in Threads : pc'[t] = "build" /\ Vertex[key'[t]] = v}
            = {t \in Threads : pc[t] = "build" /\ Vertex[key[t]] = v}
    OBVIOUS
  <2> QED BY <2>1 DEF ShaderBuiltOnce
<1>2. pc'.render = "build" /\ pc'.worker = "build"
          => Vertex[key'.render] # Vertex[key'.worker]
  BY DEF ShaderBuiltOnce
<1>3. \A t \in Threads : pc'[t] = "link" => shaders'[Vertex[key'[t]]] = "built"
  BY DEF ShaderBuiltOnce
<1> QED BY <1>1, <1>2, <1>3 DEF ShaderBuiltOnce

(***************************************************************************)
(* Vertex shaders                                                          *)
(***************************************************************************)

LEMMA GetShaderStep ==
    ASSUME IInv, NEW t \in Threads, GetShader(t)
    PROVE  IInv'
<1> USE DEF IInv
<1> DEFINE v == Vertex[key[t]]
<1>1. /\ pc[t] = "shader"
      /\ UNCHANGED <<mode, backend, key, asked, answer, pipelines, jobQueue,
                     completedJobs, isDone, linked>>
  BY DEF GetShader, constVars, jobVars
<1>2. PICK l \in {"link", "vertexWait", "build"} :
          /\ pc' = [pc EXCEPT ![t] = l]
          /\ l = "link" => shaders[v] = "built" /\ shaders' = shaders
          /\ l = "vertexWait" => shaders' = shaders
          /\ l = "build" => /\ shaders[v] = "none"
                            /\ shaders' = [shaders EXCEPT ![v] = "building"]
  BY DEF GetShader, Goto
<1>3. /\ pc \in [Threads -> Labels]
      /\ key \in [Threads -> Keys \cup {None}]
      /\ "render" \in Threads /\ "worker" \in Threads
      /\ \A u \in Threads : u = "render" \/ u = "worker"
      /\ l \in Labels /\ l \in Compiling /\ pc[t] \in Compiling
  BY <1>1, TwoThreads DEF Labels, RenderLabels, Compiling
<1>4. /\ pc' \in [Threads -> Labels]
      /\ pc'[t] = l
      /\ \A u \in Threads : u # t => pc'[u] = pc[u]
  BY <1>2, <1>3, GotoFacts
<1>5. key[t] \in Keys /\ v \in Vertices
  <2>1. key[t] # None
    BY <1>1, <1>3 DEF TypeOK, Compiling
  <2> QED BY <1>3, <2>1, AsyncPipelinesAssumption
<1>6. \A u \in Threads : pc'[u] \in Compiling <=> pc[u] \in Compiling
  BY <1>3, <1>4
<1> HIDE DEF v
<1>a. TypeOK'
  <2>1. pc'.render \in RenderLabels /\ pc'.worker \in WorkerLabels
    BY <1>3, <1>4 DEF TypeOK, RenderLabels, WorkerLabels
  <2>2. shaders' \in [Vertices -> {"none", "building", "built"}]
    BY <1>2, <1>5 DEF TypeOK
  <2>3. /\ key.render = None <=> pc'.render \in {"idle", "notify", "join", "gone"}
        /\ key.worker = None <=> pc'.worker \notin Compiling
    BY <1>1, <1>2, <1>3, <1>4, <1>6 DEF TypeOK
  <2> QED BY <1>1, <1>4, <2>1, <2>2, <2>3 DEF TypeOK, Labels
<1>b. RenderOwnsItsEntry'
  <2>1. pc'.render # pc.render => pc.render \in Compiling /\ pc'.render \in Compiling
    BY <1>3, <1>4
  <2> QED BY <1>1, <2>1 DEF RenderOwnsItsEntry, Compiling
<1>c. PolledHasNoThread'
  BY <1>1, <1>2, <1>3, <1>4 DEF PolledHasNoThread
<1>d. EachJobInOnePlace'
  BY <1>1, JobsStay
<1>e. ShaderBuiltOnce'
  <2>1. CASE l # "build"
    <3>1. ASSUME NEW w \in Vertices
          PROVE  {u \in Threads : pc'[u] = "build" /\ Vertex[key'[u]] = w}
                     = {u \in Threads : pc[u] = "build" /\ Vertex[key[u]] = w}
      BY <1>1, <1>4, <2>1
    <3>2. shaders' = shaders
      BY <1>2, <2>1
    <3>3. \A u \in Threads : pc'[u] = "link" => shaders'[Vertex[key'[u]]] = "built"
      BY <1>1, <1>2, <1>4, <2>1, <3>2 DEF ShaderBuiltOnce, v
    <3>4. pc'.render = "build" /\ pc'.worker = "build"
              => Vertex[key'.render] # Vertex[key'.worker]
      BY <1>1, <1>3, <1>4, <2>1 DEF ShaderBuiltOnce
    <3> QED BY <3>1, <3>2, <3>3, <3>4 DEF ShaderBuiltOnce
  <2>2. CASE l = "build"
    <3>1. shaders[v] = "none" /\ shaders' = [shaders EXCEPT ![v] = "building"]
      BY <1>2, <2>2
    <3>2. shaders \in [Vertices -> {"none", "building", "built"}]
      BY DEF TypeOK
    <3>3. \A u \in Threads : pc[u] = "build" => Vertex[key[u]] # v
      <4>1. {u \in Threads : pc[u] = "build" /\ Vertex[key[u]] = v} = {}
        BY <1>5, <3>1 DEF ShaderBuiltOnce
      <4> QED BY <4>1
    <3>4. ASSUME NEW w \in Vertices
          PROVE  shaders'[w] = "building" <=>
                     {u \in Threads : pc'[u] = "build" /\ Vertex[key'[u]] = w} # {}
      <4>1. CASE w = v
        <5>1. t \in {u \in Threads : pc'[u] = "build" /\ Vertex[key'[u]] = w}
          BY <1>1, <1>4, <2>2, <4>1 DEF v
        <5>2. shaders'[w] = "building"
          BY <3>1, <3>2, <4>1
        <5> QED BY <5>1, <5>2
      <4>2. CASE w # v
        <5>1. {u \in Threads : pc'[u] = "build" /\ Vertex[key'[u]] = w}
                  = {u \in Threads : pc[u] = "build" /\ Vertex[key[u]] = w}
          BY <1>1, <1>4, <4>2 DEF v
        <5>2. shaders'[w] = shaders[w]
          BY <3>1, <3>2, <4>2
        <5> QED BY <5>1, <5>2 DEF ShaderBuiltOnce
      <4> QED BY <4>1, <4>2
    <3>5. pc'.render = "build" /\ pc'.worker = "build"
              => Vertex[key'.render] # Vertex[key'.worker]
      BY <1>1, <1>3, <1>4, <3>3 DEF v
    <3>6. ASSUME NEW u \in Threads, pc'[u] = "link"
          PROVE  shaders'[Vertex[key'[u]]] = "built"
      <4>1. u # t /\ pc[u] = "link"
        BY <1>4, <2>2, <3>6
      <4>2. shaders[Vertex[key[u]]] = "built"
        BY <4>1 DEF ShaderBuiltOnce
      <4> QED BY <1>1, <3>1, <3>2, <4>2
    <3> QED BY <3>4, <3>5, <3>6 DEF ShaderBuiltOnce
  <2> QED BY <2>1, <2>2
<1> QED BY <1>a, <1>b, <1>c, <1>d, <1>e

LEMMA BuiltShaderStep ==
    ASSUME IInv, NEW t \in Threads, BuiltShader(t)
    PROVE  IInv'
<1> USE DEF IInv
<1> DEFINE v == Vertex[key[t]]
<1>1. /\ pc[t] = "build"
      /\ shaders' = [shaders EXCEPT ![v] = "built"]
      /\ pc' = [Woken("vertexWait", "shader") EXCEPT ![t] = "link"]
      /\ UNCHANGED <<mode, backend, key, asked, answer, pipelines, jobQueue,
                     completedJobs, isDone, linked>>
  BY DEF BuiltShader, constVars, jobVars
<1>3. /\ pc \in [Threads -> Labels]
      /\ key \in [Threads -> Keys \cup {None}]
      /\ "render" \in Threads /\ "worker" \in Threads
      /\ \A u \in Threads : u = "render" \/ u = "worker"
      /\ {"vertexWait", "shader", "link"} \subseteq Labels \cap Compiling
      /\ pc[t] \in Compiling
  BY <1>1, TwoThreads DEF Labels, RenderLabels, Compiling
<1>4. /\ pc' \in [Threads -> Labels]
      /\ pc'[t] = "link"
      /\ \A u \in Threads : u # t =>
            pc'[u] = (IF pc[u] = "vertexWait" THEN "shader" ELSE pc[u])
  BY <1>1, <1>3, WokenFacts
<1>5. key[t] \in Keys /\ v \in Vertices
  <2>1. key[t] # None
    BY <1>1, <1>3 DEF TypeOK, Compiling
  <2> QED BY <1>3, <2>1, AsyncPipelinesAssumption
<1>6. \A u \in Threads :
          \/ pc'[u] = pc[u]
          \/ pc[u] \in Compiling /\ pc'[u] \in Compiling
  BY <1>3, <1>4
<1> HIDE DEF v
<1>7. shaders \in [Vertices -> {"none", "building", "built"}]
  BY DEF TypeOK
<1>a. TypeOK'
  <2>1. pc'.render \in RenderLabels /\ pc'.worker \in WorkerLabels
    BY <1>3, <1>6 DEF TypeOK, RenderLabels, WorkerLabels
  <2>2. shaders' \in [Vertices -> {"none", "building", "built"}]
    BY <1>1, <1>5, <1>7
  <2>3. /\ key.render = None <=> pc'.render \in {"idle", "notify", "join", "gone"}
        /\ key.worker = None <=> pc'.worker \notin Compiling
    BY <1>3, <1>6 DEF TypeOK, Compiling
  <2> QED BY <1>1, <1>4, <2>1, <2>2, <2>3 DEF TypeOK, Labels
<1>b. RenderOwnsItsEntry'
  <2>1. pc'.render # pc.render => pc.render \in Compiling /\ pc'.render \in Compiling
    BY <1>3, <1>6
  <2> QED BY <1>1, <2>1 DEF RenderOwnsItsEntry, Compiling
<1>c. PolledHasNoThread'
  BY <1>1, <1>3, <1>4 DEF PolledHasNoThread
<1>d. EachJobInOnePlace'
  BY <1>1, JobsStay
<1>e. ShaderBuiltOnce'
  <2>1. \A u \in Threads : u # t /\ pc'[u] = "build"
            => pc[u] = "build" /\ Vertex[key[u]] # v
    BY <1>1, <1>3, <1>4 DEF ShaderBuiltOnce, v
  <2>2. ASSUME NEW w \in Vertices
        PROVE  shaders'[w] = "building" <=>
                   {u \in Threads : pc'[u] = "build" /\ Vertex[key'[u]] = w} # {}
    <3>1. CASE w = v
      <4>1. {u \in Threads : pc'[u] = "build" /\ Vertex[key'[u]] = w} = {}
        BY <1>1, <1>4, <2>1, <3>1
      <4>2. shaders'[w] = "built"
        BY <1>1, <1>7, <3>1
      <4> QED BY <4>1, <4>2
    <3>2. CASE w # v
      <4>1. {u \in Threads : pc'[u] = "build" /\ Vertex[key'[u]] = w}
                = {u \in Threads : pc[u] = "build" /\ Vertex[key[u]] = w}
        BY <1>1, <1>4, <3>2 DEF v
      <4>2. shaders'[w] = shaders[w]
        BY <1>1, <1>7, <3>2
      <4> QED BY <4>1, <4>2 DEF ShaderBuiltOnce
    <3> QED BY <3>1, <3>2
  <2>3. pc'.render = "build" /\ pc'.worker = "build"
            => Vertex[key'.render] # Vertex[key'.worker]
    BY <1>3, <1>4
  <2>4. ASSUME NEW u \in Threads, pc'[u] = "link"
        PROVE  shaders'[Vertex[key'[u]]] = "built"
    <3>1. CASE u = t
      BY <1>1, <1>5, <1>7, <3>1 DEF v
    <3>2. CASE u # t
      <4>1. shaders[Vertex[key[u]]] = "built"
        BY <1>4, <2>4, <3>2 DEF ShaderBuiltOnce
      <4> QED BY <1>1, <1>7, <4>1
    <3> QED BY <3>1, <3>2
  <2> QED BY <2>2, <2>3, <2>4 DEF ShaderBuiltOnce
<1> QED BY <1>a, <1>b, <1>c, <1>d, <1>e

(***************************************************************************)
(* Steps that build nothing                                                *)
(***************************************************************************)

\* The render thread goes on, and at most answers or stores a pipeline that was
\* not waited for.
LEMMA RenderGoes ==
    ASSUME IInv, NEW l \in RenderLabels,
           pc' = [pc EXCEPT !.render = l],
           pc.render # "build", l \notin {"build", "link"},
           UNCHANGED <<mode, backend, jobQueue, completedJobs, shaders>>,
           key' \in [Threads -> Keys \cup {None}],
           key'.worker = key.worker,
           key'.render = None <=> l \in {"idle", "notify", "join", "gone"},
           asked' \in Keys \cup {None},
           answer' \in [asked : Keys \cup {None}, given : Keys \cup {None}],
           isDone' \in BOOLEAN,
           linked' \subseteq Keys,
           pipelines' \in
               [Keys -> {"none", "empty", "notReady", "ready", "errored"}],
           \A k \in Keys : pipelines'[k] = "empty" <=> pipelines[k] = "empty",
           l \in {"queue"} \cup Compiling => pipelines'[key'.render] = "none",
           l = "advance" => pipelines'[key'.render] = "notReady",
           l = "queue" => backend = "threaded"
    PROVE  IInv'
<1> USE DEF IInv
<1>1. /\ pc \in [Threads -> Labels]
      /\ "render" \in Threads /\ "worker" \in Threads
      /\ \A u \in Threads : u = "render" \/ u = "worker"
      /\ l \in Labels
  BY TwoThreads DEF Labels
<1>2. /\ pc' \in [Threads -> Labels]
      /\ pc'.render = l
      /\ pc'.worker = pc.worker
  BY <1>1, GotoFacts
<1>a. TypeOK'
  BY <1>2 DEF TypeOK, Labels
<1>b. RenderOwnsItsEntry'
  BY <1>2 DEF RenderOwnsItsEntry
<1>c. PolledHasNoThread'
  BY <1>2 DEF PolledHasNoThread
<1>d. EachJobInOnePlace'
  BY JobsStay
<1>e. ShaderBuiltOnce'
  <2>1. \A t \in Threads :
            /\ pc'[t] = "build" <=> pc[t] = "build"
            /\ pc[t] = "build" => key'[t] = key[t]
            /\ pc'[t] = "link" => pc[t] = "link" /\ key'[t] = key[t]
    BY <1>1, <1>2
  <2> QED BY <2>1, ShadersStay
<1> QED BY <1>a, <1>b, <1>c, <1>d, <1>e

\* Threads are started, sent to sleep, woken or ended.
LEMMA OnlyLabels ==
    ASSUME IInv,
           UNCHANGED <<mode, backend, key, asked, answer, pipelines, jobQueue,
                       completedJobs, isDone, shaders, linked>>,
           pc' \in [Threads -> Labels],
           \A t \in Threads :
               \/ pc'[t] = pc[t]
               \/ pc[t] = "vertexWait" /\ pc'[t] = "shader"
               \/ t = "render" /\ pc[t] = "notify" /\ pc'[t] = "join"
               \/ /\ t = "worker"
                  /\ pc[t] \in {"none", "test", "sleep"}
                  /\ pc'[t] \in {"test", "sleep", "ended"},
           backend = "polled" => pc'.worker = "none"
    PROVE  IInv'
<1> USE DEF IInv
<1>1. /\ "render" \in Threads /\ "worker" \in Threads
      /\ \A u \in Threads : u = "render" \/ u = "worker"
  BY TwoThreads
<1>2. /\ \/ pc'.render = pc.render
         \/ pc.render = "vertexWait" /\ pc'.render = "shader"
         \/ pc.render = "notify" /\ pc'.render = "join"
      /\ \/ pc'.worker = pc.worker
         \/ pc.worker = "vertexWait" /\ pc'.worker = "shader"
         \/ /\ pc.worker \in {"none", "test", "sleep"}
            /\ pc'.worker \in {"test", "sleep", "ended"}
  BY <1>1
<1>a. TypeOK'
  <2>1. pc'.render \in RenderLabels /\ pc'.worker \in WorkerLabels
    BY <1>2 DEF TypeOK, RenderLabels, WorkerLabels, Compiling
  <2>2. /\ key.render = None <=> pc'.render \in {"idle", "notify", "join", "gone"}
        /\ key.worker = None <=> pc'.worker \notin Compiling
    BY <1>2 DEF TypeOK, Compiling
  <2> QED BY <2>1, <2>2 DEF TypeOK, Labels
<1>b. RenderOwnsItsEntry'
  BY <1>2 DEF RenderOwnsItsEntry, Compiling
<1>c. PolledHasNoThread'
  BY <1>2 DEF PolledHasNoThread
<1>d. EachJobInOnePlace'
  BY JobsStay
<1>e. ShaderBuiltOnce'
  <2>1. \A t \in Threads :
            /\ pc'[t] = "build" <=> pc[t] = "build"
            /\ pc[t] = "build" => key'[t] = key[t]
            /\ pc'[t] = "link" => pc[t] = "link" /\ key'[t] = key[t]
    OBVIOUS
  <2> QED BY <2>1, ShadersStay
<1> QED BY <1>a, <1>b, <1>c, <1>d, <1>e

\* What the render thread has in hand.
LEMMA RenderKey ==
    ASSUME IInv
    PROVE  /\ pc.render \notin {"idle", "notify", "join", "gone"}
                  => key.render \in Keys /\ Uber[key.render] \in Keys
           /\ None \notin Keys
           /\ \A k \in Keys \cup {None} :
                 /\ [key EXCEPT !.render = k] \in [Threads -> Keys \cup {None}]
                 /\ [key EXCEPT !.render = k].render = k
                 /\ [key EXCEPT !.render = k].worker = key.worker
<1>1. /\ key \in [Threads -> Keys \cup {None}]
      /\ "render" \in Threads /\ "worker" \in Threads
  BY TwoThreads DEF IInv
<1> QED BY <1>1, AsyncPipelinesAssumption DEF IInv, TypeOK

LEMMA TryGetPipelineStep ==
    ASSUME IInv, NEW k \in Keys, TryGetPipeline(k)
    PROVE  IInv'
<1> DEFINE wanted == IF mode = "onlyUbershaders" THEN Uber[k] ELSE k
<1>1. wanted \in Keys
  BY AsyncPipelinesAssumption
<1> HIDE DEF wanted
<1>2. /\ pc.render = "idle"
      /\ asked' = wanted
      /\ key' = [key EXCEPT !.render = wanted]
      /\ pc' = [pc EXCEPT !.render = "find"]
      /\ UNCHANGED <<mode, backend, answer, pipelines, jobQueue, completedJobs,
                     isDone, shaders, linked>>
  BY DEF TryGetPipeline, Goto, wanted, constVars, jobVars
<1>3. "find" \in RenderLabels /\ "find" \notin {"queue"} \cup Compiling
  BY DEF RenderLabels, Compiling
<1>4. /\ key' \in [Threads -> Keys \cup {None}]
      /\ key'.render = wanted /\ key'.worker = key.worker
      /\ wanted # None
  BY <1>1, <1>2, RenderKey
<1>5. TypeOK
  BY DEF IInv
<1> QED BY <1>1, <1>2, <1>3, <1>4, <1>5, RenderGoes DEF TypeOK

LEMMA FindStep ==
    ASSUME IInv, Find
    PROVE  IInv'
<1> DEFINE k == key.render
           l == CASE pipelines[k] = "empty" -> "poll"
                  [] pipelines[k] \in {"notReady", "ready", "errored"} -> "check"
                  [] pipelines[k] = "none" /\ IsAsync(k) /\ backend = "threaded"
                         -> "queue"
                  [] OTHER -> "shader"
<1>1. /\ pc.render = "find"
      /\ pc' = [pc EXCEPT !.render = l]
      /\ UNCHANGED <<mode, backend, key, asked, answer, pipelines, jobQueue,
                     completedJobs, isDone, shaders, linked>>
  BY DEF Find, Goto, constVars, jobVars
<1>2. TypeOK
  BY DEF IInv
<1>3. key.render \in Keys /\ key.render # None
  BY <1>1, RenderKey
<1>4. pipelines[k] \in {"none", "empty", "notReady", "ready", "errored"}
  BY <1>2, <1>3 DEF TypeOK
<1>5. /\ l \in {"poll", "check", "queue", "shader"}
      /\ l \in {"queue", "shader"} => pipelines[k] = "none"
      /\ l = "queue" => backend = "threaded"
  BY <1>4
<1> HIDE DEF l
<1>6. /\ l \in RenderLabels
      /\ l \notin {"build", "link", "idle", "notify", "join", "gone", "advance"}
      /\ l \in {"queue"} \cup Compiling => l \in {"queue", "shader"}
  BY <1>5 DEF RenderLabels, Compiling
<1> QED BY <1>1, <1>2, <1>3, <1>5, <1>6, RenderGoes DEF TypeOK

LEMMA LinkOnRenderThreadStep ==
    ASSUME IInv, LinkOnRenderThread
    PROVE  IInv'
<1>1. /\ pc.render = "link"
      /\ UNCHANGED <<mode, backend, key, asked, answer, jobQueue, completedJobs,
                     isDone, shaders, linked>>
  BY DEF LinkOnRenderThread, constVars, jobVars
<1>2. PICK l \in {"check", "advance"}, s \in Outcomes \cup {"notReady"} :
          /\ pc' = [pc EXCEPT !.render = l]
          /\ pipelines' = [pipelines EXCEPT ![key.render] = s]
          /\ l = "advance" => s = "notReady"
  BY DEF LinkOnRenderThread, Goto
<1>3. TypeOK
  BY DEF IInv
<1>4. key.render \in Keys /\ key.render # None
  BY <1>1, RenderKey
<1>5. pipelines[key.render] = "none"
  BY <1>1 DEF IInv, RenderOwnsItsEntry, Compiling
<1>6. /\ pipelines' \in
             [Keys -> {"none", "empty", "notReady", "ready", "errored"}]
      /\ \A k \in Keys : pipelines'[k] = "empty" <=> pipelines[k] = "empty"
      /\ l = "advance" => pipelines'[key.render] = "notReady"
  BY <1>2, <1>3, <1>4, <1>5 DEF TypeOK, Outcomes
<1>7. l \in RenderLabels /\ l \notin {"queue"} \cup Compiling
  BY <1>2 DEF RenderLabels, Compiling
<1> QED BY <1>1, <1>2, <1>3, <1>4, <1>6, <1>7, RenderGoes DEF TypeOK

LEMMA AdvanceLinkedStep ==
    ASSUME IInv, AdvanceLinked
    PROVE  IInv'
<1>1. /\ pc.render = "advance"
      /\ pc' = [pc EXCEPT !.render = "check"]
      /\ UNCHANGED <<mode, backend, key, asked, answer, jobQueue, completedJobs,
                     isDone, shaders, linked>>
  BY DEF AdvanceLinked, Goto, constVars, jobVars
<1>2. PICK outcome \in Outcomes :
          pipelines' = [pipelines EXCEPT ![key.render] = outcome]
  BY DEF AdvanceLinked
<1>3. TypeOK
  BY DEF IInv
<1>4. key.render \in Keys /\ key.render # None
  BY <1>1, RenderKey
<1>5. pipelines[key.render] = "notReady"
  BY <1>1 DEF IInv, RenderOwnsItsEntry
<1>6. /\ pipelines' \in
             [Keys -> {"none", "empty", "notReady", "ready", "errored"}]
      /\ \A k \in Keys : pipelines'[k] = "empty" <=> pipelines[k] = "empty"
  BY <1>2, <1>3, <1>4, <1>5 DEF TypeOK, Outcomes
<1>7. "check" \in RenderLabels /\ "check" \notin {"queue"} \cup Compiling
  BY DEF RenderLabels, Compiling
<1> QED BY <1>1, <1>3, <1>4, <1>6, <1>7, RenderGoes DEF TypeOK

\* The steps that go from one test of the entry to the next.
LEMMA GoesToCheckOrFind ==
    ASSUME IInv,
           NEW l \in {"check", "find", "advance"}, NEW k \in Keys,
           pc.render \in {"poll", "check", "advance"},
           pc' = [pc EXCEPT !.render = l],
           key' = [key EXCEPT !.render = k],
           l = "advance" => pipelines[k] = "notReady",
           UNCHANGED <<mode, backend, asked, answer, pipelines, jobQueue,
                       completedJobs, isDone, shaders, linked>>
    PROVE  IInv'
<1>1. TypeOK
  BY DEF IInv
<1>2. /\ key' \in [Threads -> Keys \cup {None}]
      /\ key'.render = k /\ key'.worker = key.worker
      /\ k # None
  BY RenderKey
<1>3. l \in RenderLabels /\ l \notin {"queue"} \cup Compiling
  BY DEF RenderLabels, Compiling
<1>4. l \notin {"idle", "notify", "join", "gone"} /\ l \notin {"build", "link"}
  OBVIOUS
<1> QED BY <1>1, <1>2, <1>3, <1>4, RenderGoes DEF TypeOK

LEMMA CheckSteps ==
    ASSUME IInv, NoneCompleted \/ StillLinking \/ Fallback \/ AdvanceUnlinked
    PROVE  IInv'
<1>1. pc.render \in {"poll", "check", "advance"}
  BY DEF NoneCompleted, StillLinking, Fallback, AdvanceUnlinked
<1>2. key.render \in Keys /\ Uber[key.render] \in Keys
  BY <1>1, RenderKey
<1>3. key = [key EXCEPT !.render = key.render]
  BY TwoThreads DEF IInv
<1>4. CASE NoneCompleted
  <2>1. /\ pc' = [pc EXCEPT !.render = "check"]
        /\ UNCHANGED <<mode, backend, key, asked, answer, pipelines, jobQueue,
                       completedJobs, isDone, shaders, linked>>
    BY <1>4 DEF NoneCompleted, Goto, constVars, jobVars
  <2> QED BY <1>1, <1>2, <1>3, <2>1, GoesToCheckOrFind
<1>5. CASE StillLinking
  <2>1. /\ pc' = [pc EXCEPT !.render = "advance"]
        /\ pipelines[key.render] = "notReady"
        /\ UNCHANGED <<mode, backend, key, asked, answer, pipelines, jobQueue,
                       completedJobs, isDone, shaders, linked>>
    BY <1>5 DEF StillLinking, Goto, constVars, jobVars
  <2> QED BY <1>1, <1>2, <1>3, <2>1, GoesToCheckOrFind
<1>6. CASE Fallback \/ AdvanceUnlinked
  <2>1. /\ pc' = [pc EXCEPT !.render = "find"]
        /\ key' = [key EXCEPT !.render = Uber[key.render]]
        /\ UNCHANGED <<mode, backend, asked, answer, pipelines, jobQueue,
                       completedJobs, isDone, shaders, linked>>
    BY <1>6 DEF Fallback, AdvanceUnlinked, Goto, constVars, jobVars
  <2> QED BY <1>1, <1>2, <2>1, GoesToCheckOrFind
<1> QED BY <1>4, <1>5, <1>6

LEMMA ReturnStep ==
    ASSUME IInv, ReturnReady \/ ReturnNull
    PROVE  IInv'
<1>1. TypeOK
  BY DEF IInv
<1>2. pc.render = "check" /\ key.render \in Keys
  BY RenderKey DEF ReturnReady, ReturnNull
<1>3. PICK given \in Keys \cup {None} : Return(given)
  BY <1>2 DEF ReturnReady, ReturnNull
<1>4. /\ answer' = [asked |-> asked, given |-> given]
      /\ asked' = None
      /\ key' = [key EXCEPT !.render = None]
      /\ pc' = [pc EXCEPT !.render = "idle"]
      /\ UNCHANGED <<mode, backend, pipelines, jobQueue, completedJobs, isDone,
                     shaders, linked>>
  BY <1>3 DEF Return, Goto, constVars, jobVars
<1>5. /\ key' \in [Threads -> Keys \cup {None}]
      /\ key'.render = None /\ key'.worker = key.worker
  BY <1>4, RenderKey
<1>6. answer' \in [asked : Keys \cup {None}, given : Keys \cup {None}]
  BY <1>1, <1>4 DEF TypeOK
<1>7. "idle" \in RenderLabels /\ "idle" \notin {"queue"} \cup Compiling
  BY DEF RenderLabels, Compiling
<1> QED BY <1>1, <1>2, <1>4, <1>5, <1>6, <1>7, RenderGoes DEF TypeOK

LEMMA ShutdownStep ==
    ASSUME IInv, Shutdown \/ Join
    PROVE  IInv'
<1>1. TypeOK
  BY DEF IInv
<1>2. /\ pc.render \in {"idle", "join"}
      /\ isDone' \in BOOLEAN
      /\ UNCHANGED <<mode, backend, key, asked, answer, pipelines, jobQueue,
                     completedJobs, shaders, linked>>
  BY <1>1 DEF Shutdown, Join, TypeOK, constVars, jobVars
<1>3. PICK l \in {"gone", "notify"} : pc' = [pc EXCEPT !.render = l]
  BY DEF Shutdown, Join, Goto
<1>4. l \in RenderLabels /\ l \notin {"queue"} \cup Compiling
  BY <1>3 DEF RenderLabels, Compiling
<1>5. key.render = None /\ key \in [Threads -> Keys \cup {None}]
  BY <1>1, <1>2 DEF TypeOK
<1> QED BY <1>1, <1>2, <1>3, <1>4, <1>5, RenderGoes DEF TypeOK

\* Starting, waking and ending threads.
LEMMA ThreadSteps ==
    ASSUME IInv, StartThread \/ NotifyAll \/ SpuriousWakeup
    PROVE  IInv'
<1>1. UNCHANGED <<mode, backend, key, asked, answer, pipelines, jobQueue,
                  completedJobs, isDone, shaders, linked>>
  BY DEF StartThread, NotifyAll, SpuriousWakeup, constVars, jobVars
<1>2. /\ pc \in [Threads -> Labels]
      /\ "render" \in Threads /\ "worker" \in Threads
      /\ \A u \in Threads : u = "render" \/ u = "worker"
      /\ {"test", "sleep", "shader", "vertexWait", "join"} \subseteq Labels
  BY TwoThreads DEF IInv, Labels, RenderLabels, WorkerLabels, Compiling
<1>3. CASE StartThread
  <2>1. /\ pc.render = "queue" /\ pc.worker = "none"
        /\ pc' = [pc EXCEPT !["worker"] = "test"]
    BY <1>3 DEF StartThread, Goto
  <2>2. /\ pc' \in [Threads -> Labels]
        /\ pc'["worker"] = "test"
        /\ \A u \in Threads : u # "worker" => pc'[u] = pc[u]
    BY <1>2, <2>1, GotoFacts
  <2>3. backend # "polled"
    BY <2>1 DEF IInv, PolledHasNoThread
  <2> QED BY <1>1, <1>2, <2>1, <2>2, <2>3, OnlyLabels
<1>4. CASE NotifyAll
  <2>1. /\ pc.render = "notify"
        /\ pc' = [Woken("sleep", "test") EXCEPT !["render"] = "join"]
    BY <1>4 DEF NotifyAll
  <2>2. /\ pc' \in [Threads -> Labels]
        /\ pc'["render"] = "join"
        /\ \A u \in Threads : u # "render" =>
              pc'[u] = (IF pc[u] = "sleep" THEN "test" ELSE pc[u])
    BY <1>2, <2>1, WokenFacts
  <2>3. backend = "polled" => pc'["worker"] = "none"
    BY <1>2, <2>2 DEF IInv, PolledHasNoThread
  <2>4. \A t \in Threads :
            \/ pc'[t] = pc[t]
            \/ t = "render" /\ pc[t] = "notify" /\ pc'[t] = "join"
            \/ t = "worker" /\ pc[t] = "sleep" /\ pc'[t] = "test"
    BY <1>2, <2>1, <2>2
  <2> QED BY <1>1, <2>2, <2>3, <2>4, OnlyLabels
<1>5. CASE SpuriousWakeup
  <2>1. PICK t \in Threads, l \in {"test", "shader"} :
            /\ pc' = [pc EXCEPT ![t] = l]
            /\ \/ t = "worker" /\ pc[t] = "sleep" /\ l = "test"
               \/ pc[t] = "vertexWait" /\ l = "shader"
    BY <1>2, <1>5 DEF SpuriousWakeup, Goto
  <2>2. /\ pc' \in [Threads -> Labels]
        /\ pc'[t] = l
        /\ \A u \in Threads : u # t => pc'[u] = pc[u]
    BY <1>2, <2>1, GotoFacts
  <2>3. backend = "polled" => pc'["worker"] = "none"
    BY <1>2, <2>1, <2>2 DEF IInv, PolledHasNoThread
  <2>4. \A u \in Threads :
            \/ pc'[u] = pc[u]
            \/ pc[u] = "vertexWait" /\ pc'[u] = "shader"
            \/ u = "worker" /\ pc[u] = "sleep" /\ pc'[u] = "test"
    BY <2>1, <2>2
  <2> QED BY <1>1, <2>2, <2>3, <2>4, OnlyLabels
<1> QED BY <1>3, <1>4, <1>5

(***************************************************************************)
(* Jobs                                                                    *)
(***************************************************************************)

LEMMA QueueBackgroundJobStep ==
    ASSUME IInv, QueueBackgroundJob
    PROVE  IInv'
<1> USE DEF IInv
<1> DEFINE k == key.render
<1>1. /\ pc.render = "queue"
      /\ jobQueue' = Append(jobQueue, k)
      /\ pipelines' = [pipelines EXCEPT ![k] = "empty"]
      /\ pc' = [Woken("sleep", "test") EXCEPT !["render"] = "poll"]
      /\ UNCHANGED <<mode, backend, key, asked, answer, completedJobs, isDone,
                     shaders, linked>>
  BY DEF QueueBackgroundJob, constVars
<1>2. /\ pc \in [Threads -> Labels]
      /\ "render" \in Threads /\ "worker" \in Threads
      /\ \A u \in Threads : u = "render" \/ u = "worker"
      /\ {"test", "sleep", "poll"} \subseteq Labels
  BY TwoThreads DEF Labels, RenderLabels, WorkerLabels
<1>3. /\ pc' \in [Threads -> Labels]
      /\ pc'["render"] = "poll"
      /\ pc'["worker"] = (IF pc["worker"] = "sleep" THEN "test" ELSE pc["worker"])
  BY <1>1, <1>2, WokenFacts
<1>4. k \in Keys /\ k # None
  BY <1>1, RenderKey
<1>5. pipelines[k] = "none" /\ backend # "polled"
  BY <1>1 DEF RenderOwnsItsEntry, PolledHasNoThread
<1>6. /\ jobQueue \in Seq(Keys)
      /\ pipelines \in [Keys -> {"none", "empty", "notReady", "ready", "errored"}]
  BY DEF TypeOK
<1> HIDE DEF k
<1>7. /\ jobQueue' \in Seq(Keys)
      /\ DOMAIN jobQueue' = 1 .. (Len(jobQueue) + 1)
      /\ DOMAIN jobQueue = 1 .. Len(jobQueue) /\ Len(jobQueue) \in Nat
      /\ \A i \in DOMAIN jobQueue : jobQueue'[i] = jobQueue[i]
      /\ jobQueue'[Len(jobQueue) + 1] = k
  BY <1>1, <1>4, <1>6
<1>a. TypeOK'
  <2>1. pipelines' \in [Keys -> {"none", "empty", "notReady", "ready", "errored"}]
    BY <1>1, <1>4, <1>6
  <2>2. pc'.render \in RenderLabels /\ pc'.worker \in WorkerLabels
    BY <1>3 DEF TypeOK, RenderLabels, WorkerLabels
  <2>3. /\ key.render = None <=> pc'.render \in {"idle", "notify", "join", "gone"}
        /\ key.worker = None <=> pc'.worker \notin Compiling
    BY <1>1, <1>3 DEF TypeOK, Compiling
  <2> QED BY <1>1, <1>3, <1>7, <2>1, <2>2, <2>3 DEF TypeOK, Labels
<1>b. RenderOwnsItsEntry'
  BY <1>3 DEF RenderOwnsItsEntry, Compiling
<1>c. PolledHasNoThread'
  BY <1>1, <1>3, <1>5 DEF PolledHasNoThread
<1>d. EachJobInOnePlace'
  <2>1. k \notin Queued \cup Completed \cup ({key.worker} \ {None})
    BY <1>5 DEF EachJobInOnePlace
  <2>2. Queued' = Queued \cup {k}
    <3>1. \A i \in DOMAIN jobQueue' : jobQueue'[i] \in Queued \cup {k}
      <4> TAKE i \in DOMAIN jobQueue'
      <4>1. i \in DOMAIN jobQueue \/ i = Len(jobQueue) + 1
        BY <1>7
      <4> QED BY <1>7, <4>1 DEF Queued
    <3>2. /\ DOMAIN jobQueue \subseteq DOMAIN jobQueue'
          /\ Len(jobQueue) + 1 \in DOMAIN jobQueue'
      BY <1>7
    <3> QED BY <1>7, <3>1, <3>2 DEF Queued
  <2>3. {q \in Keys : pipelines'[q] = "empty"}
            = {q \in Keys : pipelines[q] = "empty"} \cup {k}
    BY <1>1, <1>4, <1>6
  <2>4. ASSUME NEW i \in DOMAIN jobQueue', NEW j \in DOMAIN jobQueue',
               jobQueue'[i] = jobQueue'[j]
        PROVE  i = j
    <3>1. /\ i \in DOMAIN jobQueue \/ i = Len(jobQueue) + 1
          /\ j \in DOMAIN jobQueue \/ j = Len(jobQueue) + 1
      BY <1>7
    <3>2. \A q \in DOMAIN jobQueue : jobQueue[q] # k
      BY <2>1 DEF Queued
    <3> QED BY <1>7, <2>4, <3>1, <3>2 DEF EachJobInOnePlace
  <2>5. Completed' = Completed /\ key' = key
    BY <1>1 DEF Completed
  <2>6. /\ Queued' \cup Completed' \cup ({key'.worker} \ {None})
               = {q \in Keys : pipelines'[q] = "empty"}
        /\ Queued' \cap Completed' = {}
        /\ key'.worker \notin Queued' \cup Completed'
    <3>1. key.worker # k
      BY <1>4, <2>1
    <3> QED BY <2>1, <2>2, <2>3, <2>5, <3>1 DEF EachJobInOnePlace
  <2> QED BY <1>1, <2>4, <2>6 DEF EachJobInOnePlace
<1>e. ShaderBuiltOnce'
  <2>1. \A t \in Threads :
            /\ pc'[t] = "build" <=> pc[t] = "build"
            /\ pc[t] = "build" => key'[t] = key[t]
            /\ pc'[t] = "link" => pc[t] = "link" /\ key'[t] = key[t]
    BY <1>1, <1>2, <1>3
  <2> QED BY <1>1, <2>1, ShadersStay
<1> QED BY <1>a, <1>b, <1>c, <1>d, <1>e

LEMMA PopCompletedJobStep ==
    ASSUME IInv, PopCompletedJob
    PROVE  IInv'
<1> USE DEF IInv
<1> DEFINE n == Len(completedJobs)
           job == completedJobs[n]
<1>1. /\ pc.render = "poll"
      /\ completedJobs # <<>>
      /\ completedJobs' = SubSeq(completedJobs, 1, n - 1)
      /\ pipelines' = [pipelines EXCEPT ![job.key] = job.program]
      /\ UNCHANGED <<mode, backend, key, asked, answer, jobQueue, isDone, shaders,
                     linked>>
  BY DEF PopCompletedJob, constVars
<1>2. PICK l \in {"check", "poll"} : pc' = [pc EXCEPT !["render"] = l]
  BY DEF PopCompletedJob, Goto
<1>3. /\ pc \in [Threads -> Labels]
      /\ "render" \in Threads /\ "worker" \in Threads
      /\ \A u \in Threads : u = "render" \/ u = "worker"
      /\ l \in Labels /\ l \in RenderLabels
  BY <1>2, TwoThreads DEF Labels, RenderLabels
<1>4. /\ pc' \in [Threads -> Labels]
      /\ pc'["render"] = l
      /\ pc'["worker"] = pc["worker"]
  BY <1>2, <1>3, GotoFacts
<1>5. /\ completedJobs \in Seq([key : Keys, program : Outcomes])
      /\ pipelines \in [Keys -> {"none", "empty", "notReady", "ready", "errored"}]
  BY DEF TypeOK
<1>6. /\ n \in Nat /\ n > 0 /\ DOMAIN completedJobs = 1 .. n
      /\ job \in [key : Keys, program : Outcomes]
  <2>1. /\ Len(completedJobs) \in Nat
        /\ DOMAIN completedJobs = 1 .. Len(completedJobs)
        /\ \A i \in 1 .. Len(completedJobs) :
               completedJobs[i] \in [key : Keys, program : Outcomes]
    BY <1>5, LenProperties, ElementOfSeq
  <2>2. Len(completedJobs) # 0
    BY <1>1, <1>5, EmptySeq
  <2>3. n \in 1 .. Len(completedJobs)
    BY <2>1, <2>2
  <2> QED BY <2>1, <2>2, <2>3
<1>7. /\ job.key \in Keys /\ job.program \in Outcomes
      /\ n - 1 \in Nat /\ n \in DOMAIN completedJobs
  BY <1>6
<1>8. /\ completedJobs' \in Seq([key : Keys, program : Outcomes])
      /\ DOMAIN completedJobs' = 1 .. (n - 1)
      /\ \A i \in 1 .. (n - 1) : completedJobs'[i] = completedJobs[i]
  <2>1. \A i \in 1 .. (n - 1) : completedJobs[i] \in [key : Keys, program : Outcomes]
    <3> TAKE i \in 1 .. (n - 1)
    <3>1. i \in 1 .. Len(completedJobs)
      BY <1>6, <1>7
    <3> QED BY <1>5, <3>1, ElementOfSeq
  <2>2. /\ SubSeq(completedJobs, 1, n - 1) \in Seq([key : Keys, program : Outcomes])
        /\ Len(SubSeq(completedJobs, 1, n - 1)) =
               IF 1 <= n - 1 THEN n - 1 - 1 + 1 ELSE 0
        /\ \A i \in 1 .. n - 1 - 1 + 1 :
               SubSeq(completedJobs, 1, n - 1)[i] = completedJobs[1 + i - 1]
    BY <1>6, <2>1, SubSeqProperties
  <2>3. Len(SubSeq(completedJobs, 1, n - 1)) = n - 1
    <3> HIDE DEF n
    <3>1. (IF 1 <= n - 1 THEN n - 1 - 1 + 1 ELSE 0) = n - 1
      BY <1>7
    <3> QED BY <2>2, <3>1
  <2>4. \A i \in 1 .. (n - 1) : i \in 1 .. n - 1 - 1 + 1 /\ 1 + i - 1 = i
    BY <1>7
  <2> HIDE DEF n
  <2> QED BY <1>1, <2>2, <2>3, <2>4
<1> HIDE DEF n, job
<1>a. TypeOK'
  <2>1. pipelines' \in [Keys -> {"none", "empty", "notReady", "ready", "errored"}]
    BY <1>1, <1>5, <1>7 DEF Outcomes
  <2>2. key.render = None <=> pc'.render \in {"idle", "notify", "join", "gone"}
    BY <1>1, <1>4 DEF TypeOK
  <2> QED BY <1>1, <1>3, <1>4, <1>8, <2>1, <2>2 DEF TypeOK, Labels
<1>b. RenderOwnsItsEntry'
  BY <1>4 DEF RenderOwnsItsEntry, Compiling
<1>c. PolledHasNoThread'
  BY <1>1, <1>4 DEF PolledHasNoThread
<1>d. EachJobInOnePlace'
  <2>1. \A i \in 1 .. (n - 1) :
            i \in DOMAIN completedJobs /\ completedJobs[i].key # job.key
    <3> TAKE i \in 1 .. (n - 1)
    <3>1. i \in DOMAIN completedJobs /\ i # n
      BY <1>6, <1>7
    <3> QED BY <1>7, <3>1 DEF EachJobInOnePlace, job
  <2>2. Completed' = Completed \ {job.key}
    <3>1. \A i \in DOMAIN completedJobs : i = n \/ i \in 1 .. (n - 1)
      BY <1>6
    <3>2. ASSUME NEW q \in Completed' PROVE q \in Completed \ {job.key}
      BY <1>8, <2>1 DEF Completed
    <3>3. ASSUME NEW q \in Completed, q # job.key PROVE q \in Completed'
      <4>1. PICK i \in DOMAIN completedJobs : completedJobs[i].key = q
        BY DEF Completed
      <4>2. i \in 1 .. (n - 1)
        BY <3>1, <3>3, <4>1 DEF job
      <4> QED BY <1>8, <4>1, <4>2 DEF Completed
    <3> QED BY <3>2, <3>3
  <2>3. job.key \in Completed
    BY <1>7 DEF Completed, job
  <2>4. {q \in Keys : pipelines'[q] = "empty"}
            = {q \in Keys : pipelines[q] = "empty"} \ {job.key}
    BY <1>1, <1>5, <1>7 DEF Outcomes
  <2>5. Queued' = Queued /\ key' = key
    BY <1>1 DEF Queued
  <2>6. /\ Queued' \cup Completed' \cup ({key'.worker} \ {None})
               = {q \in Keys : pipelines'[q] = "empty"}
        /\ Queued' \cap Completed' = {}
        /\ key'.worker \notin Queued' \cup Completed'
    BY <2>2, <2>3, <2>4, <2>5 DEF EachJobInOnePlace
  <2>7. \A i, j \in DOMAIN completedJobs' :
            completedJobs'[i].key = completedJobs'[j].key => i = j
    BY <1>8, <2>1 DEF EachJobInOnePlace
  <2> QED BY <1>1, <2>6, <2>7 DEF EachJobInOnePlace
<1>e. ShaderBuiltOnce'
  <2>1. \A t \in Threads :
            /\ pc'[t] = "build" <=> pc[t] = "build"
            /\ pc[t] = "build" => key'[t] = key[t]
            /\ pc'[t] = "link" => pc[t] = "link" /\ key'[t] = key[t]
    BY <1>1, <1>2, <1>3, <1>4
  <2> QED BY <1>1, <2>1, ShadersStay
<1> QED BY <1>a, <1>b, <1>c, <1>d, <1>e

LEMMA TakeJobStep ==
    ASSUME IInv,
           pc.worker = "test", jobQueue # <<>>,
           key' = [key EXCEPT !["worker"] = Head(jobQueue)],
           jobQueue' = Tail(jobQueue),
           pc' = [pc EXCEPT !["worker"] = "shader"],
           UNCHANGED <<mode, backend, asked, answer, pipelines, completedJobs,
                       isDone, shaders, linked>>
    PROVE  IInv'
<1> USE DEF IInv
<1>1. /\ pc \in [Threads -> Labels]
      /\ key \in [Threads -> Keys \cup {None}]
      /\ "render" \in Threads /\ "worker" \in Threads
      /\ \A u \in Threads : u = "render" \/ u = "worker"
      /\ "shader" \in Labels /\ "shader" \in WorkerLabels \cap Compiling
  BY TwoThreads DEF Labels, WorkerLabels, Compiling
<1>2. /\ pc' \in [Threads -> Labels]
      /\ pc'["worker"] = "shader"
      /\ pc'["render"] = pc["render"]
  BY <1>1, GotoFacts
<1>3. jobQueue \in Seq(Keys)
  BY DEF TypeOK
<1>4. /\ Head(jobQueue) = jobQueue[1] /\ jobQueue[1] \in Keys
      /\ jobQueue' \in Seq(Keys)
      /\ Len(jobQueue) \in Nat \ {0}
      /\ DOMAIN jobQueue = 1 .. Len(jobQueue)
      /\ DOMAIN jobQueue' = 1 .. (Len(jobQueue) - 1)
      /\ \A i \in 1 .. (Len(jobQueue) - 1) : jobQueue'[i] = jobQueue[i + 1]
  <2>1. /\ Head(jobQueue) \in Keys /\ Head(jobQueue) = jobQueue[1]
        /\ Tail(jobQueue) \in Seq(Keys)
        /\ Len(Tail(jobQueue)) = Len(jobQueue) - 1
        /\ \A i \in 1 .. Len(Tail(jobQueue)) : Tail(jobQueue)[i] = jobQueue[i + 1]
    BY <1>3, HeadTailProperties
  <2>2. /\ Len(jobQueue) \in Nat \ {0}
        /\ DOMAIN jobQueue = 1 .. Len(jobQueue)
        /\ DOMAIN Tail(jobQueue) = 1 .. Len(Tail(jobQueue))
    BY <1>3, <2>1, LenProperties, EmptySeq
  <2> QED BY <2>1, <2>2
<1> DEFINE k == jobQueue[1]
<1>5. /\ key' \in [Threads -> Keys \cup {None}]
      /\ key'["worker"] = k /\ key'["render"] = key["render"]
      /\ k \in Keys /\ k # None
  BY <1>1, <1>4, AsyncPipelinesAssumption
<1>6. key.worker = None
  BY DEF TypeOK, Compiling
<1> HIDE DEF k
<1>a. TypeOK'
  <2>1. key'.worker = None <=> pc'.worker \notin Compiling
    BY <1>1, <1>2, <1>5
  <2>2. key'.render = None <=> pc'.render \in {"idle", "notify", "join", "gone"}
    BY <1>2, <1>5 DEF TypeOK
  <2> QED BY <1>1, <1>2, <1>4, <1>5, <2>1, <2>2 DEF TypeOK, Labels
<1>b. RenderOwnsItsEntry'
  BY <1>2, <1>5 DEF RenderOwnsItsEntry
<1>c. PolledHasNoThread'
  BY <1>2 DEF PolledHasNoThread
<1>d. EachJobInOnePlace'
  <2>1. \A i \in 1 .. (Len(jobQueue) - 1) :
            i + 1 \in DOMAIN jobQueue /\ jobQueue'[i] = jobQueue[i + 1]
                /\ jobQueue[i + 1] # k
    <3> TAKE i \in 1 .. (Len(jobQueue) - 1)
    <3>1. i + 1 \in DOMAIN jobQueue /\ 1 \in DOMAIN jobQueue /\ i + 1 # 1
      BY <1>4
    <3> QED BY <1>4, <3>1 DEF EachJobInOnePlace, k
  <2>2. Queued' = Queued \ {k}
    <3>1. ASSUME NEW q \in Queued' PROVE q \in Queued \ {k}
      BY <1>4, <2>1 DEF Queued
    <3>2. ASSUME NEW q \in Queued, q # k PROVE q \in Queued'
      <4>1. PICK i \in DOMAIN jobQueue : jobQueue[i] = q
        BY DEF Queued
      <4>2. i # 1
        BY <3>2, <4>1 DEF k
      <4>3. i - 1 \in 1 .. (Len(jobQueue) - 1) /\ (i - 1) + 1 = i
        BY <1>4, <4>2
      <4>4. jobQueue'[i - 1] = q
        BY <1>4, <4>1, <4>3
      <4> QED BY <1>4, <4>3, <4>4 DEF Queued
    <3> QED BY <3>1, <3>2
  <2>3. k \in Queued
    BY <1>4 DEF Queued, k
  <2>4. Completed' = Completed
    BY DEF Completed
  <2>5. /\ Queued' \cup Completed' \cup ({key'.worker} \ {None})
               = {q \in Keys : pipelines'[q] = "empty"}
        /\ Queued' \cap Completed' = {}
        /\ key'.worker \notin Queued' \cup Completed'
    BY <1>5, <1>6, <2>2, <2>3, <2>4 DEF EachJobInOnePlace
  <2>6. \A i, j \in DOMAIN jobQueue' : jobQueue'[i] = jobQueue'[j] => i = j
    <3> TAKE i, j \in DOMAIN jobQueue'
    <3>1. /\ i \in 1 .. (Len(jobQueue) - 1) /\ j \in 1 .. (Len(jobQueue) - 1)
      BY <1>4
    <3>2. jobQueue'[i] = jobQueue'[j] => i + 1 = j + 1
      BY <2>1, <3>1 DEF EachJobInOnePlace
    <3> QED BY <1>4, <3>1, <3>2
  <2> QED BY <2>5, <2>6 DEF EachJobInOnePlace
<1>e. ShaderBuiltOnce'
  <2>1. \A t \in Threads :
            /\ pc'[t] = "build" <=> pc[t] = "build"
            /\ pc[t] = "build" => key'[t] = key[t]
            /\ pc'[t] = "link" => pc[t] = "link" /\ key'[t] = key[t]
    BY <1>1, <1>2, <1>5
  <2> QED BY <2>1, ShadersStay
<1> QED BY <1>a, <1>b, <1>c, <1>d, <1>e

LEMMA TestQueueStep ==
    ASSUME IInv, TestQueue
    PROVE  IInv'
<1>1. /\ pc.worker = "test"
      /\ UNCHANGED <<mode, backend, asked, answer, pipelines, completedJobs,
                     isDone, shaders, linked>>
  BY DEF TestQueue, constVars
<1>2. /\ pc \in [Threads -> Labels]
      /\ "render" \in Threads /\ "worker" \in Threads
      /\ \A u \in Threads : u = "render" \/ u = "worker"
      /\ {"sleep", "ended"} \subseteq Labels
  BY TwoThreads DEF IInv, Labels, WorkerLabels
<1>3. ASSUME NEW l \in {"sleep", "ended"}, pc' = [pc EXCEPT !["worker"] = l],
             UNCHANGED <<key, jobQueue>>
      PROVE  IInv'
  <2>1. /\ pc' \in [Threads -> Labels]
        /\ pc'["worker"] = l
        /\ \A u \in Threads : u # "worker" => pc'[u] = pc[u]
    BY <1>2, <1>3, GotoFacts
  <2>2. backend # "polled"
    BY <1>1 DEF IInv, PolledHasNoThread
  <2> QED BY <1>1, <1>2, <1>3, <2>1, <2>2, OnlyLabels
<1>4. \/ pc' = [pc EXCEPT !["worker"] = "ended"] /\ UNCHANGED <<key, jobQueue>>
      \/ pc' = [pc EXCEPT !["worker"] = "sleep"] /\ UNCHANGED <<key, jobQueue>>
      \/ /\ jobQueue # <<>>
         /\ key' = [key EXCEPT !["worker"] = Head(jobQueue)]
         /\ jobQueue' = Tail(jobQueue)
         /\ pc' = [pc EXCEPT !["worker"] = "shader"]
  BY DEF TestQueue, Goto
<1> QED BY <1>1, <1>3, <1>4, TakeJobStep

LEMMA LinkOnWorkerStep ==
    ASSUME IInv, LinkOnWorker
    PROVE  IInv'
<1> USE DEF IInv
<1> DEFINE k == key.worker
<1>1. /\ pc.worker = "link"
      /\ key' = [key EXCEPT !["worker"] = None]
      /\ pc' = [pc EXCEPT !["worker"] = "test"]
      /\ UNCHANGED <<mode, backend, asked, answer, pipelines, jobQueue, isDone,
                     shaders, linked>>
  BY DEF LinkOnWorker, Goto, constVars
<1>2. PICK outcome \in Outcomes :
          completedJobs' =
              Append(completedJobs, [key |-> k, program |-> outcome])
  BY DEF LinkOnWorker
<1>3. /\ pc \in [Threads -> Labels]
      /\ key \in [Threads -> Keys \cup {None}]
      /\ "render" \in Threads /\ "worker" \in Threads
      /\ \A u \in Threads : u = "render" \/ u = "worker"
      /\ "test" \in Labels /\ "test" \in WorkerLabels \ Compiling
  BY TwoThreads DEF Labels, WorkerLabels, Compiling
<1>4. /\ pc' \in [Threads -> Labels]
      /\ pc'["worker"] = "test"
      /\ pc'["render"] = pc["render"]
  BY <1>1, <1>3, GotoFacts
<1>5. /\ key' \in [Threads -> Keys \cup {None}]
      /\ key'["worker"] = None /\ key'["render"] = key["render"]
  BY <1>1, <1>3
<1>6. k \in Keys /\ k # None
  <2>1. k # None
    BY <1>1 DEF TypeOK, Compiling
  <2> QED BY <1>3, <2>1
<1> DEFINE job == [key |-> k, program |-> outcome]
<1>7. /\ job \in [key : Keys, program : Outcomes] /\ job.key = k
      /\ completedJobs' = Append(completedJobs, job)
      /\ completedJobs \in Seq([key : Keys, program : Outcomes])
  BY <1>2, <1>6 DEF TypeOK
<1> HIDE DEF k, job
<1>8. /\ completedJobs' \in Seq([key : Keys, program : Outcomes])
      /\ Len(completedJobs) \in Nat
      /\ DOMAIN completedJobs = 1 .. Len(completedJobs)
      /\ DOMAIN completedJobs' = 1 .. (Len(completedJobs) + 1)
      /\ \A i \in 1 .. Len(completedJobs) : completedJobs'[i] = completedJobs[i]
      /\ completedJobs'[Len(completedJobs) + 1] = job
  BY <1>7, AppendProperties, LenProperties
<1>a. TypeOK'
  <2>1. key'.worker = None <=> pc'.worker \notin Compiling
    BY <1>3, <1>4, <1>5
  <2>2. key'.render = None <=> pc'.render \in {"idle", "notify", "join", "gone"}
    BY <1>4, <1>5 DEF TypeOK
  <2> QED BY <1>1, <1>3, <1>4, <1>5, <1>8, <2>1, <2>2 DEF TypeOK, Labels
<1>b. RenderOwnsItsEntry'
  BY <1>1, <1>4, <1>5 DEF RenderOwnsItsEntry
<1>c. PolledHasNoThread'
  BY <1>1, <1>4 DEF PolledHasNoThread
<1>d. EachJobInOnePlace'
  <2>1. k \notin Queued \cup Completed
    BY DEF EachJobInOnePlace, k
  <2>2. Completed' = Completed \cup {k}
    <3>1. \A i \in DOMAIN completedJobs' :
              i \in DOMAIN completedJobs \/ i = Len(completedJobs) + 1
      BY <1>8
    <3>2. /\ DOMAIN completedJobs \subseteq DOMAIN completedJobs'
          /\ Len(completedJobs) + 1 \in DOMAIN completedJobs'
      BY <1>8
    <3>3. ASSUME NEW q \in Completed' PROVE q \in Completed \cup {k}
      <4>1. PICK i \in DOMAIN completedJobs' : completedJobs'[i].key = q
        BY DEF Completed
      <4> QED BY <1>7, <1>8, <3>1, <4>1 DEF Completed
    <3>4. ASSUME NEW q \in Completed PROVE q \in Completed'
      <4>1. PICK i \in DOMAIN completedJobs : completedJobs[i].key = q
        BY DEF Completed
      <4> QED BY <1>8, <3>2, <4>1 DEF Completed
    <3>5. k \in Completed'
      BY <1>7, <1>8, <3>2 DEF Completed
    <3> QED BY <3>3, <3>4, <3>5
  <2>3. Queued' = Queued
    BY <1>1 DEF Queued
  <2>4. /\ Queued' \cup Completed' \cup ({key'.worker} \ {None})
               = {q \in Keys : pipelines'[q] = "empty"}
        /\ Queued' \cap Completed' = {}
        /\ key'.worker \notin Queued' \cup Completed'
    <3>1. /\ Queued \cup Completed \cup {k} = {q \in Keys : pipelines[q] = "empty"}
          /\ Queued \cap Completed = {}
      BY <1>6 DEF EachJobInOnePlace, k
    <3>2. None \notin Keys
      BY AsyncPipelinesAssumption
    <3> QED BY <1>1, <1>5, <2>1, <2>2, <2>3, <3>1, <3>2
  <2>5. ASSUME NEW i \in DOMAIN completedJobs', NEW j \in DOMAIN completedJobs',
               completedJobs'[i].key = completedJobs'[j].key
        PROVE  i = j
    <3>1. /\ i \in DOMAIN completedJobs \/ i = Len(completedJobs) + 1
          /\ j \in DOMAIN completedJobs \/ j = Len(completedJobs) + 1
      BY <1>8
    <3>2. \A q \in DOMAIN completedJobs : completedJobs[q].key # k
      BY <2>1 DEF Completed
    <3> QED BY <1>7, <1>8, <2>5, <3>1, <3>2 DEF EachJobInOnePlace
  <2> QED BY <1>1, <2>4, <2>5 DEF EachJobInOnePlace
<1>e. ShaderBuiltOnce'
  <2>1. \A t \in Threads :
            /\ pc'[t] = "build" <=> pc[t] = "build"
            /\ pc[t] = "build" => key'[t] = key[t]
            /\ pc'[t] = "link" => pc[t] = "link" /\ key'[t] = key[t]
    BY <1>1, <1>3, <1>4, <1>5
  <2> QED BY <1>1, <2>1, ShadersStay
<1> QED BY <1>a, <1>b, <1>c, <1>d, <1>e

(***************************************************************************)
(* The driver and the cache                                                *)
(***************************************************************************)

LEMMA ProgramLinkedStep ==
    ASSUME IInv, NEW k \in Keys, ProgramLinked(k)
    PROVE  IInv'
<1> USE DEF IInv
<1>1. /\ linked' = linked \cup {k}
      /\ UNCHANGED <<mode, backend, pc, key, asked, answer, pipelines, jobQueue,
                     completedJobs, isDone, shaders>>
  BY DEF ProgramLinked, constVars, threadVars, jobVars
<1>2. TypeOK' /\ RenderOwnsItsEntry' /\ PolledHasNoThread'
  BY <1>1 DEF TypeOK, RenderOwnsItsEntry, PolledHasNoThread
<1>3. EachJobInOnePlace'
  BY <1>1, JobsStay
<1>4. ShaderBuiltOnce'
  BY <1>1, ShadersStay
<1> QED BY <1>2, <1>3, <1>4

LEMMA ClearCacheStep ==
    ASSUME IInv, ClearCache
    PROVE  IInv'
<1> USE DEF IInv
<1>1. /\ backend = "polled" /\ pc.render = "idle"
      /\ pipelines' = [k \in Keys |-> "none"]
      /\ linked' = {}
      /\ shaders' \in {shaders, [v \in Vertices |-> "none"]}
      /\ UNCHANGED <<mode, backend, pc, key, asked, answer, jobQueue,
                     completedJobs, isDone>>
  BY DEF ClearCache, constVars, threadVars, jobVars
<1>2. jobQueue = <<>> /\ completedJobs = <<>> /\ pc.worker = "none"
  BY <1>1 DEF PolledHasNoThread
<1>3. /\ "render" \in Threads /\ "worker" \in Threads
      /\ \A u \in Threads : u = "render" \/ u = "worker"
  BY TwoThreads
<1>4. key.worker = None
  BY <1>2 DEF TypeOK, Compiling
<1>a. TypeOK'
  BY <1>1 DEF TypeOK
<1>b. RenderOwnsItsEntry'
  BY <1>1 DEF RenderOwnsItsEntry, Compiling
<1>c. PolledHasNoThread'
  BY <1>1 DEF PolledHasNoThread
<1>d. EachJobInOnePlace'
  <2>1. DOMAIN jobQueue = {} /\ DOMAIN completedJobs = {}
    BY <1>2
  <2>2. Queued' = {} /\ Completed' = {}
    BY <1>1, <2>1 DEF Queued, Completed
  <2>3. {k \in Keys : pipelines'[k] = "empty"} = {}
    BY <1>1
  <2> QED BY <1>1, <1>4, <2>1, <2>2, <2>3 DEF EachJobInOnePlace
<1>e. ShaderBuiltOnce'
  <2>1. \A t \in Threads : pc'[t] \notin {"build", "link"}
    BY <1>1, <1>2, <1>3
  <2>2. ASSUME NEW v \in Vertices PROVE shaders'[v] # "building"
    <3>1. {t \in Threads : pc[t] = "build" /\ Vertex[key[t]] = v} = {}
      BY <1>1, <2>1
    <3>2. shaders[v] # "building"
      BY <3>1 DEF ShaderBuiltOnce
    <3> QED BY <1>1, <3>2
  <2>3. ASSUME NEW v \in Vertices
        PROVE  {t \in Threads : pc'[t] = "build" /\ Vertex[key'[t]] = v} = {}
    BY <2>1
  <2> QED BY <1>3, <2>1, <2>2, <2>3 DEF ShaderBuiltOnce
<1> QED BY <1>a, <1>b, <1>c, <1>d, <1>e

(***************************************************************************)
(* The theorems                                                            *)
(***************************************************************************)

LEMMA InitIInv ==
    ASSUME Init
    PROVE  IInv
<1>1. /\ pc = [render |-> "idle", worker |-> "none"]
      /\ key = [t \in Threads |-> None]
      /\ jobQueue = <<>> /\ completedJobs = <<>>
      /\ pipelines = [k \in Keys |-> "none"]
      /\ shaders = [v \in Vertices |-> "none"]
  BY DEF Init
<1>2. /\ "render" \in Threads /\ "worker" \in Threads
      /\ \A u \in Threads : u = "render" \/ u = "worker"
  BY DEF Threads
<1>3. pc.render = "idle" /\ pc.worker = "none"
  BY <1>1
<1>4. pc \in [Threads -> Labels]
  <2>1. pc = [t \in {"render", "worker"} |-> pc[t]]
    BY <1>1
  <2>2. pc.render \in Labels /\ pc.worker \in Labels
    BY <1>3 DEF Labels, RenderLabels, WorkerLabels
  <2>3. \A t \in Threads : pc[t] \in Labels
    BY <1>2, <2>2
  <2> QED BY <2>1, <2>3 DEF Threads
<1>5. key.render = None /\ key.worker = None
  BY <1>1, <1>2
<1>6. DOMAIN jobQueue = {} /\ DOMAIN completedJobs = {}
  BY <1>1
<1>a. TypeOK
  <2>1. pc.render \in RenderLabels /\ pc.worker \in WorkerLabels \ Compiling
    BY <1>3 DEF RenderLabels, WorkerLabels, Compiling
  <2>2. jobQueue \in Seq(Keys) /\ completedJobs \in Seq([key : Keys, program : Outcomes])
    BY <1>1
  <2> QED BY <1>1, <1>3, <1>4, <1>5, <2>1, <2>2 DEF Init, TypeOK, Labels
<1>b. RenderOwnsItsEntry
  BY <1>3 DEF RenderOwnsItsEntry, Compiling
<1>c. PolledHasNoThread
  BY <1>1, <1>3 DEF PolledHasNoThread
<1>d. EachJobInOnePlace
  <2>1. {k \in Keys : pipelines[k] = "empty"} = {}
    BY <1>1
  <2>2. Queued = {} /\ Completed = {}
    BY <1>6 DEF Queued, Completed
  <2> QED BY <1>5, <1>6, <2>1, <2>2 DEF EachJobInOnePlace
<1>e. ShaderBuiltOnce
  <2>1. \A t \in Threads : pc[t] \notin {"build", "link"}
    BY <1>2, <1>3
  <2>2. \A v \in Vertices :
            {t \in Threads : pc[t] = "build" /\ Vertex[key[t]] = v} = {}
    BY <2>1
  <2> QED BY <1>1, <1>2, <2>1, <2>2 DEF ShaderBuiltOnce
<1> QED BY <1>a, <1>b, <1>c, <1>d, <1>e DEF IInv

LEMMA NextIInv ==
    ASSUME IInv, [Next]_vars
    PROVE  IInv'
<1>1. "render" \in Threads /\ "worker" \in Threads
  BY DEF Threads
<1>2. CASE RenderStep
  BY <1>1, <1>2, GetShaderStep, BuiltShaderStep, FindStep, LinkOnRenderThreadStep,
     ThreadSteps, QueueBackgroundJobStep, PopCompletedJobStep, CheckSteps,
     ReturnStep, AdvanceLinkedStep, ShutdownStep
  DEF RenderStep
<1>3. CASE WorkerStep
  BY <1>1, <1>3, GetShaderStep, BuiltShaderStep, TestQueueStep, LinkOnWorkerStep
  DEF WorkerStep
<1>4. ASSUME NEW k \in Keys, TryGetPipeline(k) \/ ProgramLinked(k)
      PROVE  IInv'
  BY <1>4, TryGetPipelineStep, ProgramLinkedStep
<1>5. CASE UNCHANGED vars
  <2>1. UNCHANGED <<mode, backend, pc, key, asked, answer, pipelines, jobQueue,
                    completedJobs, isDone, shaders, linked>>
    BY <1>5 DEF vars, threadVars, jobVars
  <2>2. pc \in [Threads -> Labels]
    BY TwoThreads DEF IInv
  <2>3. backend = "polled" => pc.worker = "none"
    BY DEF IInv, PolledHasNoThread
  <2> QED BY <2>1, <2>2, <2>3, OnlyLabels
<1> QED BY <1>2, <1>3, <1>4, <1>5, ClearCacheStep, ShutdownStep, ThreadSteps DEF Next

\* The invariant holds of both kinds of back end, whatever fails.
THEOREM Invariant == Spec => []IInv
<1>1. Init => IInv
  BY InitIInv
<1>2. IInv /\ [Next]_vars => IInv'
  BY NextIInv
<1> QED BY <1>1, <1>2, PTL DEF Spec

\* Every variable holds a value the code can store in it.
THEOREM TypeCorrectness == Spec => []TypeOK
<1>1. IInv => TypeOK
  BY DEF IInv
<1> QED BY <1>1, Invariant, PTL

\* Each pipeline that is waited for is in one place, once, and no other is in
\* any: none is lost or compiled twice.
THEOREM NoJobIsLost == Spec => []EachJobInOnePlace
<1>1. IInv => EachJobInOnePlace
  BY DEF IInv
<1> QED BY <1>1, Invariant, PTL

\* A vertex shader is built by one thread, and used when it has been built.
THEOREM ShadersAreSharedSafely == Spec => []ShaderBuiltOnce
<1>1. IInv => ShaderBuiltOnce
  BY DEF IInv
<1> QED BY <1>1, Invariant, PTL

(***************************************************************************)
(* What the fallback to the ubershader relies on                           *)
(***************************************************************************)

\* An ubershader is never built on the background thread, and while the render
\* thread tries the ubershader of a pipeline, that pipeline is not usable.
FallbackInv ==
    /\ \A k \in Keys : pipelines[k] = "empty" => k # Uber[k]
    /\ pc.render \in {"queue", "poll"} => key.render # Uber[key.render]
    /\ key.render # None =>
          /\ asked \in Keys
          /\ \/ key.render = asked
             \/ /\ key.render = Uber[asked]
                /\ pipelines[asked] \in {"empty", "notReady", "errored"}

\* What a draw sees of the entry e of a pipeline; building says that the render
\* thread is building it.
Seen(e, building) ==
    CASE e \in Outcomes -> e
      [] e \in {"empty", "notReady"} -> "begun"
      [] building -> "begun"
      [] OTHER -> "unknown"

Building(k) == key.render = k /\ pc.render \in Compiling

\* The status of a pipeline, before a step and after it.
LEMMA StatusSeen ==
    /\ \A k : Status(k) = Seen(pipelines[k], Building(k))
    /\ \A k : Status(k)' =
          Seen(pipelines'[k], key'.render = k /\ pc'.render \in Compiling)
<1> DEFINE Now == \A k : Status(k) = Seen(pipelines[k], Building(k))
<1>1. Now
  BY DEF Status, Seen, Building
<1>2. Now'
  BY <1>1, PTL
<1>3. QED
  BY <1>1, <1>2 DEF Building, Seen

StatusOf == [k \in Keys |-> Status(k)]

\* The cache's variables under the refinement mapping.
LEMMA CacheVars == Cache!cacheVars = <<StatusOf, answer>>
  BY DEF Cache!cacheVars, StatusOf

\* Nothing is asked for at first.
LEMMA InitFallback == Init => FallbackInv
  BY DEF Init, FallbackInv, Threads

\* What holds of the render thread in every state.
LEMMA AtHand ==
    ASSUME IInv, FallbackInv
    PROVE  /\ \A k \in Keys : Uber[k] \in Keys /\ Uber[Uber[k]] = Uber[k]
           /\ None \notin Keys /\ "render" \in Threads /\ "worker" \in Threads
           /\ pc \in [Threads -> Labels] /\ key \in [Threads -> Keys \cup {None}]
           /\ pipelines \in
                [Keys -> {"none", "empty", "notReady", "ready", "errored"}]
           /\ key.render = None <=> pc.render \in {"idle", "notify", "join", "gone"}
           /\ key.render # None =>
                 key.render \in Keys /\ asked \in Keys /\ Uber[asked] \in Keys
<1>1. TypeOK /\ pc \in [Threads -> Labels] /\ key \in [Threads -> Keys \cup {None}]
  BY TwoThreads DEF IInv
<1>2. QED
  BY <1>1, AsyncPipelinesAssumption DEF TypeOK, FallbackInv, Threads

\* The render thread goes on with the same pipeline, and no entry that it
\* depends on becomes usable.
LEMMA FallbackStays ==
    ASSUME IInv, FallbackInv, UNCHANGED asked, key'.render = key.render,
           pc'.render \in {"queue", "poll"} =>
               pc.render \in {"queue", "poll"} \/ key.render # Uber[key.render],
           \A k \in Keys : pipelines'[k] = "empty" =>
               pipelines[k] = "empty" \/ k # Uber[k],
           key.render # None /\ key.render # asked =>
               pipelines'[asked] = pipelines[asked]
    PROVE  FallbackInv'
  BY AtHand DEF FallbackInv

\* The job that popCompletedJob takes is one the cache waits for.
LEMMA LatestJob ==
    ASSUME IInv, completedJobs # <<>>
    PROVE  /\ completedJobs[Len(completedJobs)].key \in Keys
           /\ completedJobs[Len(completedJobs)].program \in Outcomes
           /\ pipelines[completedJobs[Len(completedJobs)].key] = "empty"
<1>1. completedJobs \in Seq([key : Keys, program : Outcomes])
  BY DEF IInv, TypeOK
<1>2. /\ Len(completedJobs) \in Nat
      /\ DOMAIN completedJobs = 1 .. Len(completedJobs)
      /\ \A i \in 1 .. Len(completedJobs) :
             completedJobs[i] \in [key : Keys, program : Outcomes]
  BY <1>1, LenProperties, ElementOfSeq
<1>3. Len(completedJobs) # 0
  BY <1>1, EmptySeq
<1>4. Len(completedJobs) \in DOMAIN completedJobs
  BY <1>2, <1>3
<1>5. completedJobs[Len(completedJobs)].key \in Completed
  BY <1>4 DEF Completed
<1>6. QED
  BY <1>2, <1>4, <1>5 DEF IInv, EachJobInOnePlace

\* Every step keeps what the fallback relies on.
LEMMA NextFallback == IInv /\ FallbackInv /\ [Next]_vars => FallbackInv'
<1> SUFFICES ASSUME IInv, FallbackInv, [Next]_vars PROVE FallbackInv'
  OBVIOUS
<1> USE AtHand
<1>h. /\ pc \in [Threads -> Labels] /\ key \in [Threads -> Keys \cup {None}]
      /\ "render" \in Threads /\ "worker" \in Threads /\ "render" # "worker"
  OBVIOUS
<1>u. CASE UNCHANGED vars
  BY <1>u, FallbackStays DEF vars, threadVars
<1>w. CASE WorkerStep
  <2>1. UNCHANGED <<asked, pipelines>>
    BY <1>w DEF WorkerStep, TestQueue, GetShader, BuiltShader, LinkOnWorker
  <2>2. key'.render = key.render
    BY <1>h, <1>w DEF WorkerStep, TestQueue, GetShader, BuiltShader, LinkOnWorker
  <2>3. pc'.render \in {"queue", "poll"} => pc.render \in {"queue", "poll"}
    BY <1>h, <1>w DEF WorkerStep, TestQueue, GetShader, BuiltShader, LinkOnWorker,
       Goto, Woken
  <2>4. QED
    BY <2>1, <2>2, <2>3, FallbackStays
<1>1. CASE \/ GetShader("render") \/ BuiltShader("render") \/ StartThread
           \/ NotifyAll \/ Join \/ SpuriousWakeup \/ NoneCompleted \/ StillLinking
  <2>1. UNCHANGED <<asked, key, pipelines>>
    BY <1>1 DEF GetShader, BuiltShader, StartThread, NotifyAll, Join, SpuriousWakeup,
       NoneCompleted, StillLinking
  <2>2. pc'.render \in {"queue", "poll"} => pc.render \in {"queue", "poll"}
    BY <1>h, <1>1 DEF GetShader, BuiltShader, StartThread, NotifyAll, Join,
       SpuriousWakeup, NoneCompleted, StillLinking, Goto, Woken
  <2>3. QED
    BY <2>1, <2>2, FallbackStays
<1>2. CASE Find
  <2>1. UNCHANGED <<asked, key, pipelines>>
    BY <1>2 DEF Find
  <2>2. key.render \in Keys
    BY <1>2 DEF Find
  <2>3. pc'.render = CASE pipelines[key.render] = "empty" -> "poll"
              [] pipelines[key.render] \in {"notReady", "ready", "errored"} -> "check"
              [] pipelines[key.render] = "none" /\ IsAsync(key.render) /\ backend = "threaded" -> "queue"
              [] OTHER -> "shader"
    BY <1>h, <1>2 DEF Find, Goto
  <2>4. pc'.render = "queue" => IsAsync(key.render)
    BY <2>3
  <2>5. pc'.render = "poll" => pipelines[key.render] = "empty"
    BY <2>3
  <2>6. pc'.render \in {"queue", "poll"} => key.render # Uber[key.render]
    BY <2>2, <2>4, <2>5 DEF FallbackInv, IsAsync
  <2>7. QED
    BY <2>1, <2>6, FallbackStays
<1>3. CASE LinkOnRenderThread \/ AdvanceLinked
  <2>1. /\ UNCHANGED <<asked, key>> /\ key.render \in Keys
        /\ pc'.render \notin {"queue", "poll"}
        /\ \E e \in {"notReady", "ready", "errored"} :
              pipelines' = [pipelines EXCEPT ![key.render] = e]
    BY <1>h, <1>3 DEF LinkOnRenderThread, AdvanceLinked, Goto, Outcomes
  <2>2. QED
    BY <2>1, FallbackStays
<1>4. CASE QueueBackgroundJob
  <2>1. /\ UNCHANGED <<asked, key>> /\ key.render \in Keys /\ pc.render = "queue"
        /\ pipelines' = [pipelines EXCEPT ![key.render] = "empty"]
    BY <1>4 DEF QueueBackgroundJob
  <2>2. key.render # Uber[key.render]
    BY <2>1 DEF FallbackInv
  <2>3. key.render = asked
    BY <2>1, <2>2 DEF FallbackInv
  <2>4. QED
    BY <2>1, <2>2, <2>3, FallbackStays
<1>5. CASE PopCompletedJob
  <2> DEFINE job == completedJobs[Len(completedJobs)]
  <2>1. /\ UNCHANGED <<asked, key>> /\ key.render \in Keys /\ pc.render = "poll"
        /\ pipelines' = [pipelines EXCEPT ![job.key] = job.program]
    BY <1>5 DEF PopCompletedJob
  <2>2. key.render # Uber[key.render]
    BY <2>1 DEF FallbackInv
  <2>3. key.render = asked
    BY <2>1, <2>2 DEF FallbackInv
  <2>4. job.program # "empty"
    BY <1>5, LatestJob DEF PopCompletedJob, Outcomes
  <2> HIDE DEF job
  <2>5. \A k \in Keys : pipelines'[k] = "empty" => pipelines[k] = "empty"
    BY <2>1, <2>4
  <2>6. QED
    BY <2>1, <2>2, <2>3, <2>5, FallbackStays
<1>6. CASE ReturnReady \/ ReturnNull
  <2>1. UNCHANGED pipelines /\ key'.render = None /\ pc'.render = "idle"
    BY <1>h, <1>6 DEF ReturnReady, ReturnNull, Return, Goto
  <2>2. QED
    BY <2>1 DEF FallbackInv
<1>7. CASE Fallback \/ AdvanceUnlinked
  <2>1. /\ UNCHANGED <<asked, pipelines>> /\ key.render \in Keys
        /\ key'.render = Uber[key.render] /\ key.render # Uber[key.render]
        /\ pc'.render = "find"
        /\ pipelines[key.render] \in {"empty", "notReady", "errored"}
    BY <1>h, <1>7 DEF Fallback, AdvanceUnlinked, Goto, IsAsync, IInv,
       RenderOwnsItsEntry
  <2>2. key.render = asked
    BY <2>1 DEF FallbackInv
  <2>3. QED
    BY <2>1, <2>2 DEF FallbackInv
<1>8. ASSUME NEW k \in Keys, TryGetPipeline(k) PROVE FallbackInv'
  <2>1. /\ UNCHANGED pipelines /\ asked' \in Keys /\ key'.render = asked'
        /\ pc'.render = "find"
    BY <1>h, <1>8 DEF TryGetPipeline, Goto
  <2>2. QED
    BY <2>1 DEF FallbackInv
<1>9. ASSUME NEW k \in Keys, ProgramLinked(k) PROVE FallbackInv'
  BY <1>9, FallbackStays DEF ProgramLinked, threadVars
<1>10. CASE ClearCache
  <2>1. /\ UNCHANGED <<pc, key, asked>> /\ key.render = None
        /\ pipelines' = [k \in Keys |-> "none"]
    BY <1>10 DEF ClearCache, threadVars
  <2>2. QED
    BY <2>1 DEF FallbackInv
<1>11. CASE Shutdown
  <2>1. UNCHANGED <<key, asked, pipelines>> /\ pc'.render \notin {"queue", "poll"}
    BY <1>h, <1>11 DEF Shutdown, Goto
  <2>2. QED
    BY <2>1, FallbackStays
<1>12. QED
  BY <1>u, <1>w, <1>1, <1>2, <1>3, <1>4, <1>5, <1>6, <1>7, <1>8, <1>9, <1>10, <1>11
  DEF Next, RenderStep

(***************************************************************************)
(* The steps of the cache                                                  *)
(***************************************************************************)

\* What the steps of PipelineCache look like from here: a pipeline is begun ...
LEMMA CacheBegins ==
    ASSUME NEW k \in Keys, Status(k) = "unknown", Status(k)' = "begun",
           \A j \in Keys \ {k} : Status(j)' = Status(j), UNCHANGED answer
    PROVE  Cache!Next
<1>1. StatusOf' = [StatusOf EXCEPT ![k] = "begun"]
  BY DEF StatusOf
<1>2. QED
  BY <1>1 DEF StatusOf, Cache!Next, Cache!Begin

\* ... gets its outcome ...
LEMMA CacheFinishes ==
    ASSUME NEW k \in Keys, Status(k) = "begun", Status(k)' \in Outcomes,
           \A j \in Keys \ {k} : Status(j)' = Status(j), UNCHANGED answer
    PROVE  Cache!Next
<1>1. StatusOf' = [StatusOf EXCEPT ![k] = Status(k)']
  BY DEF StatusOf
<1>2. QED
  BY <1>1 DEF StatusOf, Cache!Next, Cache!Finish, Outcomes

\* ... nothing is seen ...
LEMMA CacheStutters ==
    ASSUME \A j \in Keys : Status(j)' = Status(j), UNCHANGED answer
    PROVE  UNCHANGED Cache!cacheVars
<1>1. StatusOf' = StatusOf
  BY DEF StatusOf
<1>2. QED
  BY <1>1 DEF StatusOf, Cache!cacheVars

\* ... a draw is answered ...
LEMMA CacheAnswers ==
    ASSUME NEW k \in Keys, Uber[k] \in Keys, \A j \in Keys : Status(j)' = Status(j),
           answer' = [asked |-> k,
                      given |-> IF Status(k) = "ready" THEN k
                                ELSE IF Status(Uber[k]) = "ready" THEN Uber[k]
                                ELSE None],
           Status(k) # "unknown",
           Status(k) # "ready" => Status(Uber[k]) \in {"ready", "errored"}
    PROVE  Cache!Next
<1>1. StatusOf' = StatusOf
  BY DEF StatusOf
<1>2. StatusOf[k] = Status(k) /\ StatusOf[Uber[k]] = Status(Uber[k])
  BY DEF StatusOf
<1>3. QED
  BY <1>1, <1>2 DEF StatusOf, Cache!Next, Cache!Answer

\* ... everything is forgotten.
LEMMA CacheClears ==
    ASSUME \A j \in Keys : Status(j)' = "unknown", UNCHANGED answer
    PROVE  Cache!Next
<1>1. StatusOf' = [j \in Keys |-> "unknown"]
  BY DEF StatusOf
<1>2. QED
  BY <1>1 DEF StatusOf, Cache!Next, Cache!Clear

\* At first no pipeline has been begun.
LEMMA CacheInit == Init => Cache!Init
<1> SUFFICES ASSUME Init PROVE Cache!Init
  OBVIOUS
<1>1. \A k \in Keys : Status(k) = "unknown"
  <2>1. /\ \A k \in Keys : pipelines[k] = "none"
        /\ key.render = None
    BY DEF Init, Threads
  <2>2. None \notin Keys
    BY AsyncPipelinesAssumption
  <2>3. QED
    BY <2>1, <2>2, StatusSeen DEF Seen, Building, Outcomes
<1>2. QED
  BY <1>1 DEF Init, Cache!Init

\* What a draw sees of an entry.
LEMMA SeenFacts ==
    \A e, b : /\ e \in Outcomes /\ ~ b => Seen(e, b) = e
              /\ e \in {"empty", "notReady"} => Seen(e, b) = "begun"
              /\ e = "none" /\ b => Seen(e, b) = "begun"
              /\ e = "none" /\ ~ b => Seen(e, b) = "unknown"
<1> SUFFICES ASSUME NEW e, NEW b
             PROVE  /\ e \in Outcomes /\ ~ b => Seen(e, b) = e
                    /\ e \in {"empty", "notReady"} => Seen(e, b) = "begun"
                    /\ e = "none" /\ b => Seen(e, b) = "begun"
                    /\ e = "none" /\ ~ b => Seen(e, b) = "unknown"
  OBVIOUS
<1>1. e \in Outcomes /\ ~ b => Seen(e, b) = e
  BY Zenon DEF Seen, Outcomes
<1>2. e \in {"empty", "notReady"} => Seen(e, b) = "begun"
  BY Zenon DEF Seen, Outcomes
<1>3. e = "none" /\ b => Seen(e, b) = "begun"
  BY Zenon DEF Seen, Outcomes
<1>4. e = "none" /\ ~ b => Seen(e, b) = "unknown"
  BY Zenon DEF Seen, Outcomes
<1>5. QED
  BY <1>1, <1>2, <1>3, <1>4

\* The render thread builds what it built before, nothing or the same pipeline.
LEMMA StatusStays ==
    ASSUME UNCHANGED pipelines,
           pc.render \in Compiling <=> pc'.render \in Compiling,
           pc.render \in Compiling => key'.render = key.render
    PROVE  \A j \in Keys : Status(j)' = Status(j)
  BY StatusSeen DEF Building

\* An entry is written that is not "none", and the render thread does not build
\* any other pipeline before or after.
LEMMA EntryWritten ==
    ASSUME IInv, FallbackInv, NEW k \in Keys,
           NEW e \in {"empty", "notReady", "ready", "errored"},
           pipelines' = [pipelines EXCEPT ![k] = e],
           pc.render \in Compiling => key.render = k,
           pc'.render \notin Compiling
    PROVE  /\ Status(k)' = IF e \in Outcomes THEN e ELSE "begun"
           /\ \A j \in Keys \ {k} : Status(j)' = Status(j)
<1>1. /\ \A j \in Keys : pipelines'[j] = IF j = k THEN e ELSE pipelines[j]
  BY AtHand
<1>2. \A j \in Keys \ {k} : ~ Building(j)
  BY DEF Building
<1>3. ASSUME NEW j \in Keys \ {k}
      PROVE  Status(j)' = Status(j)
  <2>1. pipelines'[j] = pipelines[j] /\ ~ Building(j)
    BY <1>1, <1>2
  <2>2. Status(j) = Seen(pipelines[j], FALSE)
    <3>1. Building(j) = FALSE
      BY <2>1 DEF Building
    <3>2. QED
      BY <3>1, StatusSeen, Zenon
  <2>3. Status(j)' = Seen(pipelines[j], FALSE)
    BY <2>1, StatusSeen, SeenFacts, AtHand DEF Outcomes
  <2>4. QED
    BY <2>2, <2>3
<1>4. Status(k)' = Seen(e, key'.render = k /\ pc'.render \in Compiling)
  BY <1>1, StatusSeen
<1>5. QED
  BY <1>3, <1>4, SeenFacts DEF Outcomes

\* Every step of both threads, of the driver and of the destructor is a step of
\* the cache or none.
LEMMA StepOfCache ==
    IInv /\ FallbackInv /\ [Next]_vars => [Cache!Next]_Cache!cacheVars
<1> SUFFICES ASSUME IInv, FallbackInv, [Next]_vars
             PROVE  Cache!Next \/ UNCHANGED Cache!cacheVars
  OBVIOUS
<1> USE AtHand
<1>h. /\ pc \in [Threads -> Labels] /\ key \in [Threads -> Keys \cup {None}]
      /\ "render" \in Threads /\ "worker" \in Threads /\ "render" # "worker"
  OBVIOUS
<1>u. CASE UNCHANGED vars
  BY <1>u, StatusStays, CacheStutters DEF vars, threadVars
<1>w. CASE WorkerStep
  <2>1. UNCHANGED <<answer, pipelines>>
    BY <1>w DEF WorkerStep, TestQueue, GetShader, BuiltShader, LinkOnWorker
  <2>2. key'.render = key.render
    BY <1>h, <1>w DEF WorkerStep, TestQueue, GetShader, BuiltShader, LinkOnWorker
  <2>3. pc.render \in Compiling <=> pc'.render \in Compiling
    BY <1>h, <1>w DEF WorkerStep, TestQueue, GetShader, BuiltShader, LinkOnWorker,
       Goto, Woken, Compiling
  <2>4. QED
    BY <2>1, <2>2, <2>3, StatusStays, CacheStutters
<1>1. CASE \/ GetShader("render") \/ BuiltShader("render") \/ StartThread
           \/ NotifyAll \/ Join \/ SpuriousWakeup \/ NoneCompleted \/ StillLinking
  <2>1. UNCHANGED <<answer, key, pipelines>>
    BY <1>1 DEF GetShader, BuiltShader, StartThread, NotifyAll, Join, SpuriousWakeup,
       NoneCompleted, StillLinking
  <2>2. pc.render \in Compiling <=> pc'.render \in Compiling
    BY <1>h, <1>1 DEF GetShader, BuiltShader, StartThread, NotifyAll, Join,
       SpuriousWakeup, NoneCompleted, StillLinking, Goto, Woken, Compiling
  <2>3. QED
    BY <2>1, <2>2, StatusStays, CacheStutters
<1>2. CASE Find
  <2>1. UNCHANGED <<answer, key, pipelines>>
    BY <1>2 DEF Find
  <2>2. key.render \in Keys /\ pc.render = "find"
    BY <1>2 DEF Find
  <2>3. \/ pc'.render \in {"poll", "check", "queue"}
        \/ pc'.render = "shader" /\ pipelines[key.render] = "none"
    BY <1>h, <1>2, <2>2 DEF Find, Goto
  <2>4. CASE pc'.render \in {"poll", "check", "queue"}
    BY <2>1, <2>2, <2>4, StatusStays, CacheStutters DEF Compiling
  <2>5. CASE pc'.render = "shader" /\ pipelines[key.render] = "none"
    <3>1. Status(key.render) = "unknown"
      BY <2>2, <2>5, StatusSeen, SeenFacts DEF Building, Compiling
    <3>2. \A j : Status(j)' = Seen(pipelines[j], key.render = j)
      BY <2>1, <2>5, StatusSeen DEF Compiling
    <3>3. \A j \in Keys \ {key.render} : Status(j)' = Status(j)
      <4>1. \A j \in Keys : Status(j) = Seen(pipelines[j], FALSE)
        BY <2>2, StatusSeen DEF Building, Compiling
      <4>2. QED
        BY <3>2, <4>1
    <3>4. QED
      BY <2>1, <2>2, <2>5, <3>1, <3>2, <3>3, SeenFacts, CacheBegins
  <2>6. QED
    BY <2>3, <2>4, <2>5
<1>3. CASE LinkOnRenderThread
  <2>1. /\ UNCHANGED <<answer, key>> /\ key.render \in Keys /\ pc.render = "link"
        /\ pc'.render \in {"check", "advance"}
    BY <1>h, <1>3 DEF LinkOnRenderThread, Goto
  <2>2. PICK e \in {"notReady", "ready", "errored"} :
           pipelines' = [pipelines EXCEPT ![key.render] = e]
    BY <1>3 DEF LinkOnRenderThread, Outcomes
  <2>3. /\ Status(key.render)' = IF e \in Outcomes THEN e ELSE "begun"
        /\ \A j \in Keys \ {key.render} : Status(j)' = Status(j)
    BY <2>1, <2>2, EntryWritten DEF Compiling
  <2>4. Status(key.render) = "begun"
    <3>1. pipelines[key.render] = "none" /\ Building(key.render)
      BY <2>1 DEF IInv, RenderOwnsItsEntry, Compiling, Building
    <3>2. QED
      BY <3>1, StatusSeen, SeenFacts
  <2>5. CASE e \in Outcomes
    BY <2>1, <2>3, <2>4, <2>5, CacheFinishes
  <2>6. CASE e \notin Outcomes
    BY <2>1, <2>3, <2>4, <2>6, CacheStutters
  <2>7. QED
    BY <2>5, <2>6
<1>4. CASE QueueBackgroundJob
  <2>1. /\ UNCHANGED <<answer, key>> /\ key.render \in Keys /\ pc.render = "queue"
        /\ pipelines' = [pipelines EXCEPT ![key.render] = "empty"]
        /\ pc'.render = "poll"
    BY <1>h, <1>4 DEF QueueBackgroundJob, Woken
  <2>2. /\ Status(key.render)' = "begun"
        /\ \A j \in Keys \ {key.render} : Status(j)' = Status(j)
    BY <2>1, EntryWritten DEF Compiling, Outcomes
  <2>3. pipelines[key.render] = "none" /\ ~ Building(key.render)
    BY <2>1 DEF IInv, RenderOwnsItsEntry, Compiling, Building
  <2>4. Status(key.render) = "unknown"
    BY <2>3, StatusSeen, SeenFacts
  <2>5. QED
    BY <2>1, <2>2, <2>4, CacheBegins
<1>5. CASE PopCompletedJob
  <2>1. /\ UNCHANGED <<answer, key>> /\ pc.render = "poll"
        /\ pc'.render \in {"check", "poll"}
    BY <1>h, <1>5 DEF PopCompletedJob, Goto
  <2>2. PICK k \in Keys, e \in Outcomes :
           /\ pipelines' = [pipelines EXCEPT ![k] = e]
           /\ pipelines[k] = "empty"
    BY <1>5, LatestJob DEF PopCompletedJob
  <2>3. /\ Status(k)' = e
        /\ \A j \in Keys \ {k} : Status(j)' = Status(j)
    BY <2>1, <2>2, EntryWritten DEF Compiling, Outcomes
  <2>4. Status(k) = "begun"
    BY <2>2, StatusSeen, SeenFacts
  <2>5. QED
    BY <2>1, <2>2, <2>3, <2>4, CacheFinishes
<1>6. CASE AdvanceLinked
  <2>1. /\ UNCHANGED <<answer, key>> /\ key.render \in Keys /\ pc.render = "advance"
        /\ pc'.render = "check"
    BY <1>h, <1>6 DEF AdvanceLinked, Goto
  <2>2. PICK e \in Outcomes : pipelines' = [pipelines EXCEPT ![key.render] = e]
    BY <1>6 DEF AdvanceLinked
  <2>3. /\ Status(key.render)' = e
        /\ \A j \in Keys \ {key.render} : Status(j)' = Status(j)
    BY <2>1, <2>2, EntryWritten DEF Compiling, Outcomes
  <2>4. Status(key.render) = "begun"
    <3>1. pipelines[key.render] = "notReady"
      BY <2>1 DEF IInv, RenderOwnsItsEntry
    <3>2. QED
      BY <3>1, StatusSeen, SeenFacts
  <2>5. QED
    BY <2>1, <2>2, <2>3, <2>4, CacheFinishes
<1>7. CASE ReturnReady \/ ReturnNull
  <2> DEFINE k == key.render
  <2>1. /\ UNCHANGED pipelines /\ pc.render = "check" /\ pc'.render = "idle"
        /\ k \in Keys
    BY <1>h, <1>7 DEF ReturnReady, ReturnNull, Return, Goto
  <2>2. \A j \in Keys : Status(j)' = Status(j)
    BY <2>1, StatusStays DEF Compiling
  <2>3. \A j \in Keys : Status(j) = Seen(pipelines[j], FALSE)
    BY <2>1, StatusSeen DEF Building, Compiling
  <2>4. /\ asked \in Keys /\ Uber[asked] \in Keys
        /\ \/ k = asked
           \/ k = Uber[asked] /\ pipelines[asked] \in {"empty", "notReady", "errored"}
    BY <2>1 DEF FallbackInv
  <2>5. /\ Status(asked) = Seen(pipelines[asked], FALSE)
        /\ Status(k) = Seen(pipelines[k], FALSE)
    BY <2>1, <2>3, <2>4
  <2>6. k # asked => Status(asked) \in {"begun", "errored"} /\ k = Uber[asked]
    BY <2>4, <2>5, SeenFacts DEF Outcomes
  <2>7. CASE ReturnReady
    <3>1. /\ pipelines[k] = "ready"
          /\ answer' = [asked |-> asked, given |-> k]
      BY <2>7 DEF ReturnReady, Return
    <3>2. Status(k) = "ready"
      BY <2>5, <3>1, SeenFacts DEF Outcomes
    <3> HIDE DEF k
    <3>3. QED
      BY <2>2, <2>4, <2>6, <3>1, <3>2, CacheAnswers
  <2>8. CASE ReturnNull
    <3>1. /\ pipelines[k] \in {"empty", "errored"} /\ k = Uber[k]
          /\ answer' = [asked |-> asked, given |-> None]
      BY <2>8 DEF ReturnNull, Return
    <3>2. pipelines[k] = "errored"
      BY <2>1, <3>1 DEF FallbackInv
    <3>3. Status(k) = "errored"
      BY <2>5, <3>2, SeenFacts DEF Outcomes
    <3>4. Uber[asked] = k
      BY <2>4, <3>1
    <3> HIDE DEF k
    <3>5. QED
      BY <2>2, <2>4, <2>6, <3>1, <3>3, <3>4, CacheAnswers
  <2>9. QED
    BY <1>7, <2>7, <2>8
<1>8. CASE Fallback \/ AdvanceUnlinked
  <2>1. /\ UNCHANGED <<answer, pipelines>> /\ pc.render \in {"check", "advance"}
        /\ pc'.render = "find"
    BY <1>h, <1>8 DEF Fallback, AdvanceUnlinked, Goto
  <2>2. QED
    BY <2>1, StatusStays, CacheStutters DEF Compiling
<1>9. ASSUME NEW k \in Keys, TryGetPipeline(k) PROVE UNCHANGED Cache!cacheVars
  <2>1. /\ UNCHANGED <<answer, pipelines>> /\ pc.render = "idle"
        /\ pc'.render = "find"
    BY <1>h, <1>9 DEF TryGetPipeline, Goto
  <2>2. QED
    BY <2>1, StatusStays, CacheStutters DEF Compiling
<1>10. ASSUME NEW k \in Keys, ProgramLinked(k) PROVE UNCHANGED Cache!cacheVars
  BY <1>10, StatusStays, CacheStutters DEF ProgramLinked, threadVars
<1>11. CASE ClearCache
  <2>1. /\ UNCHANGED <<pc, answer>> /\ pc.render = "idle"
        /\ pipelines' = [k \in Keys |-> "none"]
    BY <1>11 DEF ClearCache, threadVars
  <2>2. \A j \in Keys : pipelines'[j] = "none"
    BY <2>1
  <2>3. \A j \in Keys : Status(j)' = "unknown"
    BY <2>1, <2>2, StatusSeen, SeenFacts DEF Compiling
  <2>4. QED
    BY <2>1, <2>3, CacheClears
<1>12. CASE Shutdown
  <2>1. /\ UNCHANGED <<answer, pipelines, key>> /\ pc.render = "idle"
        /\ pc'.render \in {"gone", "notify"}
    BY <1>h, <1>12 DEF Shutdown, Goto
  <2>2. QED
    BY <2>1, StatusStays, CacheStutters DEF Compiling
<1>13. QED
  BY <1>u, <1>w, <1>1, <1>2, <1>3, <1>4, <1>5, <1>6, <1>7, <1>8, <1>9, <1>10, <1>11,
     <1>12 DEF Next, RenderStep

\* A draw gets the pipeline it asked for, its ubershader while that is not usable,
\* or null when the ubershader failed, and a pipeline is built once, whatever the
\* two threads, the driver and the modes do (tryGetPipeline, popCompletedJob).
THEOREM PipelinesImplementCache == Spec => ImplementsCache
<1>1. Init => IInv /\ FallbackInv
  BY InitIInv, InitFallback
<1>2. IInv /\ FallbackInv /\ [Next]_vars => IInv' /\ FallbackInv'
  BY NextIInv, NextFallback
<1>3. QED
  BY <1>1, <1>2, CacheInit, StepOfCache, PTL DEF Spec, ImplementsCache, Cache!Spec
=============================================================================
