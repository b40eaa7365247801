--------------------------- MODULE AsyncPipelines ----------------------------
(* How the render thread gets its pipelines: AsyncPipelineManager, with the  *)
(* D3D pipeline manager, which compiles on a background thread, and the GL   *)
(* one, which polls programs that the driver links.  Both take their vertex  *)
(* shaders from a VertexShaderManager that two threads may use at once.      *)
(*                                                                           *)
(* A section under a mutex is one step; compiling a shader, which both       *)
(* threads do outside of it, lies between two steps.  Whether a pipeline     *)
(* fails is left open for every one.                                         *)
EXTENDS Integers, Sequences, FiniteSets

CONSTANTS
    Keys,      \* pipelines: draw type, shader features, interlock mode, flags
    Uber,      \* UbershaderFeaturesMaskFor: key -> key of its ubershader
    Vertices,  \* vertex shaders
    Vertex,    \* key -> vertex shader, for pipelines share them
    Modes,     \* ShaderCompilationMode values
    Backends,  \* "threaded" (D3D11, D3D12), "polled" (GL)
    None       \* no pipeline, no key

ASSUME AsyncPipelinesAssumption ==
    /\ Uber \in [Keys -> Keys]
    /\ \A k \in Keys : Uber[Uber[k]] = Uber[k]
    /\ Vertex \in [Keys -> Vertices]
    /\ Modes \subseteq
           {"allowAsynchronous", "onlyUbershaders", "alwaysSynchronous"}
    /\ Backends \subseteq {"threaded", "polled"}
    /\ None \notin Keys

Threads == {"render", "worker"}

VARIABLES
    mode,       \* m_mode
    backend,    \* what createPipeline and getPipelineStatus are overridden by
    pc,         \* what each thread does next
    key,        \* the pipeline each thread is busy with
    asked,      \* the pipeline that tryGetPipeline was first called for
    answer,     \* [asked, given]: the last value it returned
    pipelines,  \* m_pipelines: "none" without an entry, "empty" for null
    jobQueue,   \* m_jobQueue
    completedJobs,  \* m_completedJobs: [key, program]
    isDone,     \* m_isDone
    shaders,    \* m_shaders: "none" without an entry, "building" for nullopt
    linked      \* programs that the GL driver has linked

threadVars == <<pc, key, asked, answer>>
jobVars == <<jobQueue, completedJobs, isDone>>
vars == <<mode, backend, threadVars, pipelines, jobVars, shaders, linked>>
constVars == <<mode, backend>>

Outcomes == {"ready", "errored"}

\* createType, for features that onlyUbershaders has already widened.
IsAsync(k) == mode = "allowAsynchronous" /\ k # Uber[k]

Goto(thread, label) == pc' = [pc EXCEPT ![thread] = label]

\* notify_one and notify_all: the threads waiting test their condition again.
Woken(from, to) ==
    [t \in Threads |-> IF pc[t] = from THEN to ELSE pc[t]]

Init ==
    /\ mode \in Modes
    /\ backend \in Backends
    /\ pc = [render |-> "idle", worker |-> "none"]
    /\ key = [t \in Threads |-> None]
    /\ asked = None
    /\ answer = [asked |-> None, given |-> None]
    /\ pipelines = [k \in Keys |-> "none"]
    /\ jobQueue = <<>>
    /\ completedJobs = <<>>
    /\ isDone = FALSE
    /\ shaders = [v \in Vertices |-> "none"]
    /\ linked = {}

(***************************************************************************)
(* VertexShaderManager::getShader, by either thread                        *)
(***************************************************************************)

\* Without the empty entry that keeps the other thread from building it too.
GetShaderNoPlaceholder(t) ==
    LET v == Vertex[key[t]] IN
    /\ pc[t] = "shader"
    /\ \/ shaders[v] = "built" /\ Goto(t, "link")
       \/ shaders[v] # "built" /\ Goto(t, "build")
    /\ UNCHANGED <<constVars, key, asked, answer, pipelines, jobVars,
                   shaders, linked>>

\* Returns the shader, waits for the thread that builds it, or starts to.
GetShader(t) ==
    LET v == Vertex[key[t]] IN
    /\ pc[t] = "shader"
    /\ \/ /\ shaders[v] = "built"
          /\ Goto(t, "link")
          /\ UNCHANGED shaders
       \/ /\ shaders[v] = "building"
          /\ Goto(t, "vertexWait")
          /\ UNCHANGED shaders
       \/ /\ shaders[v] = "none"
          /\ Goto(t, "build")
          /\ shaders' = [shaders EXCEPT ![v] = "building"]
    /\ UNCHANGED <<constVars, key, asked, answer, pipelines, jobVars, linked>>

\* createVertexShader has returned.
BuiltShader(t) ==
    /\ pc[t] = "build"
    /\ shaders' = [shaders EXCEPT ![Vertex[key[t]]] = "built"]
    /\ pc' = [Woken("vertexWait", "shader") EXCEPT ![t] = "link"]
    /\ UNCHANGED <<constVars, key, asked, answer, pipelines, jobVars, linked>>

(***************************************************************************)
(* tryGetPipeline, on the render thread                                    *)
(***************************************************************************)

TryGetPipeline(k) ==
    LET wanted == IF mode = "onlyUbershaders" THEN Uber[k] ELSE k IN
    /\ pc.render = "idle"
    /\ asked' = wanted
    /\ key' = [key EXCEPT !.render = wanted]
    /\ Goto("render", "find")
    /\ UNCHANGED <<constVars, answer, pipelines, jobVars, shaders, linked>>

\* m_pipelines.find, and which way createPipeline goes.
Find ==
    LET k == key.render
        entry == pipelines[k] IN
    /\ pc.render = "find"
    /\ Goto("render",
            CASE entry = "empty" -> "poll"
              [] entry \in {"notReady", "ready", "errored"} -> "check"
              [] entry = "none" /\ IsAsync(k) /\ backend = "threaded" -> "queue"
              [] OTHER -> "shader")
    /\ UNCHANGED <<constVars, key, asked, answer, pipelines, jobVars, shaders,
                   linked>>

\* The linked program or pipeline state; GL leaves it to the driver.
LinkOnRenderThread ==
    LET k == key.render IN
    /\ pc.render = "link"
    /\ \/ /\ backend = "threaded"
          /\ \E outcome \in Outcomes :
                 pipelines' = [pipelines EXCEPT ![k] = outcome]
          /\ Goto("render", "check")
       \/ /\ backend = "polled"
          /\ pipelines' = [pipelines EXCEPT ![k] = "notReady"]
          /\ Goto("render", "advance")
    /\ UNCHANGED <<constVars, key, asked, answer, jobVars, shaders, linked>>

\* The render thread starts the background thread with its first job.
StartThread ==
    /\ pc.render = "queue"
    /\ pc.worker = "none"
    /\ Goto("worker", "test")
    /\ UNCHANGED <<constVars, key, asked, answer, pipelines, jobVars, shaders,
                   linked>>

QueueWithoutNotify ==
    /\ pc.render = "queue"
    /\ pc.worker # "none"
    /\ jobQueue' = Append(jobQueue, key.render)
    /\ pipelines' = [pipelines EXCEPT ![key.render] = "empty"]
    /\ Goto("render", "poll")
    /\ UNCHANGED <<constVars, key, asked, answer, completedJobs, isDone,
                   shaders, linked>>

\* The job and its notification, and the null entry tryGetPipeline inserts.
QueueBackgroundJob ==
    /\ pc.render = "queue"
    /\ pc.worker # "none"
    /\ jobQueue' = Append(jobQueue, key.render)
    /\ pipelines' = [pipelines EXCEPT ![key.render] = "empty"]
    /\ pc' = [Woken("sleep", "test") EXCEPT !.render = "poll"]
    /\ UNCHANGED <<constVars, key, asked, answer, completedJobs, isDone,
                   shaders, linked>>

\* Popping without storing what belongs to another draw.
PopOnlyOwn ==
    LET job == completedJobs[Len(completedJobs)] IN
    /\ pc.render = "poll"
    /\ completedJobs # <<>>
    /\ completedJobs' = SubSeq(completedJobs, 1, Len(completedJobs) - 1)
    /\ pipelines' = IF job.key = key.render
                    THEN [pipelines EXCEPT ![job.key] = job.program]
                    ELSE pipelines
    /\ Goto("render", IF job.key = key.render THEN "check" ELSE "poll")
    /\ UNCHANGED <<constVars, key, asked, answer, jobQueue, isDone, shaders,
                   linked>>

\* The latest completed job first, until it is the one wanted.
PopCompletedJob ==
    LET job == completedJobs[Len(completedJobs)] IN
    /\ pc.render = "poll"
    /\ completedJobs # <<>>
    /\ completedJobs' = SubSeq(completedJobs, 1, Len(completedJobs) - 1)
    /\ pipelines' = [pipelines EXCEPT ![job.key] = job.program]
    /\ Goto("render", IF job.key = key.render THEN "check" ELSE "poll")
    /\ UNCHANGED <<constVars, key, asked, answer, jobQueue, isDone, shaders,
                   linked>>

NoneCompleted ==
    /\ pc.render = "poll"
    /\ completedJobs = <<>>
    /\ Goto("render", "check")
    /\ UNCHANGED <<constVars, key, asked, answer, pipelines, jobVars, shaders,
                   linked>>

Return(given) ==
    /\ answer' = [asked |-> asked, given |-> given]
    /\ asked' = None
    /\ key' = [key EXCEPT !.render = None]
    /\ Goto("render", "idle")
    /\ UNCHANGED <<constVars, pipelines, jobVars, shaders, linked>>

ReturnReady ==
    /\ pc.render = "check"
    /\ pipelines[key.render] = "ready"
    /\ Return(key.render)

\* Without the fallback for a pipeline that failed.
ReturnNullForErrored ==
    /\ pc.render = "check"
    /\ pipelines[key.render] = "errored"
    /\ Return(None)

\* The ubershader is only ever unusable when it failed to build.
ReturnNull ==
    /\ pc.render = "check"
    /\ pipelines[key.render] \in {"empty", "errored"}
    /\ key.render = Uber[key.render]
    /\ Return(None)

\* tryGetPipeline calls itself for the ubershader.
Fallback ==
    /\ pc.render = "check"
    /\ pipelines[key.render] \in {"empty", "errored"}
    /\ key.render # Uber[key.render]
    /\ key' = [key EXCEPT !.render = Uber[key.render]]
    /\ Goto("render", "find")
    /\ UNCHANGED <<constVars, asked, answer, pipelines, jobVars, shaders,
                   linked>>

StillLinking ==
    /\ pc.render = "check"
    /\ pipelines[key.render] = "notReady"
    /\ Goto("render", "advance")
    /\ UNCHANGED <<constVars, key, asked, answer, pipelines, jobVars, shaders,
                   linked>>

\* advanceCreation: a program that was asked for synchronously is waited for.
AdvanceLinked ==
    LET k == key.render IN
    /\ pc.render = "advance"
    /\ k \in linked
    /\ \E outcome \in Outcomes :
           pipelines' = [pipelines EXCEPT ![k] = outcome]
    /\ Goto("render", "check")
    /\ UNCHANGED <<constVars, key, asked, answer, jobVars, shaders, linked>>

AdvanceUnlinked ==
    LET k == key.render IN
    /\ pc.render = "advance"
    /\ k \notin linked
    /\ IsAsync(k)
    /\ key' = [key EXCEPT !.render = Uber[k]]
    /\ Goto("render", "find")
    /\ UNCHANGED <<constVars, asked, answer, pipelines, jobVars, shaders,
                   linked>>

\* The GL driver.
ProgramLinked(k) ==
    /\ pipelines[k] = "notReady"
    /\ k \notin linked
    /\ linked' = linked \cup {k}
    /\ UNCHANGED <<constVars, threadVars, pipelines, jobVars, shaders>>

\* clearCache between two flushes, in GL only: the shaders have to be built
\* in another way, with or without the vertex shaders.
ClearCache ==
    /\ backend = "polled"
    /\ pc.render = "idle"
    /\ pipelines' = [k \in Keys |-> "none"]
    /\ linked' = {}
    /\ shaders' \in {shaders, [v \in Vertices |-> "none"]}
    /\ UNCHANGED <<constVars, threadVars, jobVars>>

(***************************************************************************)
(* The background thread                                                   *)
(***************************************************************************)

\* Under the lock: quits, takes the next job, or waits for one.
TestQueue ==
    /\ pc.worker = "test"
    /\ \/ /\ isDone
          /\ Goto("worker", "ended")
          /\ UNCHANGED <<key, jobQueue>>
       \/ /\ ~isDone
          /\ jobQueue = <<>>
          /\ Goto("worker", "sleep")
          /\ UNCHANGED <<key, jobQueue>>
       \/ /\ ~isDone
          /\ jobQueue # <<>>
          /\ key' = [key EXCEPT !.worker = Head(jobQueue)]
          /\ jobQueue' = Tail(jobQueue)
          /\ Goto("worker", "shader")
    /\ UNCHANGED <<constVars, asked, answer, pipelines, completedJobs, isDone,
                   shaders, linked>>

\* The thread's job outlives its iteration of the loop.
LinkKeepingJob ==
    /\ pc.worker = "link"
    /\ \E outcome \in Outcomes :
           completedJobs' =
               Append(completedJobs, [key |-> key.worker, program |-> outcome])
    /\ Goto("worker", "test")
    /\ UNCHANGED <<constVars, key, asked, answer, pipelines, jobQueue, isDone,
                   shaders, linked>>

LinkOnWorker ==
    /\ pc.worker = "link"
    /\ \E outcome \in Outcomes :
           completedJobs' =
               Append(completedJobs, [key |-> key.worker, program |-> outcome])
    /\ key' = [key EXCEPT !.worker = None]
    /\ Goto("worker", "test")
    /\ UNCHANGED <<constVars, asked, answer, pipelines, jobQueue, isDone,
                   shaders, linked>>

SpuriousWakeup ==
    /\ \/ pc.worker = "sleep" /\ Goto("worker", "test")
       \/ \E t \in Threads : pc[t] = "vertexWait" /\ Goto(t, "shader")
    /\ UNCHANGED <<constVars, key, asked, answer, pipelines, jobVars, shaders,
                   linked>>

(***************************************************************************)
(* shutdownBackgroundThread, from the manager's destructor                 *)
(***************************************************************************)

Shutdown ==
    /\ pc.render = "idle"
    /\ \/ /\ pc.worker = "none"
          /\ Goto("render", "gone")
          /\ UNCHANGED isDone
       \/ /\ pc.worker # "none"
          /\ isDone' = TRUE
          /\ Goto("render", "notify")
    /\ UNCHANGED <<constVars, key, asked, answer, pipelines, jobQueue,
                   completedJobs, shaders, linked>>

NotifyAllDropped ==
    /\ pc.render = "notify"
    /\ Goto("render", "join")
    /\ UNCHANGED <<constVars, key, asked, answer, pipelines, jobVars, shaders,
                   linked>>

NotifyAll ==
    /\ pc.render = "notify"
    /\ pc' = [Woken("sleep", "test") EXCEPT !.render = "join"]
    /\ UNCHANGED <<constVars, key, asked, answer, pipelines, jobVars, shaders,
                   linked>>

Join ==
    /\ pc.render = "join"
    /\ pc.worker = "ended"
    /\ Goto("render", "gone")
    /\ UNCHANGED <<constVars, key, asked, answer, pipelines, jobVars, shaders,
                   linked>>

RenderStep ==
    \/ GetShader("render")
    \/ BuiltShader("render")
    \/ Find
    \/ LinkOnRenderThread
    \/ StartThread
    \/ QueueBackgroundJob
    \/ PopCompletedJob
    \/ NoneCompleted
    \/ ReturnReady
    \/ ReturnNull
    \/ Fallback
    \/ StillLinking
    \/ AdvanceLinked
    \/ AdvanceUnlinked
    \/ NotifyAll
    \/ Join

WorkerStep ==
    \/ TestQueue
    \/ GetShader("worker")
    \/ BuiltShader("worker")
    \/ LinkOnWorker

Next ==
    \/ RenderStep
    \/ WorkerStep
    \/ \E k \in Keys : TryGetPipeline(k) \/ ProgramLinked(k)
    \/ ClearCache
    \/ Shutdown
    \/ SpuriousWakeup

\* Both threads run, and the driver ends every link.  Nobody has to draw, to
\* clear the cache or to destroy the manager.
Fairness ==
    /\ WF_vars(RenderStep)
    /\ WF_vars(WorkerStep)
    /\ \A k \in Keys : WF_vars(ProgramLinked(k))

Spec == Init /\ [][Next]_vars /\ Fairness

(***************************************************************************)
(* Correctness                                                             *)
(***************************************************************************)

Compiling == {"shader", "vertexWait", "build", "link"}

RenderLabels == {"idle", "find", "queue", "poll", "check", "advance", "notify",
                 "join", "gone"} \cup Compiling
WorkerLabels == {"none", "test", "sleep", "ended"} \cup Compiling

\* Every variable holds a value the code can store in it.
TypeOK ==
    /\ mode \in Modes
    /\ backend \in Backends
    /\ pc \in [Threads -> RenderLabels \cup WorkerLabels]
    /\ pc.render \in RenderLabels
    /\ pc.worker \in WorkerLabels
    /\ key \in [Threads -> Keys \cup {None}]
    /\ key.render = None <=> pc.render \in {"idle", "notify", "join", "gone"}
    /\ key.worker = None <=> pc.worker \notin Compiling
    /\ asked \in Keys \cup {None}
    /\ answer \in [asked : Keys \cup {None}, given : Keys \cup {None}]
    /\ pipelines \in
           [Keys -> {"none", "empty", "notReady", "ready", "errored"}]
    /\ jobQueue \in Seq(Keys)
    /\ completedJobs \in Seq([key : Keys, program : Outcomes])
    /\ isDone \in BOOLEAN
    /\ shaders \in [Vertices -> {"none", "building", "built"}]
    /\ linked \subseteq Keys

Queued == {jobQueue[i] : i \in DOMAIN jobQueue}
Completed == {completedJobs[i].key : i \in DOMAIN completedJobs}

\* A pipeline the cache is waiting for is in exactly one place, once: in the
\* queue, with the background thread, or among the completed jobs; and one it
\* does not wait for is in none.  So no pipeline is compiled twice or lost
\* (createPipeline, popCompletedJob, backgroundShaderCompilationThread).
EachJobInOnePlace ==
    /\ Queued \cup Completed \cup ({key.worker} \ {None})
           = {k \in Keys : pipelines[k] = "empty"}
    /\ Queued \cap Completed = {}
    /\ key.worker \notin Queued \cup Completed
    /\ \A i, j \in DOMAIN jobQueue : jobQueue[i] = jobQueue[j] => i = j
    /\ \A i, j \in DOMAIN completedJobs :
           completedJobs[i].key = completedJobs[j].key => i = j

\* The two threads never build one vertex shader at once, and a pipeline is
\* linked only with a shader that has been built (VertexShaderManager).
ShaderBuiltOnce ==
    /\ \A v \in Vertices :
           LET builders == {t \in Threads :
                                pc[t] = "build" /\ Vertex[key[t]] = v}
           IN shaders[v] = "building" <=> builders # {}
    /\ pc.render = "build" /\ pc.worker = "build"
           => Vertex[key.render] # Vertex[key.worker]
    /\ \A t \in Threads : pc[t] = "link" => shaders[Vertex[key[t]]] = "built"

\* What the cache promises to a draw, whatever thread builds its pipelines.
Status(k) ==
    CASE pipelines[k] \in Outcomes -> pipelines[k]
      [] pipelines[k] \in {"empty", "notReady"} -> "begun"
      [] key.render = k /\ pc.render \in Compiling -> "begun"
      [] OTHER -> "unknown"

Cache == INSTANCE PipelineCache WITH status <- [k \in Keys |-> Status(k)]

\* Each pipeline is built once and keeps its outcome until the cache is
\* cleared, and every answer is the pipeline itself when it is ready, its
\* ubershader while it is not, and null only when that one failed.
ImplementsCache == Cache!Spec

\* A pipeline that is asked for again and again is ready, or has failed, from
\* some point on, unless the cache is cleared again and again.
PipelinesArrive ==
    \A k \in Keys :
        []<>(pc.render = "find" /\ key.render = k)
            => \/ <>[](pipelines[k] \in Outcomes)
               \/ []<><<ClearCache>>_vars

\* The destructor's join returns, with jobs still in the queue or not, and
\* leaves no thread behind that could use the device.
ShutdownEnds ==
    pc.render = "notify" ~> pc.render = "gone" /\ pc.worker = "ended"
=============================================================================
