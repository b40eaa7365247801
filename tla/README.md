# TLA+ specifications of rive_native

rive_native draws Rive scenes inside Flutter. Its C++ half has four places where
threads, or the CPU and the GPU, meet: the command queue of the runtime, through
which any thread drives a scene that only one thread owns; the plugin's hand-over
of finished frames to the screen; the renderer's creation of pipelines on a thread
of their own; and the lifetimes of what the GPU still reads. It also has two
algorithms on one thread in which the order of many small steps decides whether
the picture is right: the update pass of an artboard and the frame of a state
machine. The modules here specify these six, TLC checks them on small instances,
and TLAPS proves, for every value of the constants, every safety property that the
passing runs check. Paths below are relative to the repository (`src/`).

* [The system](#the-system) - its parts, their state, what is hard about them
* [Modules](#modules) - which module models what, and how
* [Runs](#runs) - what TLC checks, with which bounds and fairness
* [Proofs](#proofs) - what TLAPS proves, from what, and how
* [Where the code disagrees with itself](#where-the-code-disagrees-with-itself)
* [What is not modelled](#what-is-not-modelled)
* [Plan](#plan)

## The system

### Command transport

`runtime/src/command_queue.cpp`, `runtime/src/command_server.cpp`,
`runtime/include/rive/object_stream.hpp`

State: `m_commandMutex`, `m_commandConditionVariable`, the command stream
(plain data, field by field), four side streams for objects (`m_byteVectors`,
`m_names`, `m_callbacks`, `m_drawCallbacks`), the server's `m_uniqueDraws` and
`m_wasDisconnectReceived`.

Operations: every call of `CommandQueue` (lock, plain data, object, notify,
unlock), `waitCommands`, `processCommands`, `serveUntilDisconnect`, `disconnect`.

Hard: two streams that must be read in step; a notification given before the
unlock; a first test of the stream without the lock; a batch that gives the lock
up for each command and must still end when clients never stop; draws of one key
replaced within a batch; a `disconnect` that leaves a batch half way.

Correct when: every command is executed once, in order, with its own object; no
wakeup is lost; each batch ends at its own marker; the latest draw of a key runs.

### Resources of the command server

`runtime/src/command_server.cpp`, `runtime/include/rive/command_server.hpp`

State: the maps from handles to files, artboards, state machines and view model
instances, `m_fileDependencies`, `m_artboardDependencies`, the handle counters.

Operations: some thirty commands that create, delete, look up or edit a
resource, each answering with a reply, an error or nothing; `cleanupArtboard`.

Hard: a client may use a handle at once, before or after its resource exists;
deletions cascade, in any order, over vectors that keep handles of the dead.

Correct when: nothing lives without its owner; each deletion takes along exactly
what depends on it and reports it once, dependents first; a deleted resource is
never answered for again.

### Messages and listeners

`runtime/src/command_queue.cpp` (`processMessages`), `command_queue.hpp`
(`ListenerBase`), the writing half in `command_server.cpp`/`.hpp`

State: `m_messageMutex`, `m_messageStream`, `m_messageNames`, seven listener
maps with raw pointers, and in each listener `m_handle` and `m_owningQueue`.

Operations: writing a message, `processMessages`, construction, move and
destruction of listeners, the calls that register one.

Hard: two streams with no separators whose fields depend on the data; callbacks
without the lock that may create, move and destroy listeners or call
`processMessages` again; a marker that must end the loop.

Correct when: the client reads exactly the fields the server wrote; no pointer
in a map dangles; a call returns, and not before it has consumed what was there.

### Windows renderer

`native/platform/windows/rive_native_windows.cpp`,
`native/include/rive_native/swapchain.hpp`, `windows/rive_native_plugin.cpp`

State: `m_activeFenceWaitIndex`, `m_lastFrameIndex`, `m_lastFrameTexture`, the
swapchain's `m_renderTextures` and `m_presentingTexture`, the CPU pixel buffer.

Operations: `end()`, `fenceWaitThread()`, `RiveNativeRenderTexture::end()`,
`createTexture`, `removeTexture` with the destructors it runs.

Hard: two threads waiting on one condition variable for opposite conditions with
`notify_one`; an index tested under a mutex, read outside it, and also used to say
"terminate"; four textures handed round between two threads; the GPU.

Correct when: no texture is lost, no thread waits for ever, and what is shown and
copied is a finished frame, in order.

### GPU resource lifetimes

`runtime/renderer/src/gpu_resource.cpp`, `gpu_resource.hpp`, the swapchain in
`rive_vk_bootstrap`, the pools of `render_context_vulkan_impl.cpp`

State: the purgatory of `GPUResourceManager`, the queues of the pools, the current
and the safe frame number, the frame number of each swapchain image.

Operations: a resource made and released, a render buffer mapped and destroyed, a
flush, an image acquired and submitted, a resize, the shutdown.

Hard: a resource is let go with the number of the frame of its *release*, which need
not be one that used it; the safe number is that of one image, and images come back
in whatever order the presentation engine likes; one frame may be flushed twice.

Correct when: nothing the GPU may still read is deleted or written, and nothing is
kept longer than that.

### Asynchronous pipelines

`runtime/renderer/include/rive/renderer/async_pipeline_manager.hpp`,
`vertex_shader_manager.hpp`, `d3d/pipeline_manager.hpp`,
`src/gl/render_context_gl_impl.cpp`

State: `m_pipelines`, the job queue, the list of completed jobs, `m_isDone`, the
vertex shaders, some of them being built.

Operations: `tryGetPipeline`, the loop of the background thread, `getShader`,
`clearCache...`, the destructor; in the GL renderer, polling of a linking program.

Hard: finished jobs come out of order and are taken off the list during a call for
another pipeline; two threads want one shader; any program may fail to build; the
destructor meets a thread that sleeps, builds or has jobs left.

Correct when: each pipeline is built once and given as soon as it is ready, its
ubershader until then and if it fails, null only if that failed too; every pipeline
asked for arrives in the end; the destructor returns.

### Artboard update passes

`runtime/src/component.cpp`, `artboard.cpp`, `dependency_sorter.cpp`, `solo.cpp`,
`transform_component.cpp`, `joystick.cpp`, `constraints/`

State: the dependents of each component, the dependency order, the dirt of each
component, `m_DirtDepth`, the values computed from one another.

Operations: `addDirt` with its spread over the dependents, `collapse`, `updatePass`
and `updateComponents` with their restarts, the setters a frame may call.

Hard: an update may dirty a component earlier in the order; dirt of a collapsed
component is kept and must count again when it comes back; a joystick changes
values in the middle of the pass; after `maxSteps` rounds the rest is left undone.

Correct when: after a pass each value is what its inputs say, no component has been
updated before one it depends on, and no pass was cut off.

### State machines

`runtime/src/animation/state_machine_instance.cpp`, `state_transition.cpp`,
`state_machine_input_instance.cpp`, `animation_state_instance.cpp`

State: per layer the current, previous and any state with their clocks, the
transition and its mix; the inputs, the trigger and the layers that have used it; the
events reported; `m_needsAdvance`.

Operations: a frame (`advanceAndApply`) with its passes over the layers, setting an
input, firing a trigger, reset.

Hard: three pointers may share a state instance and two of them delete it; a trigger
must reach every layer though each layer clears it; a layer may change its state up to
`maxIterations` times a frame; events cause inputs that cause another pass; the return
value tells the host whether it may stop calling.

Correct when: state instances are deleted once and none is lost; a trigger is missed by
no layer that waits for it; a transition ends; a host that stops when it is told that
nothing is going on misses nothing.

### Everything else

Global assets and property subscriptions of the command server, the texture ring of
macOS and iOS and audio decoding have logic worth modelling and are in the
[plan](#plan). Layout, text, data binding, file import, path geometry, GPU back ends,
scripting, the Dart library and the web back end are single-threaded computation,
wrappers, or drivers' and browsers' business; see
[What is not modelled](#what-is-not-modelled).

How the parts interact: clients call `CommandQueue`, which is transport only;
`CommandServer` executes a command on its resources and writes messages, and the
client's `processMessages` takes them out again. The modules follow these seams.
The transport knows commands only by how they are framed, the resources take one
command at a time (the transport's `ImplementsService` is what justifies it), and
the message module knows messages only by their fields and their handle. A draw
callback, or the host itself, advances a state machine instance, which sets
properties of components through its animations and then has the artboard updated:
`ArtboardUpdate` takes these as its setters, in any order. Drawing asks for pipelines
and creates GPU resources, about which the renderer knows only frame numbers and keys.
The Windows renderer shows the frames that come out of it. No two of these pairs share
state other than what one passes to the other in a call, which is why each has a module
of its own; transport and service, and cache and pipelines, are composed by refinement.

## Modules

| module | of | about |
| --- | --- | --- |
| `CommandTransport` | detailed specification | client calls and the server loop, one step per critical section or unlocked access |
| `CommandService` | abstract specification | every command executed once and in order, the latest draw of a key run |
| `ServerResources` | detailed specification | one step per command: recorded by a client, executed by the server |
| `ResourceTree` | abstract specification | a forest in which a deletion takes the subtree along |
| `MessageFormat` | operators | the fields of every message, as the server writes and as the client reads them |
| `MessageQueue` | detailed specification | the message streams, `processMessages`, listeners and callbacks |
| `WindowsRenderer` | detailed specification | UI thread, waiting thread, GPU and swapchain |
| `GpuResources` | detailed specification | purgatory, pools, frame numbers, swapchain images, what the GPU still reads |
| `AsyncPipelines` | detailed specification | render thread, background thread and GL driver building pipelines |
| `PipelineCache` | abstract specification | each pipeline built once, what the answer to a draw may be |
| `ArtboardUpdate` | detailed specification | dependency order, dirt, collapse and the update pass, one component a step |
| `StateMachine` | detailed specification | layers, transitions, inputs and events, one layer a step |
| `MC...` | instances | what TLC needs besides: symmetry sets and message sets |
| `..._proofs` | theorems | inductive invariants and what follows from them |

Definitions named "a bug of this kind" (`RestWithName`, `NotifyUIDropped`, ...)
are variants of the definition they stand before, with the mistake their comment
names. No specification uses them: each property of a run is known to fail when
the variant replaces the definition.

### CommandTransport

`pc` says where each thread is; `commandMutex` who holds the lock;
`commandStream` is a sequence of commands (`op`, `key`, and in `sent` a tag that
tells payloads apart), `objects[s]` the tags in side stream `s`. One command stands
for each way of framing: `deleteFile` (plain data only), `loadFile`
(`m_byteVectors`), `instantiateArtboard` (`m_names`), `runOnce` (`m_callbacks`),
`draw` (`m_drawCallbacks`), `disconnect`, and `createDrawKey`, which takes and
notifies like the others and records nothing. Which side stream a command uses is written
down twice, from the calls (`StreamOf`) and from the cases of `processCommands`
(`ReadFrom`): that a popped command has its own object needs both.

| code | actions |
| --- | --- |
| a call of `CommandQueue` | `BeginCall`, `RecordPOD`, `RecordObject`, `Notify`, `EndCall` |
| `waitCommands` | `WaitCommands` (the unlocked test), `WaitLock`, `WaitCheck`, `SpuriousWakeup` |
| a host that polls | `PollCommands` |
| `processCommands`, head | `BatchLock`, `EarlyOut`, `BeginBatch` (adds the marker) |
| `processCommands`, loop | `Pop`, `ExecuteDraw`/`LoopBreak`/`Disconnect`/`Other`, `LoopLock`, `LoopAgain`, `LoopExit` |
| `processCommands`, tail | `RunDraw` once per key, `EndBatch` |

`commandStream.empty()` before the lock is a data race in the C++ sense; it is
modelled as an atomic test. `wait` is one step that unlocks and sleeps. Draw keys
are run in any order (`m_uniqueDraws` is unordered). After `disconnect` the server
stops, as `serveUntilDisconnect` does.

The refinement: `pendingCommands` are the commands in the stream, markers left
out, with the popped one in front until it has been executed; `latestDraws` are
the callbacks of the batch that have not been run.

### ServerResources

A step is one command with its handles and everything it does: the maps, the
vectors, `cleanupArtboard`, the messages in order (`outbox`). What depends on the
contents of a file (whether a name exists, a path leads somewhere, a state machine
settles) is a choice between the outcomes the code has for it. Handles are
numbers issued by counters and never used again. `outbox` holds the messages of
the latest command as `reply`, `deleted` or `error` with the kind of handle they
name; `deleted` remembers what was reported.

Two things in it are the code's and may look like slips: a failed
`listViewModelInstanceNames` is reported as a *view model* error with a *file*
handle in it, and `listViewModelPropertyValue` reports an unknown property and then
answers all the same.

### MessageFormat and MessageQueue

`WritePODs`/`WriteNames` and `ReadPODs`/`ReadNames` are translated separately, from
the server's writes and the client's reads, so that `ReadsWhatWasWritten` compares
two halves that were written apart. A message's data is abstracted to its *shape*:
the number of elements of a list, the number of values of each enum, the type of
each property.

The server writes a message in two steps under the mutex. A call of
`processMessages` is an element of `calls`, so calls inside one another are a stack.
It is at `pop` with the mutex, at `global` or `listener` inside a callback without
it, or at `lock` asking for it again. `InClientCode` says when the client runs code
of its own; then it may do any listener operation or call again (up to
`MaxDepth`). The markers belong to nobody: a call made in a callback ends at the first
marker it meets, which is that of the call around it, and leaves its own to that one. A
callback that calls again every time can so keep the outer call from returning, which is
why `ProcessMessagesReturns` asks that callbacks in the end return without a new call. The seven listener maps are one, of view model instances, which has the
most ways to register. `waiting` and `owed` are history: what is in the stream as
messages, and how many of them a call found when it began.

### WindowsRenderer

`pc` has the UI thread and the waiting thread. Each critical section is a step;
the reads of `m_activeFenceWaitIndex` outside the mutex (`TestTerminate`, `ArmFence`)
are steps of their own, since `~WindowsContextPLS` writes it in between. A texture
is one of four numbers; `frameOf` says which frame was last drawn into it, `gpuDone`
how far the GPU is. `fences` is fixed from the start: without fences the UI thread
polls a query and presents the frame itself.

`RemoveEarly` says whether `removeTexture` may come with a frame in flight.
Nothing in the code prevents it; the passing run and the proofs exclude it
(`RemoveEarly = FALSE`), and the run `windows_remove_assert` shows what happens
otherwise.

### GpuResources

`purgatory`, `pool.flush` and `pool.buffer` are sequences of `Zombie`s, a resource with the
frame number kept for it. `held` is what still has a reference. `uses[f]` is what the
commands of frame `f` refer to until the GPU has executed it (`GpuExecutesFrame`); it is
not in the code, and the properties compare the queues with it. `Flush` is
`prepareToFlush` with `advanceFrameNumber`, the commands recorded and the buffer's return
to its pool. One render buffer with a pool of its own (`BufferPool`, itself a resource that
waits in the purgatory) stands for all. `AcquireNextImage` takes any image that is neither
on the screen nor about to be, which is what the mailbox mode allows.

### AsyncPipelines

`pc` has the render thread and the background thread; every critical section is a step,
what is done outside the mutexes lies between steps. `backend` chooses between the
renderers that compile on the thread (D3D) and those that ask the driver (GL), whose
programs link whenever the driver likes (`ProgramLinked`). Every pipeline and every shader
may fail. The refinement maps a pipeline in the queue, on the thread, in the list of
completed jobs or linking to `"begun"`.

### ArtboardUpdate

`scene` is the file: a tree of nodes, which of them are constrained to which, which are
solos, the joystick's handle and what it drives. `Dependents` and `Sorted` translate
`buildDependencies` and the sorter; they are evaluated once. A number modulo 2 stands for a
transform and every input tells in the sum, so that one missed update shows. A step of
`updateComponents` visits one component. `Scenes` has files without cycles (`Acyclic`): the
sorter prints "Dependency cycle!" and gives up, and what such an artboard shows is undefined.
`Objects` is the order of the file, nodes, constraints and joystick mixed: `Dependents` has
each of them call its `buildDependencies` in turn (`AddsTo`), so that `m_Dependents`, and with
it the order the sorter finds, is the code's. `Dependents` and `Sorted` are written as
recursive functions so that they can be reasoned about. Within a pass only the joystick
changes a property (`Apply`); the setters and the solos come between passes, in any order
and number.

### StateMachine

Time is in ticks. `heap[l]` is the memory of layer `l`, four cells, in which `layer[l]` has
three pointers; a `delete` empties the cell, and a pointer to an empty cell would dangle. A
frame is `StartFrame`, then layer by layer `AdvanceLayer` and `ChangeState` (one round of the
loop each), the passes caused by events, and `EndFrame`. Conditions are on one boolean and one
trigger; whether a random transition is taken is a choice of the model. `exceeded` is history:
a layer has used up `maxIterations`, which the code logs.

## Runs

| run | configuration | about | states |
| --- | --- | --- | --- |
| `transport_service` | 2 clients, 1 draw key, a call starts with fewer than 2 commands queued, waiting and polling, with disconnect | wakeups, objects, batches, refinement of `CommandService`, draws are reached | 58 thousand |
| `server_tree` | 2 files, artboards and view models, 1 state machine | ownership, cascades, reports, refinement of `ResourceTree` | 86 thousand |
| `message_streams` | all layouts and shapes, two messages waiting | types, fields of both streams | 2.0 million |
| `message_listeners` | 2 addresses, 2 handles, calls nested twice | lifetimes of listeners, what a call consumes, that it returns | 125 thousand |
| `windows_frames` | 4 frames per render texture, with and without fences | the frame hand-over | 554 |
| `gpu_resources` | 4 resources, 3 images, 5 frames, pools of 1 | what is deleted and rewritten, and when | 99 thousand, resources and images symmetric |
| `pipelines` | 4 pipelines, 3 vertex shaders, all modes and back ends | jobs, shaders, refinement of `PipelineCache`, arrival and shutdown | 58 thousand |
| `artboard_update` | 480 scenes of 3 nodes | values after a pass, order of updates, the limit of steps | 1.2 million |
| `state_machine` | 5 machines of 2 layers, frames of 0 and 2 ticks | state instances, triggers, ends of transitions, when a host may stop | 417 thousand |
| `message_list_reference`, `windows_remove_assert`, `artboard_solo_target` | | counterexamples, see below | |

Why these bounds are enough to see the interesting cases. Two clients give every
overlap of one call with another and with the server; a third adds another waiter
for the lock and no new kind of step. Two queued commands plus the marker let a draw
be replaced, a batch end between two commands, and a client record behind the marker.
Two handles of a kind have a cascade hit one owner and spare the other, with a dead
handle left in a vector; two view models let a list have a member that is deleted
and one that is not. Two messages make a field too many of the first shift the
second. Two addresses let a listener move and its old place be taken by another while a
callback runs; two nested calls have the inner one take the marker of the outer. The swapchain has four textures: the fourth frame draws
into the texture the first replaced, so a longer run repeats. Five frames on three
images bring an image back after one, two and three others, and each of four resources
can be held, in the pool, in the purgatory and in use at once. Two pipelines share a vertex
shader and two share an ubershader, which is every way two builds can meet. Three nodes with
up to three of a constraint, a solo and a joystick (which counts for two) make each feature
an input of each other; a fourth node is needed only for a solo in a solo that is also a
target, which is the counterexample. The machines are chosen to have an exit time within a
round and after it, an early exit, a transition from any state, a random one, and one that
changes its state in every round; frames of two ticks against lengths of two and three hit,
miss and overshoot every exit time; `maxIterations` is 3 instead of 100 and the passes 2
instead of 5, so that both limits are reached.

`CHECK_DEADLOCK FALSE` is used where the system really ends: in `transport_service` (a
disconnect ends the server and the queue fills up), `gpu_resources` (the bound on the frames
ends every behaviour) and `pipelines` (the manager is destroyed).

Fairness. `CommandTransport`: a thread inside a call or a batch goes on, its host
calls the server again, and the mutex is granted to the server in the end (strong
fairness of the lock steps: `std::mutex` promises no order, but a server that is
starved for ever is a fault of the platform, not of this code). Nothing makes a client
start a call and nothing makes the condition variable wake up by itself.
`MessageQueue`: the server finishes a message it has begun, callbacks return, and
`processMessages` gets its mutex (strong, for the same reason). `WindowsRenderer`: each
thread that can run does, and the GPU finishes what it is given; the application need
not draw or remove anything. `AsyncPipelines`: both threads go on once they have begun
something, and the GL driver links what it is given; nobody has to ask for a pipeline, clear
the cache or destroy the manager. That a draw asks again every frame is the premise of
`PipelinesArrive`, not an assumption of the specification. `StateMachine`: a frame that has begun ends, and a host that has been told to
keep going gives it frames with time in them again and again (strong, since it may call
with no time in between); a host that has been told to stop need not call. The other
modules have safety properties only.

What the properties are about, beyond their names: `DeletedIsFinal` that no reply is ever
made for a handle once reported as deleted; `CallsLiveListener` that the pointer taken from
the map after the global listener has run is alive; `EveryFrameInTurn` that no drawn frame
is skipped or shown twice; `NothingStale` that between two passes each value that is not
collapsed equals what its inputs give, computed without dirt or order, except that of a node
constrained to a solo (the counterexample of `artboard_solo_target`) and the pose of a
joystick whose handle a solo can collapse; `StopsWhenSettled` that after a frame has answered
"nothing going on" no layer has anything left to do. It is silent where a layer used up its
iterations, where a state chooses at random, and about a wait for an exit time that begins
after the layers have advanced. The last is no choice of ours: the code sets
`m_waitingForExit` too late to be returned, and a host that stops misses it
(`state_machine_instance.cpp:1914`). `NoTriggerMissed` that
when the trigger is cleared every layer that was waiting for it has seen it.

## Proofs

All theorems are for every value of the constants that satisfies the `ASSUME`s of
the module (any number of clients, keys, tags, handles, listeners, nested calls or
frames). TLC checks the same invariants, and the strengthened ones, on the runs'
instances.

`CommandTransport_proofs`. The invariant is `IInv`: types, `MutualExclusion`,
`StreamsInStep`, `OwnObject`, that a pop finds a command (`PopHasCommand`), and that draw
callbacks exist only inside a batch (`DrawsOnlyInBatch`). `StreamsInStep` alone is not
inductive: between the plain data and the object of a command one stream is ahead, and
only the lock says of which client. `OwnObject` then follows because `Pop` takes the
first object exactly when the first command uses the stream (`ReadsWhereWritten`: the cases
take objects from where the calls put them), for which the
order-preserving map must send 1 to 1; the lemmas about such maps (an element added to
both ends, to one of them, removed from both heads) carry the proof. From `IInv`:
`TypeCorrectness`, `LockDiscipline`, `SideStreamsInStep`, `CommandsKeepTheirObject`, the two
assertions of the code (`WaitAssertionsHold`, `UniqueDrawsAssertionHolds`),
`WakeupsAreNotLost` and `BatchesEndAtTheirMarker`.

The safety half of the refinement of `CommandService` is `TransportServesInOrder`. It needs
three more facts (draw callbacks run only while the server draws, a disconnect is the last
thing executed, and `OwnObject` for the payload of a draw) and what `CommandsOf`, the stream
without its markers, makes of an appended and of a removed element. Then recording the plain
data is `Submit`, executing a case is `Serve`, running a callback is `Show`, and the rest,
`Pop` and the markers included, is a stutter.

`ServerResources_proofs`. `IInv`: types, `DependenciesOfLive`, that no handle is in two
vectors (`OneOwner`), and that each live artboard or machine is in the vector of a live
owner (`Owned`). `NoOrphans` needs the last two together: a deletion removes an owner,
and what it owned must be removed by the same step, through vectors that also hold
handles deleted before. With it every command maps to a step of `ResourceTree` or to none
(`ServerImplementsTree`). The three action properties are about the messages of a step:
`StepSays` states for each kind that ends are reported once, of what was live and is not any
more, that only the live or the new is answered for (`SaysOf`), and that dependents come
first (`InOrder`). It is shown command by command, the cascades with lemmas about
`FlattenSeq` and `cleanupArtboard`, under `MessageInv`, which adds that no vector holds a
handle twice (`VectorsInv`: a report would be repeated) and that what was reported is issued
and not live (`DeletedInv`: `DeletedIsFinal`).

`MessageQueue_proofs` has four parts.

* Listeners. `ListenerInvariant`: registry and handles are inverse to one another on the
  listeners that own a queue. It holds for `Construct`, `Instantiate`, `Move` and `Destroy`
  under `~ListReferences`; with `referenceListViewModelInstance` it is false (see below). From
  it `ListenersSafe` and `OnlyLiveListenersCalled`.
* Format. `FormatsAgree`: for every kind and shape the client takes exactly the fields the
  server has written, from whatever follows them. `ReadPODs` and `WritePODs` are shown to
  give the same sequence branch by branch, lists by comparing them element by element.
* Streams. `QueueInvariant`: the two streams are the concatenation of the fields of the
  messages in `waiting`, but for the names of the one the server is in the middle of. With
  `FormatsAgree` this gives `StreamsStayInStep`, the theorem for `ReadsWhatWasWritten`.
* Markers. `CallsMarked`: as many markers wait as calls are in progress, and what the
  outermost call still owes stands before one of them. It counts markers because no marker
  can be given to a call: nested calls take those of the calls around them. From it
  `OutermostCallConsumesAll`, and `EveryCallEndsAtMarker`: the loop's test for an empty stream
  never ends a call.

`WindowsRenderer_proofs`. `Standing` is the invariant, under `~RemoveEarly`: where the
two threads can be for each value of the index (`Protocol`), that a sleeper either has to
sleep or is about to be woken (`Sleepers`), which thread has the texture in flight
(`InFlight`), and the arithmetic that ties frame numbers, fence values and the GPU's
progress together (`Frames`, `Finished`). None of these is inductive without the others:
that the presented frame is finished needs the value waited for to be the frame's number,
which needs the index unchanged while the waiting thread works, which needs the UI thread
to have waited. Each action has one lemma with one step per conjunct. From `Standing`
follow the safety properties of the run, `EveryFrameInTurn` as an action property, and
three facts that are only proved: that `end()` always finds a free texture, the assertion
in `end()`, and that the two threads never sleep at once.

`GpuResources_proofs`. `IInv`: types; that safe frames have been executed (`FramesInOrder`)
and only frames flushed and not executed refer to anything (`UsesInFlight`); that the queues
are in the order of release with nothing safe left in the purgatory (`NumberedInOrder`); and
`UsesAreKept`: what frame `f` refers to is held, or waits in a queue with a number of at
least `f`. That last part is what makes `NothingInUseIsDeleted` inductive: to be alive is not
enough, the number must be high enough for the next flush as well. It needs `PoolGoesLast`,
because the render buffer's pool is deleted with all that it holds, and its own number in the
purgatory must not be lower than any inside. The lemmas about queues (what an appended, popped
or recycled queue keeps) carry the proof, with one lemma per action. From it:
`TypeCorrectness`, `NothingInUseIsEverDeleted`, `PurgatoryIsNeverLate`, for any number of
resources, images and frames and any size of the pools. `NothingInUseIsEverRewritten` needs
`OnePlace` besides: no object is held and waiting, in two queues, or twice in one. Otherwise
the copy that comes out of the pool could be safe while another is in use.

`AsyncPipelines_proofs`. `IInv`: types, `EachJobInOnePlace`, `ShaderBuiltOnce` and two facts
that make them inductive: the render thread, where it may store a pipeline, is at an entry
that nobody waits for (`RenderOwnsItsEntry`), and the polled back end, which alone clears the
cache, has no background thread (`PolledHasNoThread`). Most steps touch neither jobs nor shaders
and share two lemmas (`RenderGoes`, `OnlyLabels`); those that do have one each. From it:
`TypeCorrectness`, `NoJobIsLost`, `ShadersAreSharedSafely`, for any pipelines, shaders and modes.
`PipelinesImplementCache` is the refinement of `PipelineCache`, which has no fairness and is
proved as a whole. Its invariant adds `FallbackInv`: an ubershader is never built on the background thread, and
while the render thread tries the ubershader in place of the pipeline it was asked for, that
pipeline is not usable.

`ArtboardUpdate_proofs`. First the operators. `ComponentsAreSorted`: the sorter gives each
component once and before its dependents, for every scene without a cycle, by induction over
a depth that `Acyclic` gives to every component. `Spread` and `CollapsedBy` are recursive
functions with as many steps as there are components; that they have then reached a fixed
point is a pigeonhole argument, since each step but the last adds a component. Then the
invariant. `IInv`: types, that order and dependents belong to the scene (`Graph`), that what
is collapsed is what the solos ask for (`CollapseFollows`), that a dirty transform has a
dirty world transform (`WorldFollows`), that what the loop has behind it is clean
(`VisitedAreClean`), that a clean artboard has clean components (`AllAreClean`), that steps
are counted (`VisitsAreCounted`), and `DirtIsClosed`: whatever depends on a component that
waits for its world transform waits, too. This one is the heart. `addDirt` stops where it
finds the flag set, so it reaches everything below only if everything below the flag is
flagged already. From `IInv`: `ComponentsUpdateInTurn`. `UpdatesEndInTime` (for
`MaxSteps > 1`; the code has 100) adds `JoystickSettles`: the joystick can ask for a second
step and not for a third. `NothingShownIsStale`, with the exceptions of `NothingStale`, adds that each value that is not marked is the
one its inputs give (`TransformKept`, `WorldKept`, `PoseKept`), for which a step that changes
an input must mark everything computed from it.

`StateMachine_proofs`. `IInv`: types, and `Owned`, which is `InstancesOwned` said cell by
cell: the pointers of a layer are different, and exactly the cells they point to are in use.
A change of state deletes one or two of them and makes one; which, depends on whether a
transition was under way (`TakeEffect`).
`Settled` says, for each point of a frame, what is known of the layers that have had their
turn: they have used the trigger (`TriggersUsed`), and if none has asked for another frame
they need none (`LayersSettled`, and so on to the end of the frame through the inputs and nested
events, `NestedSettled`, `TriesSettled`, `FrameSettled`). From it `HostStopsWhenSettled`, which
says no more than `StopsWhenSettled` and shares its exceptions, and `NoTriggerIsMissed`, for any machine of any number of layers, states and transitions and any
limits.

Induction. The theorems of the library that take a predicate cannot be used with these
provers. What is proved by induction here is put as a set of numbers that has 0 and is closed
under successor (`SetInduction`, from the well-foundedness of the natural numbers and
`WFMin`), and of a recursive function it is first shown that it exists. Operators that
the library declares RECURSIVE stay closed to the provers; none of the proofs depends on
one.

Only model-checked: liveness (`DrawsAreReached`, `ProcessMessagesReturns`, `EndReturns`,
`DestructionEnds`, `PipelinesArrive`, `ShutdownEnds`, `TransitionsEnd`, and in
`ImplementsService` that all commands are executed and all draws run), because fairness and
`ENABLED` are beyond the prover. Nothing is proved about `ListReferences = TRUE`,
`RemoveEarly = TRUE` and constraints on solos, for which the properties are false.

The types of `CommandTransport`, `ServerResources`, `WindowsRenderer` and `GpuResources` are
proved and not checked again by a run.

## Where the code disagrees with itself

* `message_list_reference`: `referenceListViewModelInstance` stores the handle of the list's
  owner in the listener and registers it under the new handle. Its destructor removes the
  owner's registration, and its own stays behind as a dangling pointer.
* `windows_remove_assert`: `~WindowsContextPLS` asserts that no frame is in flight, and
  nothing waits for the last one before `removeTexture`. In a build without assertions the
  waiting thread resets the index that should tell it to terminate and `join` hangs:
  `DestructionEnds` fails with `RemoveEarly = TRUE`.
* `artboard_solo_target`: the target of a constraint is a solo. `transform_component.cpp:35` marks a constrained component when its
  target changes its collapse status. A solo is a target, too, but `Solo::collapse` calls
  `Component::collapse` and passes by `TransformComponent::collapse`, so that what is
  constrained to a solo that another solo switches off or on is not marked and keeps the
  transform it had.

Noted while modelling and not checked by a run:

* The comment at `command_queue.cpp:1005` says the marker keeps `processMessages` from looping
  for ever. When a callback calls it again, the inner call ends at the marker of the outer one
  and the outer call goes on to that of the inner, behind what arrived in between; an inner
  call does not "consume all messages received" (`command_queue.hpp:630`). `ConsumesAllReceived`
  is therefore stated of the outermost call only.
* `gpu_resource.cpp:30` asserts that safe frame numbers never go back. With images that come
  back out of order (the mailbox and immediate modes of the sample swapchain) they do; the code
  is right nevertheless, since an older number only keeps things longer, and the runs and proofs
  of `GpuResources` include it.
* `viewModelEnumsListed` is moved into the global listener's argument before the handle's
  listener gets it; handle counters are not protected by the mutex that protects the streams;
  `setViewModelInstanceArtboard` keeps a raw pointer to an artboard that may be deleted; some
  failures are reported to the wrong kind of listener or not at all; the waiting thread and the
  UI thread of the Windows renderer use one immediate D3D11 context.

## What is not modelled

In the modelled components: the payload of commands, replies and callbacks; the testing
entry points; data races as such (two threads in a handle counter, the raster thread in
the pixel buffer, `g_pixelBacking` shared by several render textures); failing device
calls; Flutter's side of the texture registry. A call through a dangling listener is
modelled as one that returns.

In `GpuResources`: a resource whose destructor releases others, and D3D12's polled fence. In
`AsyncPipelines`: the Metal renderer's compiler thread, which is of the same kind. In
`ArtboardUpdate`: dependency cycles, data binds, layout, skins and followers of paths. In
`StateMachine`: blend states, conditions on view models, keyed callbacks, pointer listeners,
animations that play backwards or to and fro, and what is drawn.

Components without a module, with the reason, are listed in `PROJECT.json`. In short:
not yet (the plan below), numeric or parsing code with no concurrency (layout, geometry,
text, import, data binding), wrappers (Dart, FFI, Android, web), and code whose behaviour
lies in a library or driver that is not in the repository (GPU back ends, audio engine,
scripting VM). Most lines of the repository are of these kinds, shaders, generated
bindings or vendored headers.

## Plan

In order of importance:

1. `Subscriptions`: subscribe, unsubscribe and `checkPropertySubscriptions`, with the one
   changed flag per property that several subscriptions share, and instances deleted
   under a subscription. Runs after a batch, so it composes with `ServerResources`.
   Question: is every change reported to someone, and nothing after the deletion?
2. `GlobalAssets`: decode, external and delete commands for images, audio and fonts, the
   name maps of `CommandFileAssetLoader`, what a file load finds in them.
3. `TextureRing`: the three-texture ring of macOS and iOS with its three users.

Proofs to add: the same for these modules as they come: types, the safety invariants of their
runs with the strengthening they need, and refinements. Of the present modules only liveness
is open.
