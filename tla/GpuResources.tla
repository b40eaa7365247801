----------------------------- MODULE GpuResources -----------------------------
(* How long the objects a GPU command buffer refers to are kept.  A resource *)
(* whose last reference goes waits in the purgatory of GPUResourceManager    *)
(* (renderer/src/gpu_resource.cpp), buffers that are written anew for every  *)
(* use wait in pools; both until a frame number is safe.  The frame numbers  *)
(* come from the swapchain of rive_vk_bootstrap.cpp, which waits for the     *)
(* fence of an image before it hands it out, in the order the presentation   *)
(* engine likes, while the GPU executes the frames in the order submitted.   *)
(*                                                                           *)
(* One thread renders; the GPU and the presentation engine run beside it.    *)
(* A pool of buffers for the flush and one render buffer with a pool of its  *)
(* own stand for all of them.                                                *)
EXTENDS Integers, Sequences, FiniteSets

CONSTANTS
    Resources,     \* addresses of the GPU resources
    BufferPool,    \* the pool of the render buffer, a resource, too
    Images,        \* the images of the swapchain
    None,          \* no image, no resource
    MaxPoolCount,  \* m_maxPoolCount
    MaxFrames      \* bound: frames begun

ASSUME GpuResourcesAssumption ==
    /\ MaxPoolCount \in Nat
    /\ MaxFrames \in Nat
    /\ BufferPool \notin Resources
    /\ None \notin Resources \cup Images \cup {BufferPool}

ShutdownFrameNumber == MaxFrames + 1   \* SHUTDOWN_FRAME_NUMBER, the greatest
Frames == 0 .. MaxFrames

VARIABLES
    currentFrame,  \* m_currentFrameNumber of the resource manager
    safeFrame,     \* m_safeFrameNumber of the resource manager
    purgatory,     \* m_resourcePurgatory
    pool,          \* m_pool of the flush's pool and of the render buffer's
    held,          \* the resources with a reference left
    mapped,        \* m_currentBuffer of the render buffer
    swapFrame,     \* m_currentFrameNumber of the swapchain
    imageFrame,    \* currentFrameNumber of every image
    imageSafe,     \* safeFrameNumber of the image in use
    image,         \* the image in use between acquireNextImage and submit
    queued,        \* the image presented last, if it has not been shown yet
    shown,         \* the image on the screen
    gpuFrame,      \* the GPU has executed the frames up to this one
    uses           \* frame not executed yet -> what its commands refer to

managerVars == <<currentFrame, safeFrame, purgatory, pool, held, mapped>>
swapVars == <<swapFrame, imageFrame, imageSafe, image, queued, shown>>
vars == <<managerVars, swapVars, gpuFrame, uses>>

Zombie(r, frame) == [resource |-> r, lastFrame |-> frame]
Waiting(queue) == {queue[i].resource : i \in DOMAIN queue}

\* Every object that has not been deleted.
Live == held \cup Waiting(purgatory)
             \cup Waiting(pool.flush) \cup Waiting(pool.buffer)

Init ==
    /\ currentFrame = 0
    /\ safeFrame = 0
    /\ purgatory = <<>>
    /\ pool = [flush |-> <<>>, buffer |-> <<>>]
    /\ held = {}
    /\ mapped = None
    /\ swapFrame = 0
    /\ imageFrame = [i \in Images |-> 0]
    /\ imageSafe = 0
    /\ image = None
    /\ queued = None
    /\ shown = None
    /\ gpuFrame = 0
    /\ uses = [f \in Frames |-> {}]

(***************************************************************************)
(* GPUResourceManager and GPUResourcePool                                  *)
(***************************************************************************)

\* A bug of this kind: the loop goes one frame too far.
PoppedTooMany(queue, safe, keep, n) ==
    /\ n \in 0 .. Len(queue)
    /\ \A i \in 1 .. n :
          queue[i].lastFrame <= safe + 1 /\ Len(queue) - i >= keep
    /\ Len(queue) - n > keep => queue[n + 1].lastFrame > safe + 1

\* A bug of this kind: the loop stops one frame too early.
PoppedTooFew(queue, safe, keep, n) ==
    /\ n \in 0 .. Len(queue)
    /\ \A i \in 1 .. n : queue[i].lastFrame < safe /\ Len(queue) - i >= keep
    /\ Len(queue) - n > keep => queue[n + 1].lastFrame >= safe

\* n is the number of zombies a loop takes off the front of a queue: while there
\* are more than keep and the frame of the first is safe.
Popped(queue, safe, keep, n) ==
    /\ n \in 0 .. Len(queue)
    /\ \A i \in 1 .. n : queue[i].lastFrame <= safe /\ Len(queue) - i >= keep
    /\ Len(queue) - n > keep => queue[n + 1].lastFrame > safe

Rest(queue, n) == SubSeq(queue, n + 1, Len(queue))

\* A bug of this kind: the frame kept is the one that is safe already.
AfterReleaseTooEarly(queue, r) ==
    IF currentFrame > safeFrame THEN Append(queue, Zombie(r, safeFrame))
    ELSE queue

\* onRenderingResourceReleased: the manager keeps r, or deletes it at once.
AfterRelease(queue, r) ==
    IF currentFrame > safeFrame THEN Append(queue, Zombie(r, currentFrame))
    ELSE queue

\* A bug of this kind: whatever waits longest is taken.
AcquiredUnsafe(queue, safe) ==
    IF queue # <<>>
    THEN {[buffer |-> Head(queue).resource, rest |-> Tail(queue)]}
    ELSE {[buffer |-> r, rest |-> queue] : r \in Resources \ Live}

\* GPUResourcePool::acquire takes the oldest buffer if its frame is safe and
\* trims the pool behind it; the pools built on it make a new buffer if not.
Acquired(queue, safe) ==
    IF queue # <<>> /\ Head(queue).lastFrame <= safe
    THEN {[buffer |-> Head(queue).resource, rest |-> Rest(Tail(queue), n)] :
             n \in {m \in 0 .. Len(queue) :
                       Popped(Tail(queue), safe, MaxPoolCount, m)}}
    ELSE {[buffer |-> r, rest |-> queue] : r \in Resources \ Live}

\* GPUResourcePool::recycle
Recycle(queue, r, frame) == Append(queue, Zombie(r, frame))

(***************************************************************************)
(* The program                                                             *)
(***************************************************************************)

Running == currentFrame # ShutdownFrameNumber

\* A resource is made, and later its last reference goes.
Create(r) ==
    /\ Running
    /\ r \in Resources \ Live
    /\ held' = held \cup {r}
    /\ UNCHANGED <<currentFrame, safeFrame, purgatory, pool, mapped, swapVars,
                   gpuFrame, uses>>

Release(r) ==
    /\ r \in held \ {BufferPool, mapped}
    /\ held' = held \ {r}
    /\ purgatory' = AfterRelease(purgatory, r)
    /\ UNCHANGED <<currentFrame, safeFrame, pool, mapped, swapVars, gpuFrame,
                   uses>>

\* RenderBufferVulkanImpl: its constructor makes the pool ...
MakeRenderBuffer ==
    /\ Running
    /\ BufferPool \notin Live
    /\ held' = held \cup {BufferPool}
    /\ UNCHANGED <<currentFrame, safeFrame, purgatory, pool, mapped, swapVars,
                   gpuFrame, uses>>

\* ... onMap lets the current buffer go into it and takes another ...
MapRenderBuffer ==
    /\ Running
    /\ BufferPool \in held
    /\ \E a \in Acquired(IF mapped = None THEN pool.buffer
                         ELSE Recycle(pool.buffer, mapped, currentFrame),
                         safeFrame) :
          /\ mapped' = a.buffer
          /\ pool' = [pool EXCEPT !.buffer = a.rest]
          /\ held' = (held \ {mapped}) \cup {a.buffer}
    /\ UNCHANGED <<currentFrame, safeFrame, purgatory, swapVars, gpuFrame, uses>>

\* ... and its members go in the opposite order: the buffer, then the pool, which
\* takes what it holds along when it is deleted.
DeleteRenderBuffer ==
    /\ BufferPool \in held
    /\ held' = held \ {BufferPool, mapped}
    /\ mapped' = None
    /\ purgatory' = AfterRelease(IF mapped = None THEN purgatory
                                 ELSE AfterRelease(purgatory, mapped), BufferPool)
    /\ pool' = IF currentFrame > safeFrame THEN pool
               ELSE [pool EXCEPT !.buffer = <<>>]
    /\ UNCHANGED <<currentFrame, safeFrame, swapVars, gpuFrame, uses>>

\* prepareToFlush advances the frame number and takes a buffer from the pool, the
\* commands refer to it and to whatever the program draws with, and postFlush
\* returns it.  A frame may be flushed more than once.
Flush ==
    /\ image # None
    /\ Running
    /\ currentFrame' = swapFrame
    /\ safeFrame' = imageSafe
    /\ \E n \in 0 .. Len(purgatory), a \in Acquired(pool.flush, imageSafe),
          drawn \in SUBSET (held \ {BufferPool}) :
          /\ Popped(purgatory, imageSafe, 0, n)
          /\ purgatory' = Rest(purgatory, n)
          /\ pool' = [flush |-> Recycle(a.rest, a.buffer, swapFrame),
                      buffer |-> IF BufferPool \in Waiting(SubSeq(purgatory, 1, n))
                                 THEN <<>> ELSE pool.buffer]
          /\ uses' = [uses EXCEPT ![swapFrame] = @ \cup drawn \cup {a.buffer}]
    /\ UNCHANGED <<held, mapped, swapVars, gpuFrame>>

\* ~RenderContextVulkanImpl, when the swapchain has been destroyed and with it
\* every command buffer has finished: all that waits is deleted, the pools of
\* the flush included.
Shutdown ==
    /\ Running
    /\ image = None
    /\ gpuFrame = swapFrame
    /\ currentFrame' = ShutdownFrameNumber
    /\ safeFrame' = ShutdownFrameNumber
    /\ purgatory' = <<>>
    /\ pool' = [flush |-> <<>>,
                buffer |-> IF BufferPool \in Waiting(purgatory) THEN <<>>
                           ELSE pool.buffer]
    /\ UNCHANGED <<held, mapped, swapVars, gpuFrame, uses>>

(***************************************************************************)
(* The swapchain, the GPU and the presentation engine                      *)
(***************************************************************************)

\* Swapchain::acquireNextImage gets an image that is neither on the screen nor
\* about to be, waits for its fence and numbers the frame.
AcquireNextImage(i) ==
    /\ Running
    /\ image = None
    /\ i \notin {queued, shown}
    /\ imageFrame[i] <= gpuFrame
    /\ swapFrame < MaxFrames
    /\ image' = i
    /\ imageSafe' = imageFrame[i]
    /\ swapFrame' = swapFrame + 1
    /\ imageFrame' = [imageFrame EXCEPT ![i] = swapFrame + 1]
    /\ UNCHANGED <<managerVars, queued, shown, gpuFrame, uses>>

\* end flushes once more, and Swapchain::submit queues the commands and presents
\* the image, in the place of one that has not been shown yet
\* (VK_PRESENT_MODE_MAILBOX_KHR).
Submit ==
    /\ image # None
    /\ currentFrame = swapFrame
    /\ image' = None
    /\ queued' = image
    /\ UNCHANGED <<managerVars, swapFrame, imageFrame, imageSafe, shown, gpuFrame,
                   uses>>

\* onSizeChanged, between two frames: ~Swapchain waits for the queue to be idle,
\* and the next swapchain goes on counting.
Resize ==
    /\ Running
    /\ image = None
    /\ gpuFrame = swapFrame
    /\ imageFrame' = [i \in Images |-> swapFrame]
    /\ queued' = None
    /\ shown' = None
    /\ UNCHANGED <<managerVars, swapFrame, imageSafe, image, gpuFrame, uses>>

\* The queue executes the frames in the order submitted and signals their fences.
GpuExecutesFrame ==
    /\ gpuFrame < (IF image = None THEN swapFrame ELSE swapFrame - 1)
    /\ gpuFrame' = gpuFrame + 1
    /\ uses' = [uses EXCEPT ![gpuFrame + 1] = {}]
    /\ UNCHANGED <<managerVars, swapVars>>

\* The screen turns to the image presented last.
ShowQueued ==
    /\ queued # None
    /\ shown' = queued
    /\ queued' = None
    /\ UNCHANGED <<managerVars, swapFrame, imageFrame, imageSafe, image, gpuFrame,
                   uses>>

Next ==
    \/ \E r \in Resources : Create(r) \/ Release(r)
    \/ MakeRenderBuffer \/ MapRenderBuffer \/ DeleteRenderBuffer
    \/ Flush \/ Shutdown
    \/ \E i \in Images : AcquireNextImage(i)
    \/ Submit \/ Resize
    \/ GpuExecutesFrame \/ ShowQueued

Spec == Init /\ [][Next]_vars

(***************************************************************************)
(* Properties                                                              *)
(***************************************************************************)

\* What the commands not executed yet refer to.
InUse == UNION {uses[f] : f \in Frames}

ZombieType(objects) == [resource : objects, lastFrame : Frames]

\* Every variable holds a value the code can store in it.
TypeOK ==
    /\ currentFrame \in Frames \cup {ShutdownFrameNumber}
    /\ safeFrame \in Frames \cup {ShutdownFrameNumber}
    /\ purgatory \in Seq(ZombieType(Resources \cup {BufferPool}))
    /\ pool \in [{"flush", "buffer"} -> Seq(ZombieType(Resources))]
    /\ held \subseteq Resources \cup {BufferPool}
    /\ mapped \in (held \ {BufferPool}) \cup {None}
    /\ swapFrame \in Frames
    /\ imageFrame \in [Images -> 0 .. swapFrame]
    /\ imageSafe \in 0 .. swapFrame
    /\ {image, queued, shown} \subseteq Images \cup {None}
    /\ gpuFrame \in 0 .. swapFrame
    /\ uses \in [Frames -> SUBSET Resources]

\* "hold off on deleting until its safe frame number has been reached": whatever
\* a command buffer refers to that the GPU has not executed yet is still there,
\* though the number kept for it is that of its release and the safe number is
\* that of one image of the swapchain.
NothingInUseIsDeleted == InUse \subseteq Live

\* A buffer that is written for a flush or by a map is not one the GPU may still
\* read: pools recycle a buffer only when its safe frame number is reached.
NothingInUseIsRewritten ==
    [][/\ mapped' \notin {mapped, None} => mapped' \notin InUse
       /\ pool'.flush # pool.flush /\ pool'.flush # <<>> =>
            pool'.flush[Len(pool'.flush)].resource \notin InUse]_vars

\* Purgatory is emptied from the front only, as far as the frames are safe; no
\* zombie whose frame is safe stays behind one whose frame is not, and nothing
\* stays after the shutdown (the assertion of ~GPUResourceManager).
NothingOverstays ==
    \A i \in DOMAIN purgatory : purgatory[i].lastFrame > safeFrame

=============================================================================
