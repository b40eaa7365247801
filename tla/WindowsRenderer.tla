---------------------------- MODULE WindowsRenderer ----------------------------
(* How a frame gets to the screen on Windows.  The UI thread draws into a     *)
(* texture of a swapchain and hands it to a thread that waits for the GPU     *)
(* (native/platform/windows/rive_native_windows.cpp); that thread presents    *)
(* the texture and copies it to the CPU buffer Flutter takes its pixels from  *)
(* (windows/rive_native_plugin.cpp), then asks for the next one.  Where the   *)
(* device has no fences the UI thread does it all itself.  Both threads wait  *)
(* on one condition variable, which each of them notifies once.               *)
(*                                                                            *)
(* Each critical section of m_fenceWaitMutex and of the swapchain's mutex is  *)
(* one step, and so is every access to m_activeFenceWaitIndex, which the      *)
(* waiting thread reads outside the mutex.                                    *)
EXTENDS Naturals, Sequences

CONSTANTS
    RemoveEarly,      \* TRUE when removeTexture may come with a frame in flight
    NoTexture,        \* a std::unique_ptr that is null
    Terminate,        \* THREAD_TERMINATE_INDEX
    MaxFrames         \* bound: frames drawn with one render texture

ASSUME RendererAssumption ==
    /\ RemoveEarly \in BOOLEAN
    /\ NoTexture \notin Nat
    /\ Terminate \notin Nat
    /\ MaxFrames \in Nat

Textures == 1 .. 4
Threads == {"ui", "fence"}

VARIABLES
    pc,                    \* where each of the two threads is
    waiters,               \* the threads asleep on m_fenceWaitCond
    activeFenceWaitIndex,  \* m_activeFenceWaitIndex
    lastFrameIndex,        \* m_lastFrameIndex, signalled to m_lastFrameFence
    lastFrameTexture,      \* m_lastFrameTexture
    target,                \* swapchainTexture, local to end()
    waitIndex,             \* the fence value SetEventOnCompletion waits for
    presentingTexture,     \* m_presentingTexture
    renderTextures,        \* m_renderTextures
    fences,                \* m_lastFrameFence # nullptr: the device has ID3D11Device5
    drawn,                 \* frames flushed to the GPU
    gpuDone,               \* frames the GPU has finished
    frameOf,               \* the last frame drawn into each texture
    pixels,                \* the frame in the CPU buffer of g_pixelBacking
    backing                \* TRUE while g_pixelBacking has the buffer

vars == <<pc, waiters, activeFenceWaitIndex, lastFrameIndex, lastFrameTexture,
          target, waitIndex, presentingTexture, renderTextures, fences, drawn,
          gpuDone, frameOf, pixels, backing>>

syncVars == <<waiters, activeFenceWaitIndex>>
frameVars == <<lastFrameIndex, lastFrameTexture, target, waitIndex>>
swapchainVars == <<presentingTexture, renderTextures>>
gpuVars == <<fences, drawn, gpuDone, frameOf>>
pixelVars == <<pixels, backing>>

FenceThreadStart == IF fences THEN "check" ELSE "exited"

\* A render texture as createTexture leaves it.
Init ==
    /\ fences \in BOOLEAN
    /\ pc = [ui |-> "idle", fence |-> FenceThreadStart]
    /\ waiters = {}
    /\ activeFenceWaitIndex = 0
    /\ lastFrameIndex = 0
    /\ lastFrameTexture = NoTexture
    /\ target = NoTexture
    /\ waitIndex = 0
    /\ presentingTexture = 1
    /\ renderTextures = <<2, 3, 4>>
    /\ drawn = 0
    /\ gpuDone = 0
    /\ frameOf = [t \in Textures |-> 0]
    /\ pixels = 0
    /\ backing = TRUE

Goto(t, label) == pc' = [pc EXCEPT ![t] = label]

\* Where a thread goes on when it wakes up: it tests its condition again.
Retest(t) == IF t = "ui" THEN "waitPrevious" ELSE "check"

\* wait: the mutex is released and the thread asleep in one step.
Sleep(t) == waiters' = waiters \cup {t} /\ Goto(t, "asleep")

\* notify_one by thread t, which then goes on at label.
NotifyOne(t, label) ==
    \/ waiters = {} /\ Goto(t, label) /\ UNCHANGED waiters
    \/ \E w \in waiters :
        /\ waiters' = waiters \ {w}
        /\ pc' = [pc EXCEPT ![t] = label, ![w] = Retest(w)]

SpuriousWakeup(t) ==
    /\ t \in waiters
    /\ waiters' = waiters \ {t}
    /\ Goto(t, Retest(t))
    /\ UNCHANGED <<activeFenceWaitIndex, frameVars, swapchainVars, gpuVars, pixelVars>>

(***************************************************************************)
(* The UI thread: end()                                                    *)
(***************************************************************************)

BeginEnd ==
    /\ pc["ui"] = "idle"
    /\ drawn < MaxFrames
    /\ Goto("ui", "acquire")
    /\ UNCHANGED <<syncVars, frameVars, swapchainVars, gpuVars, pixelVars>>

\* Blocks while every texture is in use.
AcquireRenderTexture ==
    /\ pc["ui"] = "acquire"
    /\ renderTextures # <<>>
    /\ target' = Head(renderTextures)
    /\ renderTextures' = Tail(renderTextures)
    /\ Goto("ui", "flush")
    /\ UNCHANGED <<syncVars, lastFrameIndex, lastFrameTexture, waitIndex,
                   presentingTexture, gpuVars, pixelVars>>

\* A bug of this kind: the previous frame is not waited for.
FlushWithoutWait ==
    /\ pc["ui"] = "flush"
    /\ drawn' = drawn + 1
    /\ frameOf' = [frameOf EXCEPT ![target] = drawn']
    /\ Goto("ui", IF fences THEN "signal" ELSE "handOver")
    /\ UNCHANGED <<syncVars, frameVars, swapchainVars, fences, gpuDone, pixelVars>>

\* renderContext->flush: the GPU has the frame to draw.
Flush ==
    /\ pc["ui"] = "flush"
    /\ drawn' = drawn + 1
    /\ frameOf' = [frameOf EXCEPT ![target] = drawn']
    /\ Goto("ui", IF ~fences THEN "handOver"
                  ELSE IF lastFrameIndex > 0 THEN "waitPrevious" ELSE "signal")
    /\ UNCHANGED <<syncVars, frameVars, swapchainVars, fences, gpuDone, pixelVars>>

\* Until the previous frame has been presented.
WaitPrevious ==
    /\ pc["ui"] = "waitPrevious"
    /\ IF activeFenceWaitIndex = 0 THEN Goto("ui", "signal") /\ UNCHANGED waiters
       ELSE Sleep("ui")
    /\ UNCHANGED <<activeFenceWaitIndex, frameVars, swapchainVars, gpuVars, pixelVars>>

Signal ==
    /\ pc["ui"] = "signal"
    /\ lastFrameIndex' = lastFrameIndex + 1
    /\ Goto("ui", "handOver")
    /\ UNCHANGED <<syncVars, lastFrameTexture, target, waitIndex, swapchainVars,
                   gpuVars, pixelVars>>

\* A bug of this kind: the texture is kept for the next frame too.
HandOverKept ==
    /\ pc["ui"] = "handOver"
    /\ lastFrameTexture' = target
    /\ Goto("ui", IF fences THEN "kick" ELSE "query")
    /\ UNCHANGED <<syncVars, lastFrameIndex, target, waitIndex, swapchainVars,
                   gpuVars, pixelVars>>

\* m_lastFrameTexture = std::move(swapchainTexture): what was in it is destroyed.
HandOver ==
    /\ pc["ui"] = "handOver"
    /\ lastFrameTexture' = target
    /\ target' = NoTexture
    /\ Goto("ui", IF fences THEN "kick" ELSE "query")
    /\ UNCHANGED <<syncVars, lastFrameIndex, waitIndex, swapchainVars, gpuVars, pixelVars>>

Kick ==
    /\ pc["ui"] = "kick"
    /\ activeFenceWaitIndex' = lastFrameIndex
    /\ Goto("ui", "notifyFence")
    /\ UNCHANGED <<waiters, frameVars, swapchainVars, gpuVars, pixelVars>>

NotifyFence ==
    /\ pc["ui"] = "notifyFence"
    /\ NotifyOne("ui", "idle")
    /\ UNCHANGED <<activeFenceWaitIndex, frameVars, swapchainVars, gpuVars, pixelVars>>

\* Without fences, the completion query is polled.
PollQuery ==
    /\ pc["ui"] = "query"
    /\ gpuDone = drawn
    /\ Goto("ui", "present")
    /\ UNCHANGED <<syncVars, frameVars, swapchainVars, gpuVars, pixelVars>>

(***************************************************************************)
(* Presenting, on the thread that waited for the GPU                       *)
(***************************************************************************)

\* A bug of this kind: the frame's pixels are copied, then it is presented.
PresentAfterCopy(t) ==
    /\ pc[t] = "present"
    /\ pixels' = IF backing THEN frameOf[presentingTexture] ELSE pixels
    /\ renderTextures' = Append(renderTextures, presentingTexture)
    /\ presentingTexture' = lastFrameTexture
    /\ lastFrameTexture' = NoTexture
    /\ Goto(t, IF t = "ui" THEN "idle" ELSE "reset")
    /\ UNCHANGED <<syncVars, lastFrameIndex, target, waitIndex, gpuVars, backing>>

\* presentTexture: the texture shown so far can be drawn into again.
PresentTexture(t) ==
    /\ pc[t] = "present"
    /\ renderTextures' = Append(renderTextures, presentingTexture)
    /\ presentingTexture' = lastFrameTexture
    /\ lastFrameTexture' = NoTexture
    /\ Goto(t, "callback")
    /\ UNCHANGED <<syncVars, lastFrameIndex, target, waitIndex, gpuVars, pixelVars>>

\* m_rendererEndCallback, RiveNativeRenderTexture::end(): the presenting texture
\* is copied to the CPU buffer under the swapchain's mutex.
End(t) ==
    /\ pc[t] = "callback"
    /\ pixels' = IF backing THEN frameOf[presentingTexture] ELSE pixels
    /\ Goto(t, IF t = "ui" THEN "idle" ELSE "reset")
    /\ UNCHANGED <<syncVars, frameVars, swapchainVars, gpuVars, backing>>

(***************************************************************************)
(* The waiting thread: fenceWaitThread()                                   *)
(***************************************************************************)

WaitForFrame ==
    /\ pc["fence"] = "check"
    /\ IF activeFenceWaitIndex # 0 THEN Goto("fence", "test") /\ UNCHANGED waiters
       ELSE Sleep("fence")
    /\ UNCHANGED <<activeFenceWaitIndex, frameVars, swapchainVars, gpuVars, pixelVars>>

TestTerminate ==
    /\ pc["fence"] = "test"
    /\ Goto("fence", IF activeFenceWaitIndex = Terminate THEN "exited" ELSE "arm")
    /\ UNCHANGED <<syncVars, frameVars, swapchainVars, gpuVars, pixelVars>>

\* The argument of SetEventOnCompletion, read once more.
ArmFence ==
    /\ pc["fence"] = "arm"
    /\ waitIndex' = activeFenceWaitIndex
    /\ Goto("fence", "waitGpu")
    /\ UNCHANGED <<syncVars, lastFrameIndex, lastFrameTexture, target,
                   swapchainVars, gpuVars, pixelVars>>

\* A bug of this kind: the fence is not waited for.
PresentAtOnce ==
    /\ pc["fence"] = "waitGpu"
    /\ Goto("fence", "present")
    /\ UNCHANGED <<syncVars, frameVars, swapchainVars, gpuVars, pixelVars>>

\* The fence reaches the value; it never reaches THREAD_TERMINATE_INDEX.
FenceCompletes ==
    /\ pc["fence"] = "waitGpu"
    /\ waitIndex # Terminate
    /\ gpuDone >= waitIndex
    /\ Goto("fence", "present")
    /\ UNCHANGED <<syncVars, frameVars, swapchainVars, gpuVars, pixelVars>>

\* Whatever the index is by now.
Reset ==
    /\ pc["fence"] = "reset"
    /\ activeFenceWaitIndex' = 0
    /\ Goto("fence", "notify")
    /\ UNCHANGED <<waiters, frameVars, swapchainVars, gpuVars, pixelVars>>

\* A bug of this kind: the UI thread is not told.
NotifyUIDropped ==
    /\ pc["fence"] = "notify"
    /\ Goto("fence", "check")
    /\ UNCHANGED <<syncVars, frameVars, swapchainVars, gpuVars, pixelVars>>

NotifyUI ==
    /\ pc["fence"] = "notify"
    /\ NotifyOne("fence", "check")
    /\ UNCHANGED <<activeFenceWaitIndex, frameVars, swapchainVars, gpuVars, pixelVars>>

(***************************************************************************)
(* The GPU, removeTexture and createTexture                                *)
(***************************************************************************)

GpuCompletesFrame ==
    /\ gpuDone < drawn
    /\ gpuDone' = gpuDone + 1
    /\ UNCHANGED <<pc, syncVars, frameVars, swapchainVars, fences, drawn, frameOf,
                   pixelVars>>

\* removeTexture deletes the render texture, whose destructor destroys the
\* renderer first.
RemoveTexture ==
    /\ pc["ui"] = "idle"
    /\ RemoveEarly \/ activeFenceWaitIndex = 0
    /\ Goto("ui", IF fences THEN "terminate" ELSE "erase")
    /\ UNCHANGED <<syncVars, frameVars, swapchainVars, gpuVars, pixelVars>>

TellTerminate ==
    /\ pc["ui"] = "terminate"
    /\ activeFenceWaitIndex' = Terminate
    /\ Goto("ui", "notifyTerminate")
    /\ UNCHANGED <<waiters, frameVars, swapchainVars, gpuVars, pixelVars>>

\* A bug of this kind: the waiting thread is not told.
NotifyTerminateDropped ==
    /\ pc["ui"] = "notifyTerminate"
    /\ Goto("ui", "join")
    /\ UNCHANGED <<syncVars, frameVars, swapchainVars, gpuVars, pixelVars>>

NotifyTerminate ==
    /\ pc["ui"] = "notifyTerminate"
    /\ NotifyOne("ui", "join")
    /\ UNCHANGED <<activeFenceWaitIndex, frameVars, swapchainVars, gpuVars, pixelVars>>

Join ==
    /\ pc["ui"] = "join"
    /\ pc["fence"] = "exited"
    /\ Goto("ui", "erase")
    /\ UNCHANGED <<syncVars, frameVars, swapchainVars, gpuVars, pixelVars>>

ErasePixelBacking ==
    /\ pc["ui"] = "erase"
    /\ backing' = FALSE
    /\ Goto("ui", "removed")
    /\ UNCHANGED <<syncVars, frameVars, swapchainVars, gpuVars, pixels>>

\* The next render texture; nothing of the last one is left.
CreateTexture ==
    /\ pc["ui"] = "removed"
    /\ pc' = [ui |-> "idle", fence |-> FenceThreadStart]
    /\ waiters' = {}
    /\ activeFenceWaitIndex' = 0
    /\ lastFrameIndex' = 0
    /\ lastFrameTexture' = NoTexture
    /\ target' = NoTexture
    /\ waitIndex' = 0
    /\ presentingTexture' = 1
    /\ renderTextures' = <<2, 3, 4>>
    /\ drawn' = 0
    /\ gpuDone' = 0
    /\ frameOf' = [t \in Textures |-> 0]
    /\ pixels' = 0
    /\ backing' = TRUE
    /\ UNCHANGED fences

(***************************************************************************)
(* Specification                                                           *)
(***************************************************************************)

EndStep ==
    \/ AcquireRenderTexture \/ Flush \/ WaitPrevious \/ Signal \/ HandOver
    \/ Kick \/ NotifyFence \/ PollQuery \/ PresentTexture("ui") \/ End("ui")

DestructorStep ==
    TellTerminate \/ NotifyTerminate \/ Join \/ ErasePixelBacking

FenceStep ==
    \/ WaitForFrame \/ TestTerminate \/ ArmFence \/ FenceCompletes
    \/ PresentTexture("fence") \/ End("fence") \/ Reset \/ NotifyUI

Next ==
    \/ BeginEnd \/ EndStep
    \/ RemoveTexture \/ DestructorStep \/ CreateTexture
    \/ FenceStep
    \/ GpuCompletesFrame
    \/ \E t \in Threads : SpuriousWakeup(t)

\* Each thread that can run does, and the GPU finishes what it is given; the
\* application need not draw or remove anything.
Fairness ==
    /\ WF_vars(EndStep)
    /\ WF_vars(DestructorStep)
    /\ WF_vars(FenceStep)
    /\ WF_vars(GpuCompletesFrame)

Spec == Init /\ [][Next]_vars /\ Fairness

(***************************************************************************)
(* Properties                                                              *)
(***************************************************************************)

UIPoints ==
    {"idle", "acquire", "flush", "waitPrevious", "asleep", "signal", "handOver",
     "kick", "notifyFence", "query", "present", "callback", "terminate",
     "notifyTerminate", "join", "erase", "removed"}
FencePoints ==
    {"check", "asleep", "test", "arm", "waitGpu", "present", "callback", "reset",
     "notify", "exited"}

\* Type invariant.
TypeOK ==
    /\ pc \in [Threads -> UIPoints \cup FencePoints]
    /\ pc["ui"] \in UIPoints
    /\ pc["fence"] \in FencePoints
    /\ waiters = {t \in Threads : pc[t] = "asleep"}
    /\ activeFenceWaitIndex \in Nat \cup {Terminate}
    /\ waitIndex \in Nat \cup {Terminate}
    /\ lastFrameIndex \in Nat
    /\ lastFrameTexture \in Textures \cup {NoTexture}
    /\ target \in Textures \cup {NoTexture}
    /\ presentingTexture \in Textures
    /\ renderTextures \in Seq(Textures)
    /\ fences \in BOOLEAN
    /\ drawn \in Nat
    /\ gpuDone \in 0 .. drawn
    /\ frameOf \in [Textures -> Nat]
    /\ pixels \in Nat
    /\ backing \in BOOLEAN

\* The two threads are never asleep together, so notify_one wakes the thread
\* that can go on, although both wait on one condition variable.
OneSleeper == waiters # Threads

\* assert(m_activeFenceWaitIndex == 0) in end(), and m_lastFrameTexture has been
\* presented when the next texture is moved into it: no frame is dropped and the
\* waiting thread never finds its index or its texture replaced under it.
HandOverIsClear ==
    /\ pc["ui"] \in {"signal", "handOver", "kick"} => activeFenceWaitIndex = 0
    /\ pc["ui"] \in {"signal", "handOver"} => lastFrameTexture = NoTexture

Held(texture) == IF texture = NoTexture THEN 0 ELSE 1

\* Every one of the four textures is in exactly one place: shown, free, drawn
\* into, or on its way to be shown.
TexturesConserved ==
    /\ Len(renderTextures) + Held(target) + Held(lastFrameTexture) = 3
    /\ \A i, j \in DOMAIN renderTextures :
          renderTextures[i] = renderTextures[j] => i = j
    /\ \A i \in DOMAIN renderTextures :
          renderTextures[i] \notin {presentingTexture, target, lastFrameTexture}
    /\ presentingTexture \notin {target, lastFrameTexture}
    /\ target = lastFrameTexture => target = NoTexture

\* end() never waits for a texture: three to draw into are enough for one on its
\* way to be shown and the one that is shown until then.
AcquireNeverBlocks == pc["ui"] = "acquire" => renderTextures # <<>>

\* What is shown, and what is in the CPU buffer, is a frame the GPU has finished.
ShownFrameIsComplete ==
    /\ frameOf[presentingTexture] <= gpuDone
    /\ pixels <= gpuDone

\* While no frame is in flight the CPU buffer has the frame that is shown.
PixelsAreShownFrame ==
    (pc["ui"] = "idle" /\ activeFenceWaitIndex = 0)
        => pixels = frameOf[presentingTexture]

\* Frames are shown in the order they were drawn and none is left out, until the
\* next render texture starts anew.
EveryFrameInTurn ==
    [][presentingTexture' # presentingTexture =>
        \/ frameOf'[presentingTexture'] = frameOf[presentingTexture] + 1
        \/ CreateTexture]_vars

\* end() returns, although it waits for the thread that waits for the GPU.
EndReturns == (pc["ui"] = "acquire") ~> (pc["ui"] = "idle")

\* assert(m_activeFenceWaitIndex == 0) in ~WindowsContextPLS.
NothingInFlightAtDestruction ==
    pc["ui"] = "terminate" => activeFenceWaitIndex = 0

\* "Tell m_fenceWaitThread to terminate" (rive_native_windows.cpp:79): the
\* waiting thread does, and the destructor comes to its end.
DestructionEnds == (pc["ui"] = "terminate") ~> (pc["ui"] = "removed")
==============================================================================
