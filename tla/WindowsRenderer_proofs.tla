------------------------ MODULE WindowsRenderer_proofs ------------------------
(* Theorems about WindowsRenderer, for any number of frames and on devices    *)
(* with and without fences, as long as removeTexture comes with no frame in   *)
(* flight (~RemoveEarly).                                                     *)
EXTENDS WindowsRenderer, TLAPS

(***************************************************************************)
(* The inductive invariant                                                 *)
(***************************************************************************)

Working == {"arm", "waitGpu", "present", "callback", "reset"}
Removing == {"terminate", "notifyTerminate", "join", "erase", "removed"}

\* Who may be where while the index has which value.
Protocol ==
    /\ pc["fence"] \in Working =>
          activeFenceWaitIndex # 0 /\ activeFenceWaitIndex # Terminate
    /\ pc["fence"] = "test" => activeFenceWaitIndex # 0
    /\ pc["ui"] \in {"signal", "handOver", "kick", "terminate"} =>
          activeFenceWaitIndex = 0
    /\ activeFenceWaitIndex = Terminate <=>
          fences /\ pc["ui"] \in Removing \ {"terminate"}
    /\ fences /\ pc["fence"] = "exited" => activeFenceWaitIndex = Terminate
    /\ pc["ui"] \in {"erase", "removed"} => pc["fence"] = "exited"
    /\ ~backing => pc["ui"] = "removed"

\* A sleeper's condition does not hold, or the thread that made it hold is about
\* to notify.
Sleepers ==
    /\ pc["ui"] = "asleep" => activeFenceWaitIndex # 0 \/ pc["fence"] = "notify"
    /\ pc["fence"] = "asleep" =>
          activeFenceWaitIndex = 0 \/ pc["ui"] \in {"notifyFence", "notifyTerminate"}

\* Where the texture of the frame in flight is.
InFlight ==
    /\ lastFrameTexture # NoTexture <=>
          \/ pc["ui"] \in {"kick", "query", "present"}
          \/ activeFenceWaitIndex \notin {0, Terminate}
                /\ pc["fence"] \notin {"callback", "reset"}
    /\ target # NoTexture <=>
          pc["ui"] \in {"flush", "waitPrevious", "asleep", "signal", "handOver"}

\* On a device without fences one thread does it all; with them the UI thread
\* never presents.
Device ==
    IF fences THEN pc["ui"] \notin {"query", "present", "callback"}
    ELSE /\ pc["fence"] = "exited"
         /\ activeFenceWaitIndex = 0
         /\ waiters = {}
         /\ pc["ui"] \notin {"waitPrevious", "asleep", "signal", "kick",
                             "notifyFence", "terminate", "notifyTerminate", "join"}

\* Frames are numbered as they are drawn; the one in flight follows the one that
\* is shown, the one being drawn follows both.
Flushed == IF pc["ui"] \in {"waitPrevious", "asleep", "signal", "handOver"} THEN 1 ELSE 0

Frames ==
    /\ drawn = frameOf[presentingTexture] + Held(lastFrameTexture) + Flushed
    /\ lastFrameTexture # NoTexture =>
          frameOf[lastFrameTexture] = frameOf[presentingTexture] + 1
    /\ Flushed = 1 => frameOf[target] = drawn
    /\ fences =>
          lastFrameIndex = (IF pc["ui"] \in {"waitPrevious", "asleep", "signal"}
                            THEN drawn - 1 ELSE drawn)
    /\ activeFenceWaitIndex \notin {0, Terminate} =>
          activeFenceWaitIndex =
              (IF lastFrameTexture = NoTexture THEN frameOf[presentingTexture]
               ELSE frameOf[lastFrameTexture])
    /\ pc["fence"] \in {"waitGpu", "present"} => waitIndex = activeFenceWaitIndex

\* What the GPU has finished and what the CPU buffer holds.
Finished ==
    /\ frameOf[presentingTexture] <= gpuDone
    /\ pixels <= gpuDone
    /\ pc["fence"] = "present" => gpuDone >= waitIndex
    /\ pc["ui"] = "present" => gpuDone = drawn
    /\ pc["ui"] # "callback" /\ pc["fence"] # "callback" =>
          pixels = frameOf[presentingTexture]

\* The invariant, while removeTexture never comes with a frame in flight.
Standing ==
    /\ ~RemoveEarly
    /\ TypeOK
    /\ Protocol
    /\ Sleepers
    /\ Device
    /\ InFlight
    /\ TexturesConserved
    /\ Frames
    /\ Finished

\* A render texture as createTexture leaves it satisfies the invariant.
LEMMA InitStands ==
    ASSUME ~RemoveEarly, Init
    PROVE  Standing
<1>a. /\ pc = [ui |-> "idle", fence |-> IF fences THEN "check" ELSE "exited"]
      /\ waiters = {} /\ activeFenceWaitIndex = 0 /\ lastFrameIndex = 0
      /\ lastFrameTexture = NoTexture /\ target = NoTexture /\ waitIndex = 0
      /\ presentingTexture = 1 /\ renderTextures = <<2, 3, 4>>
      /\ fences \in BOOLEAN /\ drawn = 0 /\ gpuDone = 0
      /\ frameOf = [t \in Textures |-> 0] /\ pixels = 0 /\ backing = TRUE
  BY DEF Init, FenceThreadStart
<1>b. /\ 1 \in Textures /\ renderTextures \in Seq(Textures)
      /\ frameOf \in [Textures -> Nat] /\ frameOf[presentingTexture] = 0
  BY <1>a DEF Textures
<1>c. NoTexture \notin Textures /\ Terminate # 0
  BY RendererAssumption DEF Textures
<1>1. TypeOK
  BY <1>a, <1>b, <1>c DEF TypeOK, UIPoints, FencePoints, Threads
<1>2. Protocol
  BY <1>a, <1>c DEF Protocol, Working, Removing
<1>3. Sleepers
  BY <1>a DEF Sleepers
<1>4. Device
  BY <1>a DEF Device
<1>5. InFlight
  BY <1>a, <1>c DEF InFlight
<1>6. TexturesConserved
  BY <1>a, <1>b, <1>c DEF TexturesConserved, Held
<1>7. Frames
  BY <1>a, <1>b, <1>c DEF Frames, Flushed, Held
<1>8. Finished
  BY <1>a, <1>b DEF Finished
<1> QED BY <1>1, <1>2, <1>3, <1>4, <1>5, <1>6, <1>7, <1>8 DEF Standing

\* The invariant survives the call of end().
LEMMA BeginEndKeeps ==
    ASSUME Standing, BeginEnd
    PROVE  Standing'
<1>1. TypeOK'
  BY DEF Standing, BeginEnd, syncVars, frameVars, swapchainVars, gpuVars,
     pixelVars, Goto, TypeOK, UIPoints, Threads
<1>2. Protocol'
  BY DEF Standing, BeginEnd, syncVars, gpuVars, pixelVars, Goto, Protocol,
     Removing
<1>3. Sleepers'
  BY DEF Standing, BeginEnd, syncVars, Goto, Sleepers
<1>4. Device'
  BY DEF Standing, BeginEnd, syncVars, gpuVars, Goto, Device
<1>5. InFlight'
  BY DEF Standing, BeginEnd, syncVars, frameVars, Goto, InFlight
<1>6. TexturesConserved'
  BY DEF Standing, BeginEnd, frameVars, swapchainVars, TexturesConserved
<1>7. Frames'
  BY DEF Standing, BeginEnd, syncVars, frameVars, swapchainVars, gpuVars, Goto,
     Frames, Flushed
<1>8. Finished'
  BY DEF Standing, BeginEnd, frameVars, swapchainVars, gpuVars, pixelVars, Goto,
     Finished
<1> QED BY <1>1, <1>2, <1>3, <1>4, <1>5, <1>6, <1>7, <1>8 DEF Standing

\* The invariant survives taking a texture from the swapchain.
LEMMA AcquireRenderTextureKeeps ==
    ASSUME Standing, AcquireRenderTexture
    PROVE  Standing'
<1>a. /\ renderTextures \in Seq(Textures) /\ renderTextures # <<>>
      /\ target = NoTexture
      /\ target' = Head(renderTextures) /\ renderTextures' = Tail(renderTextures)
      /\ presentingTexture' = presentingTexture
      /\ lastFrameTexture' = lastFrameTexture
  BY DEF Standing, TypeOK, InFlight, AcquireRenderTexture
<1>b. /\ target' = renderTextures[1] /\ target' \in Textures
      /\ Len(renderTextures') = Len(renderTextures) - 1
      /\ \A i \in DOMAIN renderTextures' :
            i + 1 \in DOMAIN renderTextures /\ i + 1 # 1
            /\ renderTextures'[i] = renderTextures[i + 1]
  BY <1>a
<1>c. target' # NoTexture
  BY <1>b, RendererAssumption DEF Textures
<1>1. TypeOK'
  BY DEF Standing, AcquireRenderTexture, syncVars, gpuVars, pixelVars, Goto,
     TypeOK, UIPoints, Threads
<1>2. Protocol'
  BY DEF Standing, AcquireRenderTexture, syncVars, gpuVars, pixelVars, Goto,
     Protocol, Removing
<1>3. Sleepers'
  BY DEF Standing, AcquireRenderTexture, syncVars, Goto, Sleepers
<1>4. Device'
  BY DEF Standing, AcquireRenderTexture, syncVars, gpuVars, Goto, Device
<1>5. InFlight'
  BY <1>c DEF Standing, AcquireRenderTexture, syncVars, Goto, TypeOK, InFlight,
     Threads
<1>6. TexturesConserved'
  <2>1. Len(renderTextures') + Held(target') + Held(lastFrameTexture') = 3
    <3>1. Len(renderTextures) \in Nat /\ Len(renderTextures') = Len(renderTextures) - 1
      BY <1>a, <1>b
    <3>2. Held(target) = 0 /\ Held(target') = 1
      BY <1>a, <1>c DEF Held
    <3>3. Held(lastFrameTexture') = Held(lastFrameTexture) /\ Held(lastFrameTexture) \in Nat
      BY <1>a DEF Held
    <3> QED BY <3>1, <3>2, <3>3 DEF Standing, TexturesConserved
  <2>2. \A i, j \in DOMAIN renderTextures' :
           renderTextures'[i] = renderTextures'[j] => i = j
    <3> SUFFICES ASSUME NEW i \in DOMAIN renderTextures',
                        NEW j \in DOMAIN renderTextures',
                        renderTextures'[i] = renderTextures'[j]
                 PROVE  i = j
      OBVIOUS
    <3>1. i + 1 = j + 1
      BY <1>b DEF Standing, TexturesConserved
    <3> QED BY <1>a, <3>1
  <2>3. \A i \in DOMAIN renderTextures' :
           renderTextures'[i] \notin {presentingTexture', target', lastFrameTexture'}
    <3> SUFFICES ASSUME NEW i \in DOMAIN renderTextures'
                 PROVE  renderTextures'[i] \notin
                           {presentingTexture', target', lastFrameTexture'}
      OBVIOUS
    <3>1. renderTextures[i + 1] # renderTextures[1]
      BY <1>a, <1>b DEF Standing, TexturesConserved
    <3> QED BY <1>a, <1>b, <3>1 DEF Standing, TexturesConserved
  <2>4. target' \notin {presentingTexture', lastFrameTexture'}
    BY <1>a, <1>b DEF Standing, TexturesConserved
  <2>5. presentingTexture' # lastFrameTexture'
    BY <1>a DEF Standing, TexturesConserved
  <2> QED BY <2>1, <2>2, <2>3, <2>4, <2>5 DEF TexturesConserved
<1>7. Frames'
  BY DEF Standing, AcquireRenderTexture, syncVars, gpuVars, Goto, Frames,
     Flushed, Working
<1>8. Finished'
  BY DEF Standing, AcquireRenderTexture, gpuVars, pixelVars, Goto, Finished
<1> QED BY <1>1, <1>2, <1>3, <1>4, <1>5, <1>6, <1>7, <1>8 DEF Standing

\* The invariant survives the flush of a frame, which takes the next number.
LEMMA FlushKeeps ==
    ASSUME Standing, Flush
    PROVE  Standing'
<1>a. /\ target \in Textures /\ drawn' = drawn + 1 /\ drawn' \in Nat
      /\ frameOf' = [frameOf EXCEPT ![target] = drawn']
      /\ frameOf' \in [Textures -> Nat] /\ frameOf'[target] = drawn + 1
      /\ \A t \in Textures \ {target} : frameOf'[t] = frameOf[t]
  BY DEF Standing, TypeOK, InFlight, Flush
<1>b. /\ presentingTexture \in Textures \ {target}
      /\ lastFrameTexture # NoTexture => lastFrameTexture \in Textures \ {target}
  BY <1>a DEF Standing, TypeOK, TexturesConserved
<1>c. /\ frameOf'[presentingTexture] = frameOf[presentingTexture]
      /\ lastFrameTexture # NoTexture =>
            frameOf'[lastFrameTexture] = frameOf[lastFrameTexture]
  BY <1>a, <1>b
<1>d. activeFenceWaitIndex = 0 \/ lastFrameIndex > 0 \/ ~fences
  BY <1>b DEF Standing, TypeOK, Flush, Protocol, Frames, Flushed, Held, Removing
<1>e. /\ pc["ui"] = "flush"
      /\ pc' = [pc EXCEPT !["ui"] = IF ~fences THEN "handOver"
                ELSE IF lastFrameIndex > 0 THEN "waitPrevious" ELSE "signal"]
      /\ UNCHANGED <<waiters, activeFenceWaitIndex, lastFrameIndex,
                     lastFrameTexture, target, waitIndex, presentingTexture,
                     renderTextures, fences, gpuDone, pixels, backing>>
  BY DEF Flush, Goto, syncVars, frameVars, swapchainVars, pixelVars
<1>1. TypeOK'
  BY <1>a, <1>e DEF Standing, TypeOK, UIPoints, Threads
<1>2. Protocol'
  BY <1>d, <1>e DEF Standing, Protocol, Device, Removing
<1>3. Sleepers'
  BY DEF Standing, Flush, syncVars, Goto, Sleepers
<1>4. Device'
  BY DEF Standing, Flush, syncVars, Goto, Device
<1>5. InFlight'
  BY DEF Standing, Flush, syncVars, frameVars, Goto, InFlight
<1>6. TexturesConserved'
  BY DEF Standing, Flush, frameVars, swapchainVars, TexturesConserved
<1>7. Frames'
  <2>1. pc'["ui"] \in {"handOver", "waitPrevious", "signal"}
        /\ (fences => pc'["ui"] # "handOver") /\ pc'["fence"] = pc["fence"]
    BY <1>e DEF Standing, TypeOK, Threads
  <2>2. Flushed' = 1 /\ Flushed = 0
    BY <1>e, <2>1 DEF Flushed
  <2>3. lastFrameTexture # NoTexture =>
            frameOf'[lastFrameTexture] = frameOf'[presentingTexture] + 1
    BY <1>c DEF Standing, Frames
  <2>4. drawn' = frameOf'[presentingTexture] + Held(lastFrameTexture) + Flushed'
    BY <1>a, <1>b, <1>c, <2>2 DEF Standing, Frames, Held
  <2>5. fences => lastFrameIndex = drawn' - 1
    BY <1>a, <1>e DEF Standing, Frames
  <2>6. activeFenceWaitIndex \notin {0, Terminate} =>
          activeFenceWaitIndex =
              (IF lastFrameTexture = NoTexture THEN frameOf'[presentingTexture]
               ELSE frameOf'[lastFrameTexture])
    BY <1>c DEF Standing, Frames
  <2> QED BY <1>a, <1>e, <2>1, <2>2, <2>3, <2>4, <2>5, <2>6
          DEF Standing, Frames, Held
<1>8. Finished'
  BY <1>a, <1>c, <1>e DEF Standing, Finished
<1> QED BY <1>1, <1>2, <1>3, <1>4, <1>5, <1>6, <1>7, <1>8 DEF Standing

\* The invariant survives one turn of the wait for the previous frame.
LEMMA WaitPreviousKeeps ==
    ASSUME Standing, WaitPrevious
    PROVE  Standing'
<1>1. TypeOK'
  BY DEF Standing, WaitPrevious, frameVars, swapchainVars, gpuVars, pixelVars,
     Goto, Sleep, TypeOK, UIPoints, Threads
<1>2. Protocol'
  BY DEF Standing, WaitPrevious, gpuVars, pixelVars, Goto, Sleep, TypeOK,
     Protocol, Removing, Threads
<1>3. Sleepers'
  BY DEF Standing, WaitPrevious, Goto, Sleep, TypeOK, Sleepers, Threads
<1>4. Device'
  BY DEF Standing, WaitPrevious, gpuVars, Goto, Sleep, TypeOK, Device
<1>5. InFlight'
  BY DEF Standing, WaitPrevious, frameVars, Goto, Sleep, TypeOK, InFlight,
     Threads
<1>6. TexturesConserved'
  BY DEF Standing, WaitPrevious, frameVars, swapchainVars, TexturesConserved
<1>7. Frames'
  BY DEF Standing, WaitPrevious, frameVars, swapchainVars, gpuVars, Goto, Sleep,
     TypeOK, Frames, Flushed, Working, Threads
<1>8. Finished'
  BY DEF Standing, WaitPrevious, frameVars, swapchainVars, gpuVars, pixelVars,
     Goto, Sleep, TypeOK, Finished, Threads
<1> QED BY <1>1, <1>2, <1>3, <1>4, <1>5, <1>6, <1>7, <1>8 DEF Standing

\* The invariant survives the fence value of a frame.
LEMMA SignalKeeps ==
    ASSUME Standing, Signal
    PROVE  Standing'
<1>1. TypeOK'
  BY DEF Standing, Signal, syncVars, swapchainVars, gpuVars, pixelVars, Goto,
     TypeOK, UIPoints, Threads
<1>2. Protocol'
  BY DEF Standing, Signal, syncVars, gpuVars, pixelVars, Goto, Protocol,
     Removing
<1>3. Sleepers'
  BY DEF Standing, Signal, syncVars, Goto, Sleepers
<1>4. Device'
  BY DEF Standing, Signal, gpuVars, Goto, Device
<1>5. InFlight'
  BY DEF Standing, Signal, syncVars, Goto, InFlight
<1>6. TexturesConserved'
  BY DEF Standing, Signal, swapchainVars, TexturesConserved
<1>7. Frames'
  BY DEF Standing, Signal, syncVars, swapchainVars, gpuVars, Goto, TypeOK,
     Frames, Flushed, Threads
<1>8. Finished'
  BY DEF Standing, Signal, swapchainVars, gpuVars, pixelVars, Goto, Finished
<1> QED BY <1>1, <1>2, <1>3, <1>4, <1>5, <1>6, <1>7, <1>8 DEF Standing

\* The invariant survives moving the texture to m_lastFrameTexture.
LEMMA HandOverKeeps ==
    ASSUME Standing, HandOver
    PROVE  Standing'
<1>a. lastFrameTexture = NoTexture
  BY DEF Standing, Protocol, InFlight, HandOver
<1>1. TypeOK'
  BY DEF Standing, HandOver, syncVars, swapchainVars, gpuVars, pixelVars, Goto,
     TypeOK, UIPoints, Threads
<1>2. Protocol'
  BY DEF Standing, HandOver, syncVars, gpuVars, pixelVars, Goto, Protocol,
     Removing
<1>3. Sleepers'
  BY DEF Standing, HandOver, syncVars, Goto, Sleepers
<1>4. Device'
  BY DEF Standing, HandOver, syncVars, gpuVars, Goto, Device
<1>5. InFlight'
  BY DEF Standing, HandOver, Goto, TypeOK, InFlight, Threads
<1>6. TexturesConserved'
  BY <1>a DEF Standing, HandOver, swapchainVars, TexturesConserved, Held
<1>7. Frames'
  BY DEF Standing, HandOver, syncVars, swapchainVars, gpuVars, Goto, TypeOK,
     Protocol, InFlight, Frames, Flushed, Held, Threads
<1>8. Finished'
  BY DEF Standing, HandOver, swapchainVars, gpuVars, pixelVars, Goto, Finished
<1> QED BY <1>1, <1>2, <1>3, <1>4, <1>5, <1>6, <1>7, <1>8 DEF Standing

\* The invariant survives setting the index the waiting thread waits for.
LEMMA KickKeeps ==
    ASSUME Standing, Kick
    PROVE  Standing'
<1>a. /\ lastFrameIndex \in Nat /\ lastFrameIndex # 0
      /\ lastFrameIndex # Terminate /\ fences
  BY RendererAssumption DEF Standing, TypeOK, Device, InFlight, Frames, Held,
     Flushed, Kick
<1>1. TypeOK'
  BY DEF Standing, Kick, frameVars, swapchainVars, gpuVars, pixelVars, Goto,
     TypeOK, UIPoints, Threads
<1>2. Protocol'
  BY RendererAssumption DEF Standing, Kick, gpuVars, pixelVars, Goto, TypeOK,
     Protocol, Removing, Threads
<1>3. Sleepers'
  BY DEF Standing, Kick, Goto, TypeOK, Sleepers, Threads
<1>4. Device'
  BY DEF Standing, Kick, gpuVars, Goto, Device
<1>5. InFlight'
  BY <1>a DEF Standing, Kick, frameVars, Goto, Protocol, InFlight, Working
<1>6. TexturesConserved'
  BY DEF Standing, Kick, frameVars, swapchainVars, TexturesConserved
<1>7. Frames'
  BY DEF Standing, Kick, frameVars, swapchainVars, gpuVars, Goto, TypeOK,
     Protocol, Device, Frames, Flushed, Held, Working
<1>8. Finished'
  BY DEF Standing, Kick, frameVars, swapchainVars, gpuVars, pixelVars, Goto,
     Finished
<1> QED BY <1>1, <1>2, <1>3, <1>4, <1>5, <1>6, <1>7, <1>8 DEF Standing

\* The invariant survives the notification of the waiting thread.
LEMMA NotifyFenceKeeps ==
    ASSUME Standing, NotifyFence
    PROVE  Standing'
<1>1. TypeOK'
  BY DEF Standing, NotifyFence, frameVars, swapchainVars, gpuVars, pixelVars,
     NotifyOne, Goto, Retest, TypeOK, UIPoints, FencePoints, Threads
<1>2. Protocol'
  BY DEF Standing, NotifyFence, gpuVars, pixelVars, NotifyOne, Goto, Retest,
     TypeOK, Protocol, Working, Removing, Threads
<1>3. Sleepers'
  BY DEF Standing, NotifyFence, NotifyOne, Goto, Retest, TypeOK, Sleepers,
     Threads
<1>4. Device'
  BY DEF Standing, NotifyFence, gpuVars, NotifyOne, Goto, TypeOK, Device,
     Threads
<1>5. InFlight'
  BY DEF Standing, NotifyFence, frameVars, NotifyOne, Goto, Retest, TypeOK,
     InFlight, Threads
<1>6. TexturesConserved'
  BY DEF Standing, NotifyFence, frameVars, swapchainVars, TexturesConserved
<1>7. Frames'
  BY DEF Standing, NotifyFence, frameVars, swapchainVars, gpuVars, NotifyOne,
     Goto, Retest, TypeOK, Frames, Flushed, Threads
<1>8. Finished'
  BY DEF Standing, NotifyFence, frameVars, swapchainVars, gpuVars, pixelVars,
     NotifyOne, Goto, Retest, TypeOK, Finished, Threads
<1> QED BY <1>1, <1>2, <1>3, <1>4, <1>5, <1>6, <1>7, <1>8 DEF Standing

\* The invariant survives the end of the polling loop.
LEMMA PollQueryKeeps ==
    ASSUME Standing, PollQuery
    PROVE  Standing'
<1>1. TypeOK'
  BY DEF Standing, PollQuery, syncVars, frameVars, swapchainVars, gpuVars,
     pixelVars, Goto, TypeOK, UIPoints, Threads
<1>2. Protocol'
  BY DEF Standing, PollQuery, syncVars, gpuVars, pixelVars, Goto, Protocol,
     Device
<1>3. Sleepers'
  BY DEF Standing, PollQuery, syncVars, Goto, Sleepers
<1>4. Device'
  BY DEF Standing, PollQuery, syncVars, gpuVars, Goto, Device
<1>5. InFlight'
  BY DEF Standing, PollQuery, frameVars, Goto, InFlight
<1>6. TexturesConserved'
  BY DEF Standing, PollQuery, frameVars, swapchainVars, TexturesConserved
<1>7. Frames'
  BY DEF Standing, PollQuery, syncVars, frameVars, swapchainVars, gpuVars, Goto,
     Frames, Flushed
<1>8. Finished'
  BY DEF Standing, PollQuery, frameVars, swapchainVars, gpuVars, pixelVars,
     Goto, Finished
<1> QED BY <1>1, <1>2, <1>3, <1>4, <1>5, <1>6, <1>7, <1>8 DEF Standing

\* The invariant survives presenting a texture, by either thread.
LEMMA PresentTextureKeeps ==
    ASSUME NEW t \in Threads, Standing, PresentTexture(t)
    PROVE  Standing'
<1>a. lastFrameTexture \in Textures
      /\ presentingTexture \in Textures /\ renderTextures \in Seq(Textures)
  <2>1. CASE t = "ui"
    BY <2>1 DEF Standing, TypeOK, InFlight, PresentTexture
  <2>2. CASE t = "fence"
    BY <2>2 DEF Standing, TypeOK, InFlight, Protocol, Working, PresentTexture
  <2> QED BY <2>1, <2>2 DEF Threads
<1>b. /\ renderTextures' = Append(renderTextures, presentingTexture)
      /\ presentingTexture' = lastFrameTexture
      /\ lastFrameTexture' = NoTexture /\ target' = target
  BY DEF PresentTexture
<1>c. /\ renderTextures' \in Seq(Textures)
      /\ Len(renderTextures') = Len(renderTextures) + 1
      /\ \A i \in DOMAIN renderTextures' :
            \/ i \in DOMAIN renderTextures /\ renderTextures'[i] = renderTextures[i]
            \/ i = Len(renderTextures) + 1 /\ renderTextures'[i] = presentingTexture
  BY <1>a, <1>b
<1>d. NoTexture \notin Textures
  BY RendererAssumption DEF Textures
<1>1. TypeOK'
  BY <1>a, <1>b, <1>c DEF Standing, PresentTexture, syncVars, gpuVars,
     pixelVars, Goto, TypeOK, UIPoints, FencePoints
<1>2. Protocol'
  BY DEF Standing, PresentTexture, syncVars, gpuVars, pixelVars, Goto, Protocol,
     Device, Working
<1>3. Sleepers'
  BY DEF Standing, PresentTexture, syncVars, Goto, Sleepers
<1>4. Device'
  BY DEF Standing, PresentTexture, syncVars, gpuVars, Goto, Device
<1>5. InFlight'
  BY DEF Standing, PresentTexture, syncVars, Goto, TypeOK, Protocol, Device,
     InFlight, Working, Threads
<1>6. TexturesConserved'
  <2>1. Len(renderTextures') + Held(target') + Held(lastFrameTexture') = 3
    <3>1. Held(lastFrameTexture) = 1 /\ Held(lastFrameTexture') = 0
      BY <1>a, <1>b, <1>d DEF Held
    <3>2. Held(target') = Held(target) /\ Held(target) \in Nat
      BY <1>b DEF Held
    <3>3. Len(renderTextures) \in Nat
      BY <1>a
    <3> QED BY <1>c, <3>1, <3>2, <3>3 DEF Standing, TexturesConserved
  <2>2. \A i, j \in DOMAIN renderTextures' :
           renderTextures'[i] = renderTextures'[j] => i = j
    BY <1>c DEF Standing, TexturesConserved
  <2>3. \A i \in DOMAIN renderTextures' :
           renderTextures'[i] \notin {presentingTexture', target', lastFrameTexture'}
    BY <1>a, <1>b, <1>c, <1>d DEF Standing, TexturesConserved
  <2>4. presentingTexture' \notin {target', lastFrameTexture'}
        /\ (target' = lastFrameTexture' => target' = NoTexture)
    BY <1>a, <1>b, <1>d DEF Standing, TexturesConserved
  <2> QED BY <2>1, <2>2, <2>3, <2>4 DEF TexturesConserved
<1>7. Frames'
  BY DEF Standing, PresentTexture, syncVars, gpuVars, Goto, TypeOK, Protocol,
     InFlight, Frames, Flushed, Held, Working, Threads
<1>8. Finished'
  BY DEF Standing, PresentTexture, gpuVars, pixelVars, Goto, TypeOK, Protocol,
     InFlight, Frames, Finished, Flushed, Held, Working, Threads
<1> QED BY <1>1, <1>2, <1>3, <1>4, <1>5, <1>6, <1>7, <1>8 DEF Standing

\* The invariant survives the copy to the CPU buffer, by either thread.
LEMMA EndKeeps ==
    ASSUME NEW t \in Threads, Standing, End(t)
    PROVE  Standing'
<1>1. TypeOK'
  BY DEF Standing, End, syncVars, frameVars, swapchainVars, gpuVars, Goto,
     TypeOK, UIPoints, FencePoints
<1>2. Protocol'
  BY DEF Standing, End, syncVars, gpuVars, Goto, Protocol, Device, Working
<1>3. Sleepers'
  BY DEF Standing, End, syncVars, Goto, Sleepers
<1>4. Device'
  BY DEF Standing, End, syncVars, gpuVars, Goto, Device
<1>5. InFlight'
  BY DEF Standing, End, syncVars, frameVars, Goto, InFlight
<1>6. TexturesConserved'
  BY DEF Standing, End, frameVars, swapchainVars, TexturesConserved
<1>7. Frames'
  BY DEF Standing, End, syncVars, frameVars, swapchainVars, gpuVars, Goto,
     Frames, Flushed
<1>8. Finished'
  BY DEF Standing, End, frameVars, swapchainVars, gpuVars, Goto, Protocol,
     Finished
<1> QED BY <1>1, <1>2, <1>3, <1>4, <1>5, <1>6, <1>7, <1>8 DEF Standing

\* The invariant survives one turn of the waiting thread's wait.
LEMMA WaitForFrameKeeps ==
    ASSUME Standing, WaitForFrame
    PROVE  Standing'
<1>1. TypeOK'
  BY DEF Standing, WaitForFrame, frameVars, swapchainVars, gpuVars, pixelVars,
     Goto, Sleep, TypeOK, FencePoints, Threads
<1>2. Protocol'
  BY DEF Standing, WaitForFrame, gpuVars, pixelVars, Goto, Sleep, TypeOK,
     Protocol, Working, Threads
<1>3. Sleepers'
  BY DEF Standing, WaitForFrame, Goto, Sleep, TypeOK, Sleepers, Threads
<1>4. Device'
  BY DEF Standing, WaitForFrame, gpuVars, Goto, Sleep, TypeOK, Device, Threads
<1>5. InFlight'
  BY DEF Standing, WaitForFrame, frameVars, Goto, Sleep, TypeOK, InFlight,
     Threads
<1>6. TexturesConserved'
  BY DEF Standing, WaitForFrame, frameVars, swapchainVars, TexturesConserved
<1>7. Frames'
  BY DEF Standing, WaitForFrame, frameVars, swapchainVars, gpuVars, Goto, Sleep,
     TypeOK, Frames, Flushed, Threads
<1>8. Finished'
  BY DEF Standing, WaitForFrame, swapchainVars, gpuVars, pixelVars, Goto, Sleep,
     TypeOK, Finished, Threads
<1> QED BY <1>1, <1>2, <1>3, <1>4, <1>5, <1>6, <1>7, <1>8 DEF Standing

\* The invariant survives the test for the terminating index.
LEMMA TestTerminateKeeps ==
    ASSUME Standing, TestTerminate
    PROVE  Standing'
<1>1. TypeOK'
  BY DEF Standing, TestTerminate, syncVars, frameVars, swapchainVars, gpuVars,
     pixelVars, Goto, TypeOK, FencePoints, Threads
<1>2. Protocol'
  BY DEF Standing, TestTerminate, syncVars, gpuVars, pixelVars, Goto, Protocol,
     Working
<1>3. Sleepers'
  BY DEF Standing, TestTerminate, syncVars, Goto, Sleepers
<1>4. Device'
  BY DEF Standing, TestTerminate, gpuVars, Goto, Device
<1>5. InFlight'
  BY DEF Standing, TestTerminate, syncVars, frameVars, Goto, InFlight
<1>6. TexturesConserved'
  BY DEF Standing, TestTerminate, frameVars, swapchainVars, TexturesConserved
<1>7. Frames'
  BY DEF Standing, TestTerminate, syncVars, frameVars, swapchainVars, gpuVars,
     Goto, Frames, Flushed
<1>8. Finished'
  BY DEF Standing, TestTerminate, swapchainVars, gpuVars, pixelVars, Goto,
     Finished
<1> QED BY <1>1, <1>2, <1>3, <1>4, <1>5, <1>6, <1>7, <1>8 DEF Standing

\* The invariant survives reading the value to wait for.
LEMMA ArmFenceKeeps ==
    ASSUME Standing, ArmFence
    PROVE  Standing'
<1>1. TypeOK'
  BY DEF Standing, ArmFence, syncVars, swapchainVars, gpuVars, pixelVars, Goto,
     TypeOK, FencePoints, Threads
<1>2. Protocol'
  BY DEF Standing, ArmFence, syncVars, gpuVars, pixelVars, Goto, Protocol,
     Working
<1>3. Sleepers'
  BY DEF Standing, ArmFence, syncVars, Goto, Sleepers
<1>4. Device'
  BY DEF Standing, ArmFence, gpuVars, Goto, Device
<1>5. InFlight'
  BY DEF Standing, ArmFence, syncVars, Goto, InFlight
<1>6. TexturesConserved'
  BY DEF Standing, ArmFence, swapchainVars, TexturesConserved
<1>7. Frames'
  BY DEF Standing, ArmFence, syncVars, swapchainVars, gpuVars, Goto, Frames,
     Flushed
<1>8. Finished'
  BY DEF Standing, ArmFence, swapchainVars, gpuVars, pixelVars, Goto, Finished
<1> QED BY <1>1, <1>2, <1>3, <1>4, <1>5, <1>6, <1>7, <1>8 DEF Standing

\* The invariant survives the end of the wait for the GPU.
LEMMA FenceCompletesKeeps ==
    ASSUME Standing, FenceCompletes
    PROVE  Standing'
<1>1. TypeOK'
  BY DEF Standing, FenceCompletes, syncVars, frameVars, swapchainVars, gpuVars,
     pixelVars, Goto, TypeOK, FencePoints, Threads
<1>2. Protocol'
  BY DEF Standing, FenceCompletes, syncVars, gpuVars, pixelVars, Goto, Protocol,
     Working
<1>3. Sleepers'
  BY DEF Standing, FenceCompletes, syncVars, Goto, Sleepers
<1>4. Device'
  BY DEF Standing, FenceCompletes, gpuVars, Goto, Device
<1>5. InFlight'
  BY DEF Standing, FenceCompletes, syncVars, frameVars, Goto, InFlight
<1>6. TexturesConserved'
  BY DEF Standing, FenceCompletes, frameVars, swapchainVars, TexturesConserved
<1>7. Frames'
  BY DEF Standing, FenceCompletes, syncVars, frameVars, swapchainVars, gpuVars,
     Goto, Frames, Flushed
<1>8. Finished'
  BY DEF Standing, FenceCompletes, frameVars, swapchainVars, gpuVars, pixelVars,
     Goto, Finished
<1> QED BY <1>1, <1>2, <1>3, <1>4, <1>5, <1>6, <1>7, <1>8 DEF Standing

\* The invariant survives resetting the index.
LEMMA ResetKeeps ==
    ASSUME Standing, Reset
    PROVE  Standing'
<1>1. TypeOK'
  BY DEF Standing, Reset, frameVars, swapchainVars, gpuVars, pixelVars, Goto,
     TypeOK, FencePoints, Threads
<1>2. Protocol'
  BY RendererAssumption DEF Standing, Reset, gpuVars, pixelVars, Goto, TypeOK,
     Protocol, Working, Threads
<1>3. Sleepers'
  BY DEF Standing, Reset, Goto, TypeOK, Sleepers, Threads
<1>4. Device'
  BY DEF Standing, Reset, gpuVars, Goto, Device
<1>5. InFlight'
  BY DEF Standing, Reset, frameVars, Goto, InFlight
<1>6. TexturesConserved'
  BY DEF Standing, Reset, frameVars, swapchainVars, TexturesConserved
<1>7. Frames'
  BY DEF Standing, Reset, frameVars, swapchainVars, gpuVars, Goto, Frames,
     Flushed
<1>8. Finished'
  BY DEF Standing, Reset, swapchainVars, gpuVars, pixelVars, Goto, Finished
<1> QED BY <1>1, <1>2, <1>3, <1>4, <1>5, <1>6, <1>7, <1>8 DEF Standing

\* The invariant survives the notification of the UI thread.
LEMMA NotifyUIKeeps ==
    ASSUME Standing, NotifyUI
    PROVE  Standing'
<1>1. TypeOK'
  BY DEF Standing, NotifyUI, frameVars, swapchainVars, gpuVars, pixelVars,
     NotifyOne, Goto, Retest, TypeOK, UIPoints, FencePoints, Threads
<1>2. Protocol'
  BY DEF Standing, NotifyUI, gpuVars, pixelVars, NotifyOne, Goto, Retest,
     TypeOK, Protocol, Working, Removing, Threads
<1>3. Sleepers'
  BY DEF Standing, NotifyUI, NotifyOne, Goto, Retest, TypeOK, Sleepers, Threads
<1>4. Device'
  BY DEF Standing, NotifyUI, gpuVars, NotifyOne, Goto, Retest, TypeOK, Device,
     Threads
<1>5. InFlight'
  BY DEF Standing, NotifyUI, frameVars, NotifyOne, Goto, Retest, TypeOK,
     InFlight, Threads
<1>6. TexturesConserved'
  BY DEF Standing, NotifyUI, frameVars, swapchainVars, TexturesConserved
<1>7. Frames'
  BY DEF Standing, NotifyUI, frameVars, swapchainVars, gpuVars, NotifyOne, Goto,
     Retest, TypeOK, Frames, Flushed, Threads
<1>8. Finished'
  BY DEF Standing, NotifyUI, swapchainVars, gpuVars, pixelVars, NotifyOne, Goto,
     Retest, TypeOK, Finished, Threads
<1> QED BY <1>1, <1>2, <1>3, <1>4, <1>5, <1>6, <1>7, <1>8 DEF Standing

\* The invariant survives the completion of a frame.
LEMMA GpuCompletesFrameKeeps ==
    ASSUME Standing, GpuCompletesFrame
    PROVE  Standing'
<1>1. TypeOK'
  BY DEF Standing, GpuCompletesFrame, syncVars, frameVars, swapchainVars,
     pixelVars, TypeOK
<1>2. Protocol'
  BY DEF Standing, GpuCompletesFrame, syncVars, pixelVars, Protocol
<1>3. Sleepers'
  BY DEF Standing, GpuCompletesFrame, syncVars, Sleepers
<1>4. Device'
  BY DEF Standing, GpuCompletesFrame, syncVars, Device
<1>5. InFlight'
  BY DEF Standing, GpuCompletesFrame, syncVars, frameVars, InFlight
<1>6. TexturesConserved'
  BY DEF Standing, GpuCompletesFrame, frameVars, swapchainVars,
     TexturesConserved
<1>7. Frames'
  BY DEF Standing, GpuCompletesFrame, syncVars, frameVars, swapchainVars,
     Frames, Flushed
<1>8. Finished'
  BY DEF Standing, GpuCompletesFrame, frameVars, swapchainVars, pixelVars,
     TypeOK, Finished
<1> QED BY <1>1, <1>2, <1>3, <1>4, <1>5, <1>6, <1>7, <1>8 DEF Standing

\* The invariant survives the start of removeTexture.
LEMMA RemoveTextureKeeps ==
    ASSUME Standing, RemoveTexture
    PROVE  Standing'
<1>1. TypeOK'
  BY DEF Standing, RemoveTexture, syncVars, frameVars, swapchainVars, gpuVars,
     pixelVars, Goto, TypeOK, UIPoints, Threads
<1>2. Protocol'
  BY RendererAssumption DEF Standing, RemoveTexture, syncVars, gpuVars,
     pixelVars, Goto, Protocol, Device
<1>3. Sleepers'
  BY DEF Standing, RemoveTexture, syncVars, Goto, Sleepers
<1>4. Device'
  BY DEF Standing, RemoveTexture, syncVars, gpuVars, Goto, Device
<1>5. InFlight'
  BY DEF Standing, RemoveTexture, syncVars, frameVars, Goto, InFlight
<1>6. TexturesConserved'
  BY DEF Standing, RemoveTexture, frameVars, swapchainVars, TexturesConserved
<1>7. Frames'
  BY DEF Standing, RemoveTexture, syncVars, frameVars, swapchainVars, gpuVars,
     Goto, Frames, Flushed
<1>8. Finished'
  BY DEF Standing, RemoveTexture, frameVars, swapchainVars, gpuVars, pixelVars,
     Goto, Finished
<1> QED BY <1>1, <1>2, <1>3, <1>4, <1>5, <1>6, <1>7, <1>8 DEF Standing

\* The invariant survives telling the waiting thread to terminate.
LEMMA TellTerminateKeeps ==
    ASSUME Standing, TellTerminate
    PROVE  Standing'
<1>1. TypeOK'
  BY DEF Standing, TellTerminate, frameVars, swapchainVars, gpuVars, pixelVars,
     Goto, TypeOK, UIPoints, Threads
<1>2. Protocol'
  BY DEF Standing, TellTerminate, gpuVars, pixelVars, Goto, TypeOK, Protocol,
     Device, Removing, Threads
<1>3. Sleepers'
  BY DEF Standing, TellTerminate, Goto, TypeOK, Sleepers, Threads
<1>4. Device'
  BY DEF Standing, TellTerminate, gpuVars, Goto, Device
<1>5. InFlight'
  BY DEF Standing, TellTerminate, frameVars, Goto, Protocol, InFlight
<1>6. TexturesConserved'
  BY DEF Standing, TellTerminate, frameVars, swapchainVars, TexturesConserved
<1>7. Frames'
  BY DEF Standing, TellTerminate, frameVars, swapchainVars, gpuVars, Goto,
     Protocol, Frames, Flushed, Working
<1>8. Finished'
  BY DEF Standing, TellTerminate, frameVars, swapchainVars, gpuVars, pixelVars,
     Goto, Finished
<1> QED BY <1>1, <1>2, <1>3, <1>4, <1>5, <1>6, <1>7, <1>8 DEF Standing

\* The invariant survives the destructor's notification.
LEMMA NotifyTerminateKeeps ==
    ASSUME Standing, NotifyTerminate
    PROVE  Standing'
<1>1. TypeOK'
  BY DEF Standing, NotifyTerminate, frameVars, swapchainVars, gpuVars,
     pixelVars, NotifyOne, Goto, Retest, TypeOK, UIPoints, FencePoints, Threads
<1>2. Protocol'
  BY DEF Standing, NotifyTerminate, gpuVars, pixelVars, NotifyOne, Goto, Retest,
     TypeOK, Protocol, Working, Removing, Threads
<1>3. Sleepers'
  BY DEF Standing, NotifyTerminate, NotifyOne, Goto, Retest, TypeOK, Sleepers,
     Threads
<1>4. Device'
  BY DEF Standing, NotifyTerminate, gpuVars, NotifyOne, Goto, TypeOK, Device,
     Threads
<1>5. InFlight'
  BY DEF Standing, NotifyTerminate, frameVars, NotifyOne, Goto, Retest, TypeOK,
     InFlight, Threads
<1>6. TexturesConserved'
  BY DEF Standing, NotifyTerminate, frameVars, swapchainVars, TexturesConserved
<1>7. Frames'
  BY DEF Standing, NotifyTerminate, frameVars, swapchainVars, gpuVars,
     NotifyOne, Goto, Retest, TypeOK, Frames, Flushed, Threads
<1>8. Finished'
  BY DEF Standing, NotifyTerminate, frameVars, swapchainVars, gpuVars,
     pixelVars, NotifyOne, Goto, Retest, TypeOK, Finished, Threads
<1> QED BY <1>1, <1>2, <1>3, <1>4, <1>5, <1>6, <1>7, <1>8 DEF Standing

\* The invariant survives the join.
LEMMA JoinKeeps ==
    ASSUME Standing, Join
    PROVE  Standing'
<1>1. TypeOK'
  BY DEF Standing, Join, syncVars, frameVars, swapchainVars, gpuVars, pixelVars,
     Goto, TypeOK, UIPoints, Threads
<1>2. Protocol'
  BY DEF Standing, Join, syncVars, gpuVars, pixelVars, Goto, Protocol, Removing
<1>3. Sleepers'
  BY DEF Join, Goto, Sleepers
<1>4. Device'
  BY DEF Standing, Join, gpuVars, Goto, Device
<1>5. InFlight'
  BY DEF Standing, Join, syncVars, frameVars, Goto, InFlight
<1>6. TexturesConserved'
  BY DEF Standing, Join, frameVars, swapchainVars, TexturesConserved
<1>7. Frames'
  BY DEF Standing, Join, syncVars, frameVars, swapchainVars, gpuVars, Goto,
     Frames, Flushed
<1>8. Finished'
  BY DEF Standing, Join, swapchainVars, gpuVars, pixelVars, Goto, Finished
<1> QED BY <1>1, <1>2, <1>3, <1>4, <1>5, <1>6, <1>7, <1>8 DEF Standing

\* The invariant survives freeing the CPU buffer.
LEMMA ErasePixelBackingKeeps ==
    ASSUME Standing, ErasePixelBacking
    PROVE  Standing'
<1>1. TypeOK'
  BY DEF Standing, ErasePixelBacking, syncVars, frameVars, swapchainVars,
     gpuVars, Goto, TypeOK, UIPoints, Threads
<1>2. Protocol'
  BY DEF Standing, ErasePixelBacking, syncVars, gpuVars, Goto, TypeOK, Protocol,
     Removing, Threads
<1>3. Sleepers'
  BY DEF Standing, ErasePixelBacking, syncVars, Goto, Sleepers
<1>4. Device'
  BY DEF Standing, ErasePixelBacking, syncVars, gpuVars, Goto, Device
<1>5. InFlight'
  BY DEF Standing, ErasePixelBacking, syncVars, frameVars, Goto, InFlight
<1>6. TexturesConserved'
  BY DEF Standing, ErasePixelBacking, frameVars, swapchainVars,
     TexturesConserved
<1>7. Frames'
  BY DEF Standing, ErasePixelBacking, syncVars, frameVars, swapchainVars,
     gpuVars, Goto, Frames, Flushed
<1>8. Finished'
  BY DEF Standing, ErasePixelBacking, frameVars, swapchainVars, gpuVars, Goto,
     Finished
<1> QED BY <1>1, <1>2, <1>3, <1>4, <1>5, <1>6, <1>7, <1>8 DEF Standing

\* The invariant survives starting anew with the next render texture.
LEMMA CreateTextureKeeps ==
    ASSUME Standing, CreateTexture
    PROVE  Standing'
<1>a. /\ pc' = [ui |-> "idle", fence |-> IF fences' THEN "check" ELSE "exited"]
      /\ waiters' = {} /\ activeFenceWaitIndex' = 0 /\ lastFrameIndex' = 0
      /\ lastFrameTexture' = NoTexture /\ target' = NoTexture /\ waitIndex' = 0
      /\ presentingTexture' = 1 /\ renderTextures' = <<2, 3, 4>>
      /\ fences' \in BOOLEAN /\ drawn' = 0 /\ gpuDone' = 0
      /\ frameOf' = [t \in Textures |-> 0] /\ pixels' = 0 /\ backing' = TRUE
  BY DEF Standing, TypeOK, CreateTexture, FenceThreadStart
<1>b. /\ 1 \in Textures /\ renderTextures' \in Seq(Textures)
      /\ frameOf' \in [Textures -> Nat] /\ frameOf'[presentingTexture'] = 0
  BY <1>a DEF Textures
<1>c. NoTexture \notin Textures /\ Terminate # 0
  BY RendererAssumption DEF Textures
<1>1. TypeOK'
  BY <1>a, <1>b, <1>c DEF TypeOK, UIPoints, FencePoints, Threads
<1>2. Protocol'
  BY <1>a, <1>c DEF Protocol, Working, Removing
<1>3. Sleepers'
  BY <1>a DEF Sleepers
<1>4. Device'
  BY <1>a DEF Device
<1>5. InFlight'
  BY <1>a, <1>c DEF InFlight
<1>6. TexturesConserved'
  BY <1>a, <1>b, <1>c DEF TexturesConserved, Held
<1>7. Frames'
  BY <1>a, <1>b, <1>c DEF Frames, Flushed, Held
<1>8. Finished'
  BY <1>a, <1>b DEF Finished
<1> QED BY <1>1, <1>2, <1>3, <1>4, <1>5, <1>6, <1>7, <1>8 DEF Standing

\* The invariant survives a spurious wakeup.
LEMMA SpuriousWakeupKeeps ==
    ASSUME NEW t \in Threads, Standing, SpuriousWakeup(t)
    PROVE  Standing'
<1>1. TypeOK'
  BY DEF Standing, SpuriousWakeup, frameVars, swapchainVars, gpuVars, pixelVars,
     Goto, Retest, TypeOK, UIPoints, FencePoints
<1>2. Protocol'
  BY DEF Standing, SpuriousWakeup, gpuVars, pixelVars, Goto, Retest, TypeOK,
     Protocol, Working, Removing
<1>3. Sleepers'
  BY DEF Standing, SpuriousWakeup, Goto, TypeOK, Sleepers
<1>4. Device'
  BY DEF Standing, SpuriousWakeup, gpuVars, Goto, Retest, Device
<1>5. InFlight'
  BY DEF Standing, SpuriousWakeup, frameVars, Goto, Retest, TypeOK, InFlight
<1>6. TexturesConserved'
  BY DEF Standing, SpuriousWakeup, frameVars, swapchainVars, TexturesConserved
<1>7. Frames'
  BY DEF Standing, SpuriousWakeup, frameVars, swapchainVars, gpuVars, Goto,
     Retest, TypeOK, Frames, Flushed
<1>8. Finished'
  BY DEF Standing, SpuriousWakeup, frameVars, swapchainVars, gpuVars, pixelVars,
     Goto, Retest, TypeOK, Finished
<1> QED BY <1>1, <1>2, <1>3, <1>4, <1>5, <1>6, <1>7, <1>8 DEF Standing

\* Every step preserves the invariant.
LEMMA NextKeeps ==
    ASSUME Standing, [Next]_vars
    PROVE  Standing'
<1>1. ASSUME BeginEnd \/ EndStep PROVE Standing'
  BY <1>1, BeginEndKeeps, AcquireRenderTextureKeeps, FlushKeeps,
     WaitPreviousKeeps, SignalKeeps, HandOverKeeps, KickKeeps, NotifyFenceKeeps,
     PollQueryKeeps, PresentTextureKeeps, EndKeeps DEF EndStep, Threads
<1>2. ASSUME RemoveTexture \/ DestructorStep \/ CreateTexture PROVE Standing'
  BY <1>2, RemoveTextureKeeps, TellTerminateKeeps, NotifyTerminateKeeps,
     JoinKeeps, ErasePixelBackingKeeps, CreateTextureKeeps DEF DestructorStep
<1>3. ASSUME FenceStep PROVE Standing'
  BY <1>3, WaitForFrameKeeps, TestTerminateKeeps, ArmFenceKeeps,
     FenceCompletesKeeps, PresentTextureKeeps, EndKeeps, ResetKeeps,
     NotifyUIKeeps DEF FenceStep, Threads
<1>4. ASSUME NEW t \in Threads, SpuriousWakeup(t) PROVE Standing'
  BY <1>4, SpuriousWakeupKeeps
<1>5. ASSUME UNCHANGED vars PROVE Standing'
  BY <1>5 DEF vars, Standing, TypeOK, Protocol, Sleepers, Device, InFlight,
     TexturesConserved, Frames, Flushed, Finished
<1> QED BY <1>1, <1>2, <1>3, <1>4, <1>5, GpuCompletesFrameKeeps DEF Next

(***************************************************************************)
(* Theorems                                                                *)
(***************************************************************************)

\* The inductive invariant: who may run while the index has which value, where
\* the texture in flight is, and how frames, fence values and the GPU's progress
\* are numbered.
THEOREM RendererInvariant == ~RemoveEarly => (Spec => []Standing)
<1> SUFFICES ASSUME ~RemoveEarly PROVE Spec => []Standing
  OBVIOUS
<1>1. Init => Standing
  BY InitStands
<1>2. Standing /\ [Next]_vars => Standing'
  BY NextKeeps
<1> QED BY <1>1, <1>2, PTL DEF Spec

\* Types of the two threads, the swapchain and the counters.
THEOREM RendererTypes == ~RemoveEarly => (Spec => []TypeOK)
<1>1. Standing => TypeOK
  BY DEF Standing
<1> QED BY <1>1, RendererInvariant, PTL

\* acquireRenderTexture, presentTexture and the moves of swapchainTexture and
\* m_lastFrameTexture neither lose nor double one of the four textures.
THEOREM TexturesAreNeverLost == ~RemoveEarly => (Spec => []TexturesConserved)
<1>1. Standing => TexturesConserved
  BY DEF Standing
<1> QED BY <1>1, RendererInvariant, PTL

\* acquireRenderTexture never waits inside end().
THEOREM EndNeverWaitsForATexture == ~RemoveEarly => (Spec => []AcquireNeverBlocks)
<1>1. ASSUME Standing, pc["ui"] = "acquire" PROVE renderTextures # <<>>
  <2>1. Held(target) = 0 /\ Held(lastFrameTexture) \in 0 .. 1
    BY <1>1 DEF Standing, InFlight, Held
  <2>2. Len(renderTextures) >= 2
    BY <1>1, <2>1 DEF Standing, TexturesConserved
  <2> QED BY <2>2
<1>2. Standing => AcquireNeverBlocks
  BY <1>1 DEF AcquireNeverBlocks
<1> QED BY <1>2, RendererInvariant, PTL

\* What presentTexture shows and RiveNativeRenderTexture::end copies is a frame
\* the GPU has finished.
THEOREM OnlyFinishedFramesAreShown == ~RemoveEarly => (Spec => []ShownFrameIsComplete)
<1>1. Standing => ShownFrameIsComplete
  BY DEF Standing, Finished, ShownFrameIsComplete
<1> QED BY <1>1, RendererInvariant, PTL

\* Between two frames, once the waiting thread has reset the index, the CPU
\* buffer holds the frame that is shown.
THEOREM PixelsFollowTheScreen == ~RemoveEarly => (Spec => []PixelsAreShownFrame)
<1>1. Standing => PixelsAreShownFrame
  BY DEF Standing, Protocol, Working, Finished, PixelsAreShownFrame
<1> QED BY <1>1, RendererInvariant, PTL

\* The assertion of end() that no frame is in flight when the next is handed
\* over, and with it that m_lastFrameTexture is empty when it is moved into.
THEOREM HandOverAssertionHolds == ~RemoveEarly => (Spec => []HandOverIsClear)
<1>1. Standing => HandOverIsClear
  BY DEF Standing, Protocol, InFlight, HandOverIsClear
<1> QED BY <1>1, RendererInvariant, PTL

\* The two waits on m_fenceWaitCond never sleep at once, so that notify_one is
\* enough.
THEOREM NotifyOneIsEnough == ~RemoveEarly => (Spec => []OneSleeper)
<1>1. Standing => OneSleeper
  BY DEF Standing, TypeOK, Sleepers, OneSleeper, Threads
<1> QED BY <1>1, RendererInvariant, PTL

\* Frames come to the screen one by one in the order end() drew them.
THEOREM FramesComeInTurn == ~RemoveEarly => (Spec => EveryFrameInTurn)
<1> DEFINE InTurn ==
        presentingTexture' # presentingTexture =>
            \/ frameOf'[presentingTexture'] = frameOf[presentingTexture] + 1
            \/ CreateTexture
<1>1. ASSUME Standing, NEW t \in Threads, PresentTexture(t) PROVE InTurn
  <2>1. presentingTexture' = lastFrameTexture /\ frameOf' = frameOf
    BY <1>1 DEF PresentTexture, gpuVars
  <2>2. lastFrameTexture # NoTexture
    BY <1>1 DEF Standing, InFlight, Protocol, Working, Threads, PresentTexture
  <2> QED BY <1>1, <2>1, <2>2 DEF Standing, Frames
<1>2. ASSUME Standing, [Next]_vars PROVE [InTurn]_vars
  <2>1. CASE \E t \in Threads : PresentTexture(t)
    BY <1>1, <1>2, <2>1
  <2>2. CASE CreateTexture
    BY <2>2
  <2>3. ASSUME Next, ~CreateTexture, ~ \E t \in Threads : PresentTexture(t)
        PROVE  presentingTexture' = presentingTexture
    BY <2>3 DEF Next, EndStep, DestructorStep, FenceStep, Threads, BeginEnd,
       AcquireRenderTexture, Flush, WaitPrevious, Signal, HandOver, Kick,
       NotifyFence, PollQuery, End, WaitForFrame, TestTerminate, ArmFence,
       FenceCompletes, Reset, NotifyUI, GpuCompletesFrame, RemoveTexture,
       TellTerminate, NotifyTerminate, Join, ErasePixelBacking, SpuriousWakeup,
       swapchainVars
  <2> QED BY <1>2, <2>1, <2>2, <2>3 DEF vars
<1> QED BY <1>2, RendererInvariant, PTL DEF Spec, EveryFrameInTurn
==============================================================================
