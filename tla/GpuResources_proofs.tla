------------------------- MODULE GpuResources_proofs -------------------------
(* What a command buffer refers to outlives it and is not written before    *)
(* the GPU has executed it, and the purgatory keeps nothing for longer than  *)
(* that, for any number of resources, images and frames and any pool size.   *)
EXTENDS GpuResources, SequenceTheorems, TLAPS

Objects == Resources \cup {BufferPool}

\* A queue holds an object and will not let it go before a frame is safe.
Kept(queue, r, f) ==
    \E i \in DOMAIN queue : queue[i].resource = r /\ queue[i].lastFrame >= f

\* The numbers of the frames: what is safe has been executed.
FramesInOrder ==
    /\ Running => currentFrame <= swapFrame /\ safeFrame <= gpuFrame
    /\ ~Running => safeFrame = ShutdownFrameNumber
    /\ imageSafe <= gpuFrame
    /\ image # None => gpuFrame < swapFrame

\* Only frames that have been flushed and not executed refer to anything.
UsesInFlight ==
    \A f \in Frames :
        uses[f] # {} => Running /\ gpuFrame < f /\ f <= currentFrame

\* A queue in the order of release, of which nothing is safe yet.
InOrder(queue) ==
    /\ \A i \in DOMAIN queue :
           safeFrame < queue[i].lastFrame /\ queue[i].lastFrame <= currentFrame
    /\ \A i, j \in DOMAIN queue :
           i <= j => queue[i].lastFrame <= queue[j].lastFrame

NumberedInOrder ==
    /\ InOrder(purgatory)
    /\ \A i \in DOMAIN pool.buffer : pool.buffer[i].lastFrame <= currentFrame

\* The pool of the render buffer waits for at least as long as what it holds.
PoolGoesLast ==
    \A i \in DOMAIN purgatory :
        purgatory[i].resource = BufferPool =>
            /\ BufferPool \notin held
            /\ \A k \in DOMAIN pool.buffer :
                   pool.buffer[k].lastFrame <= purgatory[i].lastFrame

\* What a frame refers to is held, or waits for that frame at least.
UsesAreKept ==
    \A f \in Frames : \A r \in uses[f] :
        \/ r \in held
        \/ Kept(purgatory, r, f)
        \/ Kept(pool.flush, r, f)
        \/ Kept(pool.buffer, r, f)

IInv ==
    /\ TypeOK
    /\ FramesInOrder
    /\ UsesInFlight
    /\ NumberedInOrder
    /\ PoolGoesLast
    /\ UsesAreKept

(***************************************************************************)
(* Queues                                                                  *)
(***************************************************************************)

\* What is in a queue of zombies.
LEMMA ZombieTypes ==
    ASSUME NEW objects, NEW q \in Seq(ZombieType(objects)), NEW i \in DOMAIN q
    PROVE  /\ i \in 1 .. Len(q)
           /\ q[i].resource \in objects
           /\ q[i].lastFrame \in Nat
           /\ q[i].lastFrame <= MaxFrames
<1>1. q[i] \in ZombieType(objects) /\ i \in 1 .. Len(q)
  OBVIOUS
<1>2. q[i].resource \in objects /\ q[i].lastFrame \in 0 .. MaxFrames
  BY <1>1 DEF ZombieType, Frames
<1> QED BY <1>1, <1>2, GpuResourcesAssumption

\* An element of the rest of a queue is one of the queue, n places further on.
LEMMA RestProperties ==
    ASSUME NEW S, NEW q \in Seq(S), NEW n \in 0 .. Len(q)
    PROVE  /\ Rest(q, n) \in Seq(S)
           /\ DOMAIN Rest(q, n) = 1 .. (Len(q) - n)
           /\ \A i \in 1 .. (Len(q) - n) : Rest(q, n)[i] = q[n + i]
<1>1. \A i \in (n + 1) .. Len(q) : q[i] \in S
  OBVIOUS
<1>2. /\ SubSeq(q, n + 1, Len(q)) \in Seq(S)
      /\ Len(SubSeq(q, n + 1, Len(q))) =
             IF n + 1 <= Len(q) THEN Len(q) - (n + 1) + 1 ELSE 0
      /\ \A i \in 1 .. Len(q) - (n + 1) + 1 :
             SubSeq(q, n + 1, Len(q))[i] = q[(n + 1) + i - 1]
  BY <1>1, SubSeqProperties
<1>3. Len(SubSeq(q, n + 1, Len(q))) = Len(q) - n
  BY <1>2
<1>4. DOMAIN SubSeq(q, n + 1, Len(q)) = 1 .. (Len(q) - n)
  BY <1>2, <1>3
<1>5. ASSUME NEW i \in 1 .. (Len(q) - n)
      PROVE  SubSeq(q, n + 1, Len(q))[i] = q[n + i]
  <2>1. i \in 1 .. Len(q) - (n + 1) + 1 /\ (n + 1) + i - 1 = n + i
    OBVIOUS
  <2> QED BY <1>2, <2>1
<1> QED BY <1>2, <1>4, <1>5 DEF Rest

\* What is put at the end of a queue is kept there, with all that was before.
LEMMA AppendKeeps ==
    ASSUME NEW S, NEW q \in Seq(S), NEW z \in S
    PROVE  /\ Append(q, z) \in Seq(S)
           /\ DOMAIN Append(q, z) = 1 .. (Len(q) + 1)
           /\ \A i \in DOMAIN q : Append(q, z)[i] = q[i]
           /\ Append(q, z)[Len(q) + 1] = z
           /\ \A r, f : Kept(q, r, f) => Kept(Append(q, z), r, f)
           /\ \A f : z.lastFrame >= f => Kept(Append(q, z), z.resource, f)
<1>1. /\ Append(q, z) \in Seq(S)
      /\ DOMAIN Append(q, z) = 1 .. (Len(q) + 1)
      /\ \A i \in DOMAIN q : Append(q, z)[i] = q[i]
      /\ Append(q, z)[Len(q) + 1] = z
  OBVIOUS
<1>2. DOMAIN q \subseteq DOMAIN Append(q, z) /\ Len(q) + 1 \in DOMAIN Append(q, z)
  BY <1>1
<1> QED BY <1>1, <1>2 DEF Kept

\* Popping a queue up to a safe frame lets go of nothing that waits for a later
\* one.
LEMMA PopKeeps ==
    ASSUME NEW objects, NEW q \in Seq(ZombieType(objects)),
           NEW safe \in Nat, NEW keep \in Nat, NEW n \in Nat,
           Popped(q, safe, keep, n)
    PROVE  \A r : \A f \in Nat :
               f > safe /\ Kept(q, r, f) => Kept(Rest(q, n), r, f)
<1> SUFFICES ASSUME NEW r, NEW f \in Nat, f > safe, Kept(q, r, f)
             PROVE  Kept(Rest(q, n), r, f)
  OBVIOUS
<1>1. PICK i \in DOMAIN q : q[i].resource = r /\ q[i].lastFrame >= f
  BY DEF Kept
<1>2. n \in 0 .. Len(q) /\ \A j \in 1 .. n : q[j].lastFrame <= safe
  BY DEF Popped
<1>3. q[i].lastFrame \in Nat /\ i \in 1 .. Len(q)
  BY ZombieTypes
<1>4. ~(q[i].lastFrame <= safe)
  BY <1>1, <1>3
<1>5. i \notin 1 .. n
  BY <1>2, <1>4
<1>6. i - n \in 1 .. (Len(q) - n) /\ n + (i - n) = i
  BY <1>2, <1>3, <1>5
<1>7. /\ DOMAIN Rest(q, n) = 1 .. (Len(q) - n)
      /\ \A k \in 1 .. (Len(q) - n) : Rest(q, n)[k] = q[n + k]
  BY <1>2, RestProperties
<1>8. Rest(q, n)[i - n] = q[i] /\ i - n \in DOMAIN Rest(q, n)
  BY <1>6, <1>7
<1> QED BY <1>1, <1>8 DEF Kept

\* A pool hands out a buffer and keeps what is not safe yet.
LEMMA AcquireKeeps ==
    ASSUME NEW q \in Seq(ZombieType(Resources)), NEW safe \in Nat,
           NEW a \in Acquired(q, safe)
    PROVE  /\ a.buffer \in Resources
           /\ a.rest \in Seq(ZombieType(Resources))
           /\ \A i \in DOMAIN a.rest : \E j \in DOMAIN q : a.rest[i] = q[j]
           /\ \A r : \A f \in Nat :
                  f > safe /\ Kept(q, r, f) => Kept(a.rest, r, f)
<1>1. CASE q # <<>> /\ Head(q).lastFrame <= safe
  <2>1. PICK n \in 0 .. Len(q) :
            /\ Popped(Tail(q), safe, MaxPoolCount, n)
            /\ a = [buffer |-> Head(q).resource, rest |-> Rest(Tail(q), n)]
    BY <1>1 DEF Acquired
  <2>2. /\ Head(q) \in ZombieType(Resources)
        /\ Head(q) = q[1]
        /\ Tail(q) \in Seq(ZombieType(Resources))
        /\ Len(Tail(q)) = Len(q) - 1
        /\ \A i \in 1 .. Len(Tail(q)) : Tail(q)[i] = q[i + 1]
    BY <1>1, HeadTailProperties
  <2>3. n \in 0 .. Len(Tail(q))
    BY <2>1 DEF Popped
  <2>4. /\ Rest(Tail(q), n) \in Seq(ZombieType(Resources))
        /\ DOMAIN Rest(Tail(q), n) = 1 .. (Len(Tail(q)) - n)
        /\ \A i \in 1 .. (Len(Tail(q)) - n) : Rest(Tail(q), n)[i] = Tail(q)[n + i]
    BY <2>2, <2>3, RestProperties
  <2>5. ASSUME NEW i \in DOMAIN Rest(Tail(q), n)
        PROVE  \E j \in DOMAIN q : Rest(Tail(q), n)[i] = q[j]
    <3>1. n + i \in 1 .. Len(Tail(q)) /\ n + i + 1 \in DOMAIN q
      BY <2>2, <2>3, <2>4
    <3>2. Rest(Tail(q), n)[i] = q[n + i + 1]
      BY <2>2, <2>4, <3>1
    <3> QED BY <3>1, <3>2
  <2>6. ASSUME NEW r, NEW f \in Nat, f > safe, Kept(q, r, f)
        PROVE  Kept(Rest(Tail(q), n), r, f)
    <3>1. PICK i \in DOMAIN q : q[i].resource = r /\ q[i].lastFrame >= f
      BY <2>6 DEF Kept
    <3>2. q[i].lastFrame \in Nat /\ i \in 1 .. Len(q)
      BY ZombieTypes
    <3>3. i # 1
      BY <1>1, <2>2, <2>6, <3>1, <3>2
    <3>4. i - 1 \in 1 .. Len(Tail(q)) /\ (i - 1) + 1 = i
      BY <2>2, <3>2, <3>3
    <3>5. Tail(q)[i - 1] = q[i] /\ i - 1 \in DOMAIN Tail(q)
      BY <2>2, <3>4
    <3>6. Kept(Tail(q), r, f)
      BY <3>1, <3>5 DEF Kept
    <3>7. n \in Nat /\ MaxPoolCount \in Nat
      BY <2>3, GpuResourcesAssumption
    <3>8. \A t : \A g \in Nat :
              g > safe /\ Kept(Tail(q), t, g) => Kept(Rest(Tail(q), n), t, g)
      BY <2>1, <2>2, <3>7, PopKeeps
    <3> QED BY <2>6, <3>6, <3>8
  <2>7. Head(q).resource \in Resources
    BY <2>2 DEF ZombieType
  <2> QED BY <2>1, <2>4, <2>5, <2>6, <2>7
<1>2. CASE ~(q # <<>> /\ Head(q).lastFrame <= safe)
  <2>1. PICK b \in Resources : a = [buffer |-> b, rest |-> q]
    BY <1>2 DEF Acquired
  <2> QED BY <2>1
<1> QED BY <1>1, <1>2

\* Two pools make a record of pools.
LEMMA PoolsType ==
    ASSUME NEW S, NEW flush \in S, NEW buffer \in S
    PROVE  [flush |-> flush, buffer |-> buffer] \in [{"flush", "buffer"} -> S]
<1> DEFINE p == [flush |-> flush, buffer |-> buffer]
<1>1. p = [x \in {"flush", "buffer"} |-> p[x]]
  OBVIOUS
<1>2. p["flush"] = flush /\ p["buffer"] = buffer
  OBVIOUS
<1> HIDE DEF p
<1>3. \A x \in {"flush", "buffer"} : p[x] \in S
  BY <1>2
<1>4. p \in [{"flush", "buffer"} -> S]
  BY <1>1, <1>3
<1> QED BY <1>4 DEF p

(***************************************************************************)
(* The inductive invariant                                                 *)
(***************************************************************************)

\* A released object is the last in the queue, or is deleted at once because
\* nothing that was flushed is unsafe.
LEMMA ReleaseKeeps ==
    ASSUME TypeOK, FramesInOrder, UsesInFlight,
           NEW q \in Seq(ZombieType(Objects)), InOrder(q), NEW r \in Objects
    PROVE  /\ AfterRelease(q, r) \in Seq(ZombieType(Objects))
           /\ InOrder(AfterRelease(q, r))
           /\ \A t, f : Kept(q, t, f) => Kept(AfterRelease(q, r), t, f)
           /\ \A f \in Frames :
                  uses[f] # {} => Kept(AfterRelease(q, r), r, f)
           /\ \A i \in DOMAIN AfterRelease(q, r) :
                  \/ i \in DOMAIN q /\ AfterRelease(q, r)[i] = q[i]
                  \/ /\ currentFrame > safeFrame
                     /\ AfterRelease(q, r)[i] = Zombie(r, currentFrame)
<1>1. /\ currentFrame \in Nat /\ safeFrame \in Nat /\ gpuFrame \in Nat
      /\ ShutdownFrameNumber = MaxFrames + 1 /\ MaxFrames \in Nat
  BY GpuResourcesAssumption DEF TypeOK, Frames, ShutdownFrameNumber
<1>2. CASE currentFrame > safeFrame
  <2>1. currentFrame \in Frames
    BY <1>1, <1>2 DEF TypeOK, FramesInOrder, Running
  <2>2. Zombie(r, currentFrame) \in ZombieType(Objects)
    BY <2>1 DEF Zombie, ZombieType
  <2>3. AfterRelease(q, r) = Append(q, Zombie(r, currentFrame))
    BY <1>2 DEF AfterRelease
  <2>4. /\ Append(q, Zombie(r, currentFrame)) \in Seq(ZombieType(Objects))
        /\ DOMAIN Append(q, Zombie(r, currentFrame)) = 1 .. (Len(q) + 1)
        /\ \A i \in DOMAIN q : Append(q, Zombie(r, currentFrame))[i] = q[i]
        /\ Append(q, Zombie(r, currentFrame))[Len(q) + 1] = Zombie(r, currentFrame)
        /\ \A t, f : Kept(q, t, f) => Kept(Append(q, Zombie(r, currentFrame)), t, f)
        /\ \A f : Zombie(r, currentFrame).lastFrame >= f
               => Kept(Append(q, Zombie(r, currentFrame)),
                       Zombie(r, currentFrame).resource, f)
    BY <2>2, AppendKeeps
  <2>5. /\ Zombie(r, currentFrame).lastFrame = currentFrame
        /\ Zombie(r, currentFrame).resource = r
    BY DEF Zombie
  <2>6. ASSUME NEW f \in Frames, uses[f] # {}
        PROVE  Kept(Append(q, Zombie(r, currentFrame)), r, f)
    <3>1. f <= currentFrame /\ f \in Nat
      BY <2>6 DEF UsesInFlight, Frames
    <3> QED BY <1>1, <2>4, <2>5, <3>1
  <2>7. DOMAIN q = 1 .. Len(q) /\ Len(q) \in Nat
    OBVIOUS
  <2>8. ASSUME NEW i \in 1 .. (Len(q) + 1)
        PROVE  \/ i \in DOMAIN q
               \/ i = Len(q) + 1 /\ i \notin DOMAIN q
    BY <2>7
  <2>9. InOrder(Append(q, Zombie(r, currentFrame)))
    <3>1. ASSUME NEW i \in 1 .. (Len(q) + 1)
          PROVE  /\ safeFrame < Append(q, Zombie(r, currentFrame))[i].lastFrame
                 /\ Append(q, Zombie(r, currentFrame))[i].lastFrame <= currentFrame
      BY <1>1, <1>2, <2>4, <2>5, <2>8 DEF InOrder
    <3>2. ASSUME NEW i \in 1 .. (Len(q) + 1), NEW j \in 1 .. (Len(q) + 1), i <= j
          PROVE  Append(q, Zombie(r, currentFrame))[i].lastFrame
                     <= Append(q, Zombie(r, currentFrame))[j].lastFrame
      <4>1. CASE j \in DOMAIN q
        <5>1. i \in DOMAIN q
          BY <2>7, <3>2, <4>1
        <5> QED BY <2>4, <3>2, <4>1, <5>1 DEF InOrder
      <4>2. CASE j = Len(q) + 1
        BY <2>4, <2>5, <3>1, <4>2
      <4> QED BY <2>8, <4>1, <4>2
    <3> QED BY <2>4, <3>1, <3>2 DEF InOrder
  <2>10. \A i \in DOMAIN Append(q, Zombie(r, currentFrame)) :
             \/ i \in DOMAIN q /\ Append(q, Zombie(r, currentFrame))[i] = q[i]
             \/ /\ currentFrame > safeFrame
                /\ Append(q, Zombie(r, currentFrame))[i] = Zombie(r, currentFrame)
    BY <1>2, <2>4, <2>8
  <2> QED BY <2>3, <2>4, <2>6, <2>9, <2>10
<1>3. CASE ~(currentFrame > safeFrame)
  <2>1. AfterRelease(q, r) = q
    BY <1>3 DEF AfterRelease
  <2>2. ASSUME NEW f \in Frames, uses[f] # {} PROVE FALSE
    <3>1. Running /\ gpuFrame < f /\ f <= currentFrame /\ f \in Nat
      BY <2>2 DEF UsesInFlight, Frames
    <3> QED BY <1>1, <1>3, <3>1 DEF FramesInOrder
  <2> QED BY <2>1, <2>2
<1> QED BY <1>2, <1>3

\* The numbers are natural numbers.
LEMMA Numbers ==
    ASSUME TypeOK
    PROVE  /\ currentFrame \in Nat /\ safeFrame \in Nat /\ imageSafe \in Nat
           /\ swapFrame \in Nat /\ gpuFrame \in Nat /\ MaxFrames \in Nat
           /\ ShutdownFrameNumber = MaxFrames + 1
           /\ swapFrame <= MaxFrames /\ gpuFrame <= swapFrame
BY GpuResourcesAssumption DEF TypeOK, Frames, ShutdownFrameNumber

LEMMA FlushStep ==
    ASSUME IInv, Flush
    PROVE  IInv'
<1> USE DEF IInv
<1>1. /\ image # None /\ Running
      /\ currentFrame' = swapFrame /\ safeFrame' = imageSafe
      /\ UNCHANGED <<held, mapped, swapVars, gpuFrame>>
  BY DEF Flush
<1>2. PICK n \in 0 .. Len(purgatory), a \in Acquired(pool.flush, imageSafe),
           drawn \in SUBSET (held \ {BufferPool}) :
        /\ Popped(purgatory, imageSafe, 0, n)
        /\ purgatory' = Rest(purgatory, n)
        /\ pool' = [flush |-> Recycle(a.rest, a.buffer, swapFrame),
                    buffer |-> IF BufferPool \in Waiting(SubSeq(purgatory, 1, n))
                               THEN <<>> ELSE pool.buffer]
        /\ uses' = [uses EXCEPT ![swapFrame] = @ \cup drawn \cup {a.buffer}]
  BY DEF Flush
<1>3. /\ currentFrame \in Nat /\ safeFrame \in Nat /\ imageSafe \in Nat
      /\ swapFrame \in Nat /\ gpuFrame \in Nat /\ MaxFrames \in Nat
      /\ ShutdownFrameNumber = MaxFrames + 1
      /\ swapFrame <= MaxFrames /\ gpuFrame <= swapFrame
  BY Numbers
<1>4. /\ purgatory \in Seq(ZombieType(Objects))
      /\ pool.flush \in Seq(ZombieType(Resources))
      /\ pool.buffer \in Seq(ZombieType(Resources))
      /\ swapFrame \in Frames
      /\ uses \in [Frames -> SUBSET Resources]
      /\ held \subseteq Objects
  BY DEF TypeOK, Objects
<1>5. /\ a.buffer \in Resources
      /\ a.rest \in Seq(ZombieType(Resources))
      /\ \A r : \A f \in Nat :
             f > imageSafe /\ Kept(pool.flush, r, f) => Kept(a.rest, r, f)
  BY <1>3, <1>4, AcquireKeeps
<1>6. /\ Rest(purgatory, n) \in Seq(ZombieType(Objects))
      /\ DOMAIN Rest(purgatory, n) = 1 .. (Len(purgatory) - n)
      /\ \A i \in 1 .. (Len(purgatory) - n) :
             Rest(purgatory, n)[i] = purgatory[n + i]
  BY <1>4, RestProperties
<1>7. Zombie(a.buffer, swapFrame) \in ZombieType(Resources)
  BY <1>4, <1>5 DEF Zombie, ZombieType
<1>8. /\ pool'.flush = Append(a.rest, Zombie(a.buffer, swapFrame))
      /\ pool'.buffer = IF BufferPool \in Waiting(SubSeq(purgatory, 1, n))
                        THEN <<>> ELSE pool.buffer
  BY <1>2 DEF Recycle
<1>9. /\ pool'.flush \in Seq(ZombieType(Resources))
      /\ \A r, f : Kept(a.rest, r, f) => Kept(pool'.flush, r, f)
      /\ \A f : Zombie(a.buffer, swapFrame).lastFrame >= f
             => Kept(pool'.flush, Zombie(a.buffer, swapFrame).resource, f)
  BY <1>5, <1>7, <1>8, AppendKeeps
<1>10. /\ pool'.buffer \in Seq(ZombieType(Resources))
       /\ \A k \in DOMAIN pool'.buffer :
              k \in DOMAIN pool.buffer /\ pool'.buffer[k] = pool.buffer[k]
  BY <1>4, <1>8
<1>11. pool' \in [{"flush", "buffer"} -> Seq(ZombieType(Resources))]
  BY <1>2, <1>8, <1>9, <1>10
<1>12. /\ DOMAIN purgatory = 1 .. Len(purgatory) /\ Len(purgatory) \in Nat
       /\ n \in Nat
       /\ \A i \in DOMAIN purgatory : purgatory[i].lastFrame \in Nat
  BY <1>4, ZombieTypes
<1>a. TypeOK'
  <2>1. uses' \in [Frames -> SUBSET Resources]
    <3>1. drawn \subseteq Resources
      BY <1>4 DEF Objects
    <3> QED BY <1>2, <1>4, <1>5, <3>1
  <2>2. /\ currentFrame' \in Frames \cup {ShutdownFrameNumber}
        /\ safeFrame' \in Frames \cup {ShutdownFrameNumber}
    BY <1>1, <1>3, <1>4 DEF TypeOK, Frames
  <2> QED BY <1>1, <1>2, <1>6, <1>11, <2>1, <2>2
          DEF TypeOK, swapVars, Objects, ShutdownFrameNumber
<1>b. FramesInOrder'
  BY <1>1, <1>3 DEF FramesInOrder, Running, swapVars, ShutdownFrameNumber
<1>c. UsesInFlight'
  <2> SUFFICES ASSUME NEW f \in Frames, uses'[f] # {}
               PROVE  Running' /\ gpuFrame' < f /\ f <= currentFrame'
    BY DEF UsesInFlight
  <2>1. Running'
    BY <1>1, <1>3 DEF Running, ShutdownFrameNumber
  <2>2. f \in Nat
    BY DEF Frames
  <2>3. CASE f = swapFrame
    BY <1>1, <1>3, <2>1, <2>3 DEF FramesInOrder
  <2>4. CASE f # swapFrame
    <3>1. uses[f] # {}
      BY <1>2, <1>4, <2>4
    <3> QED BY <1>1, <1>3, <2>1, <2>2, <3>1 DEF UsesInFlight, FramesInOrder
  <2> QED BY <2>3, <2>4
<1>d. NumberedInOrder'
  <2>1. ASSUME NEW i \in 1 .. (Len(purgatory) - n)
        PROVE  /\ n + i \in DOMAIN purgatory
               /\ imageSafe < purgatory[n + i].lastFrame
               /\ purgatory[n + i].lastFrame <= swapFrame
    <3>1. n + i \in DOMAIN purgatory /\ n + 1 \in DOMAIN purgatory /\ n + 1 <= n + i
      BY <1>12
    <3>2. purgatory[n + 1].lastFrame > imageSafe
      BY <1>2, <1>12, <3>1 DEF Popped
    <3>3. /\ purgatory[n + 1].lastFrame <= purgatory[n + i].lastFrame
          /\ purgatory[n + i].lastFrame <= currentFrame
      BY <3>1 DEF NumberedInOrder, InOrder
    <3> QED BY <1>1, <1>3, <1>12, <3>1, <3>2, <3>3 DEF FramesInOrder
  <2>2. ASSUME NEW i \in 1 .. (Len(purgatory) - n),
               NEW j \in 1 .. (Len(purgatory) - n), i <= j
        PROVE  purgatory[n + i].lastFrame <= purgatory[n + j].lastFrame
    <3>1. n + i <= n + j
      BY <1>12, <2>2
    <3> QED BY <2>1, <3>1 DEF NumberedInOrder, InOrder
  <2>3. \A i \in DOMAIN pool'.buffer : pool'.buffer[i].lastFrame <= swapFrame
    <3> TAKE i \in DOMAIN pool'.buffer
    <3>1. i \in DOMAIN pool.buffer /\ pool'.buffer[i] = pool.buffer[i]
      BY <1>10
    <3>2. pool.buffer[i].lastFrame \in Nat
      BY <1>4, <3>1, ZombieTypes
    <3>3. pool.buffer[i].lastFrame <= currentFrame
      BY <3>1 DEF NumberedInOrder
    <3> QED BY <1>1, <1>3, <3>1, <3>2, <3>3 DEF FramesInOrder
  <2>4. /\ DOMAIN purgatory' = 1 .. (Len(purgatory) - n)
        /\ \A i \in 1 .. (Len(purgatory) - n) :
               purgatory'[i] = purgatory[n + i]
    BY <1>2, <1>6
  <2>5. \A i \in DOMAIN purgatory' :
            /\ safeFrame' < purgatory'[i].lastFrame
            /\ purgatory'[i].lastFrame <= currentFrame'
    BY <1>1, <2>1, <2>4
  <2>6. \A i, j \in DOMAIN purgatory' :
            i <= j => purgatory'[i].lastFrame <= purgatory'[j].lastFrame
    BY <2>2, <2>4
  <2> QED BY <1>1, <2>3, <2>5, <2>6 DEF NumberedInOrder, InOrder
<1>e. PoolGoesLast'
  <2> SUFFICES ASSUME NEW i \in DOMAIN purgatory',
                      purgatory'[i].resource = BufferPool
               PROVE  /\ BufferPool \notin held'
                      /\ \A k \in DOMAIN pool'.buffer :
                             pool'.buffer[k].lastFrame <= purgatory'[i].lastFrame
    BY DEF PoolGoesLast
  <2>1. n + i \in DOMAIN purgatory /\ purgatory'[i] = purgatory[n + i]
    BY <1>2, <1>6, <1>12
  <2> QED BY <1>1, <1>10, <2>1 DEF PoolGoesLast
<1>f. UsesAreKept'
  <2> SUFFICES ASSUME NEW f \in Frames, NEW r \in uses'[f]
               PROVE  \/ r \in held'
                      \/ Kept(purgatory', r, f)
                      \/ Kept(pool'.flush, r, f)
                      \/ Kept(pool'.buffer, r, f)
    BY DEF UsesAreKept, Kept
  <2>1. CASE r \in uses[f]
    <3>1. f > imageSafe /\ f \in Nat
      BY <1>3, <2>1 DEF UsesInFlight, FramesInOrder, Frames
    <3>2. CASE Kept(purgatory, r, f)
      <4>1. \A t : \A g \in Nat : g > imageSafe /\ Kept(purgatory, t, g)
                => Kept(Rest(purgatory, n), t, g)
        BY <1>2, <1>3, <1>4, <1>12, PopKeeps
      <4> QED BY <1>2, <3>1, <3>2, <4>1
    <3>3. CASE Kept(pool.flush, r, f)
      BY <1>5, <1>9, <3>1, <3>3
    <3>4. CASE Kept(pool.buffer, r, f)
      <4>1. PICK k \in DOMAIN pool.buffer :
                pool.buffer[k].resource = r /\ pool.buffer[k].lastFrame >= f
        BY <3>4 DEF Kept
      <4>2. pool.buffer[k].lastFrame \in Nat
        BY <1>4, <4>1, ZombieTypes
      <4>3. BufferPool \notin Waiting(SubSeq(purgatory, 1, n))
        <5> SUFFICES ASSUME BufferPool \in Waiting(SubSeq(purgatory, 1, n))
                     PROVE  FALSE
          OBVIOUS
        <5>1. \A i \in 1 .. n : purgatory[i] \in ZombieType(Objects)
          BY <1>4, <1>12
        <5>2. /\ SubSeq(purgatory, 1, n) \in Seq(ZombieType(Objects))
              /\ Len(SubSeq(purgatory, 1, n)) = IF 1 <= n THEN n - 1 + 1 ELSE 0
              /\ \A i \in 1 .. n - 1 + 1 :
                     SubSeq(purgatory, 1, n)[i] = purgatory[1 + i - 1]
          BY <1>12, <5>1, SubSeqProperties
        <5>3. DOMAIN SubSeq(purgatory, 1, n) = 1 .. n
          BY <1>12, <5>2
        <5>4. PICK i \in 1 .. n : SubSeq(purgatory, 1, n)[i].resource = BufferPool
          BY <5>3 DEF Waiting
        <5>5. i \in 1 .. n - 1 + 1 /\ 1 + i - 1 = i /\ i \in DOMAIN purgatory
          BY <1>12
        <5>6. purgatory[i].resource = BufferPool
          BY <5>2, <5>4, <5>5
        <5>7. pool.buffer[k].lastFrame <= purgatory[i].lastFrame
          BY <5>5, <5>6 DEF PoolGoesLast
        <5>8. purgatory[i].lastFrame <= imageSafe
          BY <1>2 DEF Popped
        <5> QED BY <1>3, <1>12, <3>1, <4>1, <4>2, <5>5, <5>7, <5>8
      <4> QED BY <1>8, <3>4, <4>3
    <3> QED BY <1>1, <2>1, <3>2, <3>3, <3>4 DEF UsesAreKept
  <2>2. CASE r \notin uses[f]
    <3>1. f = swapFrame /\ (r \in drawn \/ r = a.buffer)
      BY <1>2, <1>4, <2>2
    <3>2. Zombie(a.buffer, swapFrame).lastFrame = swapFrame
          /\ Zombie(a.buffer, swapFrame).resource = a.buffer
      BY DEF Zombie
    <3>3. CASE r = a.buffer
      BY <1>3, <1>9, <3>1, <3>2, <3>3
    <3> QED BY <1>1, <3>1, <3>3
  <2> QED BY <2>1, <2>2
<1> QED BY <1>a, <1>b, <1>c, <1>d, <1>e, <1>f

LEMMA ReleaseStep ==
    ASSUME IInv, NEW x \in Resources, Release(x)
    PROVE  IInv'
<1> USE DEF IInv
<1>1. /\ x \in held \ {BufferPool, mapped} /\ x \in Objects
      /\ held' = held \ {x}
      /\ purgatory' = AfterRelease(purgatory, x)
      /\ UNCHANGED <<currentFrame, safeFrame, pool, mapped, swapVars, gpuFrame,
                     uses>>
  BY DEF Release, Objects
<1>2. purgatory \in Seq(ZombieType(Objects)) /\ InOrder(purgatory)
  BY DEF TypeOK, Objects, NumberedInOrder
<1>3. /\ purgatory' \in Seq(ZombieType(Objects))
      /\ InOrder(AfterRelease(purgatory, x))
      /\ \A t, f : Kept(purgatory, t, f) => Kept(purgatory', t, f)
      /\ \A f \in Frames : uses[f] # {} => Kept(purgatory', x, f)
      /\ \A i \in DOMAIN purgatory' :
             \/ i \in DOMAIN purgatory /\ purgatory'[i] = purgatory[i]
             \/ purgatory'[i] = Zombie(x, currentFrame)
  <2>1. /\ AfterRelease(purgatory, x) \in Seq(ZombieType(Objects))
        /\ InOrder(AfterRelease(purgatory, x))
        /\ \A t, f : Kept(purgatory, t, f)
               => Kept(AfterRelease(purgatory, x), t, f)
        /\ \A f \in Frames :
               uses[f] # {} => Kept(AfterRelease(purgatory, x), x, f)
        /\ \A i \in DOMAIN AfterRelease(purgatory, x) :
               \/ /\ i \in DOMAIN purgatory
                  /\ AfterRelease(purgatory, x)[i] = purgatory[i]
               \/ /\ currentFrame > safeFrame
                  /\ AfterRelease(purgatory, x)[i] = Zombie(x, currentFrame)
    BY <1>1, <1>2, ReleaseKeeps
  <2> QED BY <1>1, <2>1
<1>a. TypeOK'
  BY <1>1, <1>3 DEF TypeOK, Objects, swapVars
<1>b. FramesInOrder'
  BY <1>1 DEF FramesInOrder, Running, swapVars
<1>c. UsesInFlight'
  BY <1>1 DEF UsesInFlight, Running
<1>d. NumberedInOrder'
  BY <1>1, <1>3 DEF NumberedInOrder, InOrder
<1>e. PoolGoesLast'
  <2>1. Zombie(x, currentFrame).resource = x /\ x # BufferPool
    BY <1>1 DEF Zombie
  <2> QED BY <1>1, <1>3, <2>1 DEF PoolGoesLast
<1>f. UsesAreKept'
  BY <1>1, <1>3 DEF UsesAreKept
<1> QED BY <1>a, <1>b, <1>c, <1>d, <1>e, <1>f

LEMMA MapRenderBufferStep ==
    ASSUME IInv, MapRenderBuffer
    PROVE  IInv'
<1> USE DEF IInv
<1> DEFINE full == IF mapped = None THEN pool.buffer
                   ELSE Recycle(pool.buffer, mapped, currentFrame)
<1>1. /\ Running /\ BufferPool \in held
      /\ UNCHANGED <<currentFrame, safeFrame, purgatory, swapVars, gpuFrame, uses>>
  BY DEF MapRenderBuffer
<1>2. PICK a \in Acquired(full, safeFrame) :
          /\ mapped' = a.buffer
          /\ pool' = [pool EXCEPT !.buffer = a.rest]
          /\ held' = (held \ {mapped}) \cup {a.buffer}
  BY DEF MapRenderBuffer
<1>3. /\ currentFrame \in Frames /\ currentFrame \in Nat /\ safeFrame \in Nat
      /\ gpuFrame \in Nat
  BY <1>1, Numbers DEF TypeOK, Running
<1>4. /\ pool \in [{"flush", "buffer"} -> Seq(ZombieType(Resources))]
      /\ pool.buffer \in Seq(ZombieType(Resources))
      /\ held \subseteq Objects
      /\ mapped \in (held \ {BufferPool}) \cup {None}
  BY DEF TypeOK, Objects
<1>5. mapped # None => Zombie(mapped, currentFrame) \in ZombieType(Resources)
  BY <1>3, <1>4 DEF Zombie, ZombieType, Objects
<1>6. /\ full \in Seq(ZombieType(Resources))
      /\ \A i \in DOMAIN full : full[i].lastFrame <= currentFrame
      /\ \A r, f : Kept(pool.buffer, r, f) => Kept(full, r, f)
      /\ \A f \in Frames : mapped # None /\ currentFrame >= f
             => Kept(full, mapped, f)
  <2>1. CASE mapped = None
    BY <1>4, <2>1 DEF NumberedInOrder
  <2>2. CASE mapped # None
    <3>1. full = Append(pool.buffer, Zombie(mapped, currentFrame))
      BY <2>2 DEF Recycle
    <3>2. /\ Zombie(mapped, currentFrame).lastFrame = currentFrame
          /\ Zombie(mapped, currentFrame).resource = mapped
      BY DEF Zombie
    <3>3. /\ full \in Seq(ZombieType(Resources))
          /\ DOMAIN full = 1 .. (Len(pool.buffer) + 1)
          /\ \A i \in DOMAIN pool.buffer : full[i] = pool.buffer[i]
          /\ full[Len(pool.buffer) + 1] = Zombie(mapped, currentFrame)
          /\ \A r, f : Kept(pool.buffer, r, f) => Kept(full, r, f)
          /\ \A f : Zombie(mapped, currentFrame).lastFrame >= f
                 => Kept(full, Zombie(mapped, currentFrame).resource, f)
      <4> HIDE DEF full
      <4> QED BY <1>4, <1>5, <2>2, <3>1, AppendKeeps
    <3>4. ASSUME NEW i \in DOMAIN full PROVE full[i].lastFrame <= currentFrame
      <4> HIDE DEF full
      <4>1. DOMAIN pool.buffer = 1 .. Len(pool.buffer) /\ Len(pool.buffer) \in Nat
        BY <1>4
      <4>2. i \in DOMAIN pool.buffer \/ i = Len(pool.buffer) + 1
        BY <3>3, <4>1
      <4>3. CASE i \in DOMAIN pool.buffer
        BY <3>3, <4>3 DEF NumberedInOrder
      <4>4. CASE i = Len(pool.buffer) + 1
        BY <1>3, <3>2, <3>3, <4>4
      <4> QED BY <4>2, <4>3, <4>4
    <3> HIDE DEF full
    <3> QED BY <3>2, <3>3, <3>4
  <2> QED BY <2>1, <2>2
<1> HIDE DEF full
<1>7. /\ a.buffer \in Resources
      /\ a.rest \in Seq(ZombieType(Resources))
      /\ \A i \in DOMAIN a.rest : \E j \in DOMAIN full : a.rest[i] = full[j]
      /\ \A r : \A f \in Nat :
             f > safeFrame /\ Kept(full, r, f) => Kept(a.rest, r, f)
  BY <1>3, <1>6, AcquireKeeps
<1>8. pool'.buffer = a.rest /\ pool'.flush = pool.flush
  BY <1>2, <1>4
<1>a. TypeOK'
  <2>1. pool' \in [{"flush", "buffer"} -> Seq(ZombieType(Resources))]
    BY <1>2, <1>4, <1>7
  <2>2. /\ held' \subseteq Objects
        /\ mapped' \in (held' \ {BufferPool}) \cup {None}
    BY <1>2, <1>4, <1>7, GpuResourcesAssumption DEF Objects
  <2> QED BY <1>1, <2>1, <2>2 DEF TypeOK, Objects, swapVars
<1>b. FramesInOrder'
  BY <1>1 DEF FramesInOrder, Running, swapVars
<1>c. UsesInFlight'
  BY <1>1 DEF UsesInFlight, Running
<1>d. NumberedInOrder'
  <2>1. \A i \in DOMAIN pool'.buffer : pool'.buffer[i].lastFrame <= currentFrame
    BY <1>6, <1>7, <1>8
  <2> QED BY <1>1, <2>1 DEF NumberedInOrder, InOrder
<1>e. PoolGoesLast'
  BY <1>1 DEF PoolGoesLast
<1>f. UsesAreKept'
  <2> SUFFICES ASSUME NEW f \in Frames, NEW r \in uses[f]
               PROVE  \/ r \in held'
                      \/ Kept(purgatory, r, f)
                      \/ Kept(pool'.flush, r, f)
                      \/ Kept(pool'.buffer, r, f)
    BY <1>1 DEF UsesAreKept, Kept
  <2>1. f > safeFrame /\ currentFrame >= f /\ f \in Nat
    BY <1>1, <1>3 DEF UsesInFlight, FramesInOrder, Frames
  <2>2. CASE r \in held /\ r # mapped
    BY <1>2, <2>2
  <2>3. CASE r \in held /\ r = mapped
    <3>1. mapped # None
      BY <1>4, <2>3, GpuResourcesAssumption DEF Objects
    <3> QED BY <1>6, <1>7, <1>8, <2>1, <2>3, <3>1
  <2>4. CASE Kept(pool.buffer, r, f)
    BY <1>6, <1>7, <1>8, <2>1, <2>4
  <2> QED BY <1>8, <2>2, <2>3, <2>4 DEF UsesAreKept
<1> QED BY <1>a, <1>b, <1>c, <1>d, <1>e, <1>f

LEMMA DeleteRenderBufferStep ==
    ASSUME IInv, DeleteRenderBuffer
    PROVE  IInv'
<1> USE DEF IInv
<1> DEFINE first == IF mapped = None THEN purgatory
                    ELSE AfterRelease(purgatory, mapped)
<1>1. /\ BufferPool \in held
      /\ held' = held \ {BufferPool, mapped}
      /\ mapped' = None
      /\ purgatory' = AfterRelease(first, BufferPool)
      /\ pool' = IF currentFrame > safeFrame THEN pool
                 ELSE [pool EXCEPT !.buffer = <<>>]
      /\ UNCHANGED <<currentFrame, safeFrame, swapVars, gpuFrame, uses>>
  BY DEF DeleteRenderBuffer
<1>2. /\ purgatory \in Seq(ZombieType(Objects)) /\ InOrder(purgatory)
      /\ pool \in [{"flush", "buffer"} -> Seq(ZombieType(Resources))]
      /\ mapped \in (held \ {BufferPool}) \cup {None}
      /\ held \subseteq Objects
      /\ uses \in [Frames -> SUBSET Resources]
      /\ BufferPool \in Objects /\ BufferPool \notin Resources
  BY GpuResourcesAssumption DEF TypeOK, Objects, NumberedInOrder
<1>3. /\ first \in Seq(ZombieType(Objects))
      /\ InOrder(first)
      /\ \A t, f : Kept(purgatory, t, f) => Kept(first, t, f)
      /\ \A f \in Frames :
             uses[f] # {} /\ mapped # None => Kept(first, mapped, f)
      /\ \A i \in DOMAIN first :
             first[i].resource = BufferPool
                 => i \in DOMAIN purgatory /\ first[i] = purgatory[i]
  <2>1. CASE mapped = None
    BY <1>2, <2>1
  <2>2. CASE mapped # None
    <3>1. first = AfterRelease(purgatory, mapped)
      BY <2>2
    <3> HIDE DEF first
    <3>2. mapped \in Objects /\ mapped # BufferPool
      BY <1>2, <2>2
    <3>3. Zombie(mapped, currentFrame).resource = mapped
      BY DEF Zombie
    <3>4. /\ first \in Seq(ZombieType(Objects))
          /\ InOrder(first)
          /\ \A t, f : Kept(purgatory, t, f) => Kept(first, t, f)
          /\ \A f \in Frames : uses[f] # {} => Kept(first, mapped, f)
          /\ \A i \in DOMAIN first :
                 \/ i \in DOMAIN purgatory /\ first[i] = purgatory[i]
                 \/ /\ currentFrame > safeFrame
                    /\ first[i] = Zombie(mapped, currentFrame)
      BY <1>2, <3>1, <3>2, ReleaseKeeps
    <3> QED BY <3>2, <3>3, <3>4
  <2> QED BY <2>1, <2>2
<1> HIDE DEF first
<1>4. /\ purgatory' \in Seq(ZombieType(Objects))
      /\ InOrder(AfterRelease(first, BufferPool))
      /\ \A t, f : Kept(first, t, f) => Kept(purgatory', t, f)
      /\ \A i \in DOMAIN purgatory' :
             \/ i \in DOMAIN first /\ purgatory'[i] = first[i]
             \/ /\ currentFrame > safeFrame
                /\ purgatory'[i] = Zombie(BufferPool, currentFrame)
  <2>1. /\ AfterRelease(first, BufferPool) \in Seq(ZombieType(Objects))
        /\ InOrder(AfterRelease(first, BufferPool))
        /\ \A t, f : Kept(first, t, f) => Kept(AfterRelease(first, BufferPool), t, f)
        /\ \A i \in DOMAIN AfterRelease(first, BufferPool) :
               \/ i \in DOMAIN first /\ AfterRelease(first, BufferPool)[i] = first[i]
               \/ /\ currentFrame > safeFrame
                  /\ AfterRelease(first, BufferPool)[i]
                         = Zombie(BufferPool, currentFrame)
    BY <1>2, <1>3, ReleaseKeeps
  <2> QED BY <1>1, <2>1
<1>5. /\ pool' \in [{"flush", "buffer"} -> Seq(ZombieType(Resources))]
      /\ \A k \in DOMAIN pool'.buffer :
             k \in DOMAIN pool.buffer /\ pool'.buffer[k] = pool.buffer[k]
  <2>1. CASE currentFrame > safeFrame
    BY <1>1, <1>2, <2>1
  <2>2. CASE ~(currentFrame > safeFrame)
    <3>1. <<>> \in Seq(ZombieType(Resources)) /\ DOMAIN <<>> = {}
      OBVIOUS
    <3>2. pool' = [pool EXCEPT !.buffer = <<>>]
      BY <1>1, <2>2
    <3>3. pool'.buffer = <<>>
      BY <1>2, <3>2
    <3>4. pool' \in [{"flush", "buffer"} -> Seq(ZombieType(Resources))]
      BY <1>2, <3>1, <3>2
    <3> QED BY <3>1, <3>3, <3>4
  <2> QED BY <2>1, <2>2
<1>a. TypeOK'
  BY <1>1, <1>2, <1>4, <1>5 DEF TypeOK, Objects, swapVars
<1>b. FramesInOrder'
  BY <1>1 DEF FramesInOrder, Running, swapVars
<1>c. UsesInFlight'
  BY <1>1 DEF UsesInFlight, Running
<1>d. NumberedInOrder'
  <2>1. \A i \in DOMAIN pool'.buffer : pool'.buffer[i].lastFrame <= currentFrame
    BY <1>5 DEF NumberedInOrder
  <2> QED BY <1>1, <1>4, <2>1 DEF NumberedInOrder, InOrder
<1>e. PoolGoesLast'
  <2> SUFFICES ASSUME NEW i \in DOMAIN purgatory',
                      purgatory'[i].resource = BufferPool
               PROVE  /\ BufferPool \notin held'
                      /\ \A k \in DOMAIN pool'.buffer :
                             pool'.buffer[k].lastFrame <= purgatory'[i].lastFrame
    BY DEF PoolGoesLast
  <2>1. ~(i \in DOMAIN first /\ purgatory'[i] = first[i])
    BY <1>1, <1>3 DEF PoolGoesLast
  <2>2. purgatory'[i].lastFrame = currentFrame
    BY <1>4, <2>1 DEF Zombie
  <2>3. \A k \in DOMAIN pool'.buffer : pool'.buffer[k].lastFrame <= currentFrame
    BY <1>5 DEF NumberedInOrder
  <2> QED BY <1>1, <2>2, <2>3
<1>f. UsesAreKept'
  <2> SUFFICES ASSUME NEW f \in Frames, NEW r \in uses[f]
               PROVE  \/ r \in held'
                      \/ Kept(purgatory', r, f)
                      \/ Kept(pool'.flush, r, f)
                      \/ Kept(pool'.buffer, r, f)
    BY <1>1 DEF UsesAreKept, Kept
  <2>1. /\ currentFrame \in Nat /\ safeFrame \in Nat /\ gpuFrame \in Nat
        /\ f \in Nat
    BY Numbers DEF Frames
  <2>2. currentFrame > safeFrame
    BY <2>1 DEF UsesInFlight, FramesInOrder
  <2>3. pool' = pool
    BY <1>1, <2>2
  <2>4. r # BufferPool
    BY <1>2
  <2>5. CASE r \in held /\ r # mapped
    BY <1>1, <2>4, <2>5
  <2>6. CASE r \in held /\ r = mapped
    <3>1. mapped # None
      BY <1>2, <2>6, GpuResourcesAssumption DEF Objects
    <3> QED BY <1>3, <1>4, <2>6, <3>1
  <2>7. CASE Kept(purgatory, r, f)
    BY <1>3, <1>4, <2>7
  <2> QED BY <2>3, <2>5, <2>6, <2>7 DEF UsesAreKept
<1> QED BY <1>a, <1>b, <1>c, <1>d, <1>e, <1>f

LEMMA ShutdownStep ==
    ASSUME IInv, Shutdown
    PROVE  IInv'
<1> USE DEF IInv
<1>1. /\ Running /\ image = None /\ gpuFrame = swapFrame
      /\ currentFrame' = ShutdownFrameNumber /\ safeFrame' = ShutdownFrameNumber
      /\ purgatory' = <<>>
      /\ pool' = [flush |-> <<>>,
                  buffer |-> IF BufferPool \in Waiting(purgatory) THEN <<>>
                             ELSE pool.buffer]
      /\ UNCHANGED <<held, mapped, swapVars, gpuFrame, uses>>
  BY DEF Shutdown
<1>2. /\ currentFrame \in Nat /\ swapFrame \in Nat /\ gpuFrame \in Nat
      /\ MaxFrames \in Nat /\ ShutdownFrameNumber = MaxFrames + 1
  BY Numbers
<1>3. \A f \in Frames : uses[f] = {}
  <2> SUFFICES ASSUME NEW f \in Frames, uses[f] # {} PROVE FALSE
    OBVIOUS
  <2>1. gpuFrame < f /\ f <= currentFrame /\ f \in Nat /\ currentFrame <= swapFrame
    BY <1>1 DEF UsesInFlight, FramesInOrder, Frames
  <2> QED BY <1>1, <1>2, <2>1
<1>4. /\ pool.buffer \in Seq(ZombieType(Resources))
      /\ DOMAIN <<>> = {}
      /\ \A S : <<>> \in Seq(S)
  BY DEF TypeOK
<1>5. /\ pool'.buffer \in Seq(ZombieType(Resources))
      /\ \A k \in DOMAIN pool'.buffer :
             k \in DOMAIN pool.buffer /\ pool'.buffer[k] = pool.buffer[k]
  BY <1>1, <1>4
<1>6. pool' \in [{"flush", "buffer"} -> Seq(ZombieType(Resources))]
  <2> DEFINE rest == IF BufferPool \in Waiting(purgatory) THEN <<>>
                     ELSE pool.buffer
  <2>1. pool' = [flush |-> <<>>, buffer |-> rest]
    BY <1>1
  <2>2. rest \in Seq(ZombieType(Resources)) /\ <<>> \in Seq(ZombieType(Resources))
    BY <1>4
  <2> HIDE DEF rest
  <2> QED BY <2>1, <2>2, PoolsType
<1>a. TypeOK'
  BY <1>1, <1>4, <1>6 DEF TypeOK, swapVars
<1>b. FramesInOrder'
  BY <1>1 DEF FramesInOrder, Running, swapVars
<1>c. UsesInFlight'
  BY <1>1, <1>3 DEF UsesInFlight
<1>d. NumberedInOrder'
  <2>1. ASSUME NEW i \in DOMAIN pool'.buffer
        PROVE  pool'.buffer[i].lastFrame <= currentFrame'
    <3>1. i \in DOMAIN pool.buffer /\ pool'.buffer[i] = pool.buffer[i]
      BY <1>5
    <3>2. pool.buffer[i].lastFrame \in Nat /\ pool.buffer[i].lastFrame <= MaxFrames
      BY <1>4, <3>1, ZombieTypes
    <3> QED BY <1>1, <1>2, <3>1, <3>2
  <2> QED BY <1>1, <1>4, <2>1 DEF NumberedInOrder, InOrder
<1>e. PoolGoesLast'
  BY <1>1, <1>4 DEF PoolGoesLast
<1>f. UsesAreKept'
  BY <1>1, <1>3 DEF UsesAreKept
<1> QED BY <1>a, <1>b, <1>c, <1>d, <1>e, <1>f

LEMMA GpuExecutesFrameStep ==
    ASSUME IInv, GpuExecutesFrame
    PROVE  IInv'
<1> USE DEF IInv
<1>1. /\ gpuFrame < (IF image = None THEN swapFrame ELSE swapFrame - 1)
      /\ gpuFrame' = gpuFrame + 1
      /\ uses' = [uses EXCEPT ![gpuFrame + 1] = {}]
      /\ UNCHANGED <<currentFrame, safeFrame, purgatory, pool, held, mapped,
                     swapVars>>
  BY DEF GpuExecutesFrame, managerVars
<1>2. /\ currentFrame \in Nat /\ safeFrame \in Nat /\ imageSafe \in Nat
      /\ swapFrame \in Nat /\ gpuFrame \in Nat /\ MaxFrames \in Nat
      /\ swapFrame <= MaxFrames /\ gpuFrame <= swapFrame
  BY Numbers
<1>3. uses \in [Frames -> SUBSET Resources]
  BY DEF TypeOK
<1>4. /\ uses' \in [Frames -> SUBSET Resources]
      /\ \A f \in Frames : uses'[f] # {} =>
             f # gpuFrame + 1 /\ uses'[f] = uses[f]
  BY <1>1, <1>3
<1>5. gpuFrame' \in 0 .. swapFrame
  BY <1>1, <1>2
<1>a. TypeOK'
  BY <1>1, <1>4, <1>5 DEF TypeOK, swapVars
<1>b. FramesInOrder'
  BY <1>1, <1>2 DEF FramesInOrder, Running, swapVars
<1>c. UsesInFlight'
  <2> SUFFICES ASSUME NEW f \in Frames, uses'[f] # {}
               PROVE  Running' /\ gpuFrame' < f /\ f <= currentFrame'
    BY DEF UsesInFlight
  <2>1. Running /\ gpuFrame < f /\ f <= currentFrame /\ f \in Nat
    BY <1>4 DEF UsesInFlight, Frames
  <2> QED BY <1>1, <1>2, <1>4, <2>1 DEF Running
<1>d. NumberedInOrder'
  BY <1>1 DEF NumberedInOrder, InOrder
<1>e. PoolGoesLast'
  BY <1>1 DEF PoolGoesLast
<1>f. UsesAreKept'
  <2>1. \A f \in Frames : \A r \in uses'[f] : r \in uses[f]
    BY <1>4
  <2> QED BY <1>1, <2>1 DEF UsesAreKept
<1> QED BY <1>a, <1>b, <1>c, <1>d, <1>e, <1>f

\* The steps that neither flush nor release anything.
LEMMA QuietStep ==
    ASSUME IInv, TypeOK', FramesInOrder', PoolGoesLast',
           UNCHANGED <<currentFrame, safeFrame, purgatory, pool, gpuFrame, uses>>,
           held \subseteq held'
    PROVE  IInv'
<1> USE DEF IInv
<1>c. UsesInFlight'
  BY DEF UsesInFlight, Running
<1>d. NumberedInOrder'
  BY DEF NumberedInOrder, InOrder
<1>f. UsesAreKept'
  BY DEF UsesAreKept
<1> QED BY <1>c, <1>d, <1>f

LEMMA CreateStep ==
    ASSUME IInv, NEW x \in Resources, Create(x)
    PROVE  IInv'
<1> USE DEF IInv
<1>1. /\ held' = held \cup {x}
      /\ UNCHANGED <<currentFrame, safeFrame, purgatory, pool, mapped, swapVars,
                     gpuFrame, uses>>
  BY DEF Create
<1>2. TypeOK'
  BY <1>1 DEF TypeOK, swapVars
<1>3. FramesInOrder'
  BY <1>1 DEF FramesInOrder, Running, swapVars
<1>4. PoolGoesLast'
  BY <1>1, GpuResourcesAssumption DEF PoolGoesLast
<1> QED BY <1>1, <1>2, <1>3, <1>4, QuietStep

LEMMA MakeRenderBufferStep ==
    ASSUME IInv, MakeRenderBuffer
    PROVE  IInv'
<1> USE DEF IInv
<1>1. /\ BufferPool \notin Live
      /\ held' = held \cup {BufferPool}
      /\ UNCHANGED <<currentFrame, safeFrame, purgatory, pool, mapped, swapVars,
                     gpuFrame, uses>>
  BY DEF MakeRenderBuffer
<1>2. TypeOK'
  BY <1>1 DEF TypeOK, swapVars
<1>3. FramesInOrder'
  BY <1>1 DEF FramesInOrder, Running, swapVars
<1>4. PoolGoesLast'
  BY <1>1 DEF PoolGoesLast, Live, Waiting
<1> QED BY <1>1, <1>2, <1>3, <1>4, QuietStep

LEMMA AcquireNextImageStep ==
    ASSUME IInv, NEW i \in Images, AcquireNextImage(i)
    PROVE  IInv'
<1> USE DEF IInv
<1>1. /\ Running
      /\ imageFrame[i] <= gpuFrame
      /\ swapFrame < MaxFrames
      /\ image' = i
      /\ imageSafe' = imageFrame[i]
      /\ swapFrame' = swapFrame + 1
      /\ imageFrame' = [imageFrame EXCEPT ![i] = swapFrame + 1]
      /\ UNCHANGED <<currentFrame, safeFrame, purgatory, pool, held, mapped,
                     queued, shown, gpuFrame, uses>>
  BY DEF AcquireNextImage, managerVars
<1>2. /\ currentFrame \in Nat /\ safeFrame \in Nat
      /\ swapFrame \in Nat /\ gpuFrame \in Nat /\ MaxFrames \in Nat
      /\ gpuFrame <= swapFrame
  BY Numbers
<1>3. imageFrame \in [Images -> 0 .. swapFrame]
  BY DEF TypeOK
<1>4. imageFrame[i] \in 0 .. swapFrame
  BY <1>3
<1>5. TypeOK'
  <2>1. /\ swapFrame' \in Frames
        /\ 0 .. swapFrame \subseteq 0 .. swapFrame'
        /\ swapFrame + 1 \in 0 .. swapFrame'
    BY <1>1, <1>2 DEF Frames
  <2>2. imageFrame' \in [Images -> 0 .. swapFrame']
    BY <1>1, <1>3, <2>1
  <2>3. /\ imageSafe' \in 0 .. swapFrame'
        /\ gpuFrame' \in 0 .. swapFrame'
        /\ {image', queued', shown'} \subseteq Images \cup {None}
    BY <1>1, <1>4, <2>1 DEF TypeOK
  <2> QED BY <1>1, <2>1, <2>2, <2>3 DEF TypeOK
<1>6. FramesInOrder'
  BY <1>1, <1>2, <1>4 DEF FramesInOrder, Running
<1>7. PoolGoesLast'
  BY <1>1 DEF PoolGoesLast
<1> QED BY <1>1, <1>5, <1>6, <1>7, QuietStep

LEMMA SubmitStep ==
    ASSUME IInv, Submit
    PROVE  IInv'
<1> USE DEF IInv
<1>1. /\ image' = None /\ queued' = image
      /\ UNCHANGED <<currentFrame, safeFrame, purgatory, pool, held, mapped,
                     swapFrame, imageFrame, imageSafe, shown, gpuFrame, uses>>
  BY DEF Submit, managerVars
<1>2. TypeOK'
  BY <1>1 DEF TypeOK
<1>3. FramesInOrder'
  BY <1>1 DEF FramesInOrder, Running
<1>4. PoolGoesLast'
  BY <1>1 DEF PoolGoesLast
<1> QED BY <1>1, <1>2, <1>3, <1>4, QuietStep

LEMMA ResizeStep ==
    ASSUME IInv, Resize
    PROVE  IInv'
<1> USE DEF IInv
<1>1. /\ image = None
      /\ imageFrame' = [i \in Images |-> swapFrame]
      /\ queued' = None /\ shown' = None
      /\ UNCHANGED <<currentFrame, safeFrame, purgatory, pool, held, mapped,
                     swapFrame, imageSafe, image, gpuFrame, uses>>
  BY DEF Resize, managerVars
<1>2. TypeOK'
  <2>1. swapFrame \in 0 .. swapFrame
    BY Numbers
  <2>2. imageFrame' \in [Images -> 0 .. swapFrame]
    BY <1>1, <2>1
  <2> QED BY <1>1, <2>2 DEF TypeOK
<1>3. FramesInOrder'
  BY <1>1 DEF FramesInOrder, Running
<1>4. PoolGoesLast'
  BY <1>1 DEF PoolGoesLast
<1> QED BY <1>1, <1>2, <1>3, <1>4, QuietStep

LEMMA ShowQueuedStep ==
    ASSUME IInv, ShowQueued
    PROVE  IInv'
<1> USE DEF IInv
<1>1. /\ shown' = queued /\ queued' = None
      /\ UNCHANGED <<currentFrame, safeFrame, purgatory, pool, held, mapped,
                     swapFrame, imageFrame, imageSafe, image, gpuFrame, uses>>
  BY DEF ShowQueued, managerVars
<1>2. TypeOK'
  BY <1>1 DEF TypeOK
<1>3. FramesInOrder'
  BY <1>1 DEF FramesInOrder, Running
<1>4. PoolGoesLast'
  BY <1>1 DEF PoolGoesLast
<1> QED BY <1>1, <1>2, <1>3, <1>4, QuietStep

LEMMA InitIInv ==
    ASSUME Init
    PROVE  IInv
<1>1. /\ 0 \in Frames /\ MaxFrames \in Nat
      /\ ShutdownFrameNumber = MaxFrames + 1
  BY GpuResourcesAssumption DEF Frames, ShutdownFrameNumber
<1>2. \A S : <<>> \in Seq(S)
  OBVIOUS
<1>3. DOMAIN <<>> = {}
  OBVIOUS
<1>4. TypeOK
  <2>1. pool \in [{"flush", "buffer"} -> Seq(ZombieType(Resources))]
    <3>1. pool = [flush |-> <<>>, buffer |-> <<>>]
      BY DEF Init
    <3>2. <<>> \in Seq(ZombieType(Resources))
      BY <1>2
    <3> QED BY <3>1, <3>2, PoolsType
  <2>2. /\ purgatory \in Seq(ZombieType(Resources \cup {BufferPool}))
        /\ uses \in [Frames -> SUBSET Resources]
    BY <1>2 DEF Init
  <2>3. /\ currentFrame \in Frames /\ safeFrame \in Frames /\ swapFrame \in Frames
        /\ imageSafe \in 0 .. swapFrame /\ gpuFrame \in 0 .. swapFrame
        /\ imageFrame \in [Images -> 0 .. swapFrame]
    BY <1>1 DEF Init
  <2>4. /\ held \subseteq Resources \cup {BufferPool}
        /\ mapped \in (held \ {BufferPool}) \cup {None}
        /\ {image, queued, shown} \subseteq Images \cup {None}
    BY DEF Init
  <2> QED BY <2>1, <2>2, <2>3, <2>4 DEF TypeOK
<1>5. FramesInOrder
  BY <1>1 DEF Init, FramesInOrder, Running
<1>6. UsesInFlight
  BY DEF Init, UsesInFlight
<1>7. NumberedInOrder
  BY <1>3 DEF Init, NumberedInOrder, InOrder
<1>8. PoolGoesLast
  BY <1>3 DEF Init, PoolGoesLast
<1>9. UsesAreKept
  BY DEF Init, UsesAreKept
<1> QED BY <1>4, <1>5, <1>6, <1>7, <1>8, <1>9 DEF IInv

LEMMA NextIInv ==
    ASSUME IInv, [Next]_vars
    PROVE  IInv'
<1>1. ASSUME NEW r \in Resources, Create(r) PROVE IInv'
  BY <1>1, CreateStep
<1>2. ASSUME NEW r \in Resources, Release(r) PROVE IInv'
  BY <1>2, ReleaseStep
<1>3. ASSUME NEW i \in Images, AcquireNextImage(i) PROVE IInv'
  BY <1>3, AcquireNextImageStep
<1>4. CASE UNCHANGED vars
  <2>1. UNCHANGED <<currentFrame, safeFrame, purgatory, pool, held, mapped,
                    swapFrame, imageFrame, imageSafe, image, queued, shown,
                    gpuFrame, uses>>
    BY <1>4 DEF vars, managerVars, swapVars
  <2>2. TypeOK'
    BY <2>1 DEF IInv, TypeOK
  <2>3. FramesInOrder'
    BY <2>1 DEF IInv, FramesInOrder, Running
  <2>4. PoolGoesLast'
    BY <2>1 DEF IInv, PoolGoesLast
  <2> QED BY <2>1, <2>2, <2>3, <2>4, QuietStep
<1> QED BY <1>1, <1>2, <1>3, <1>4, MakeRenderBufferStep, MapRenderBufferStep,
           DeleteRenderBufferStep, FlushStep, ShutdownStep, SubmitStep, ResizeStep,
           GpuExecutesFrameStep, ShowQueuedStep
        DEF Next

(***************************************************************************)
(* Every object in one place                                               *)
(***************************************************************************)

\* No object waits twice in a queue.
NoTwice(queue) ==
    \A i, j \in DOMAIN queue : queue[i].resource = queue[j].resource => i = j

\* The objects held and those in three queues are different objects.
Apart(h, p, f, b) ==
    /\ NoTwice(p) /\ NoTwice(f) /\ NoTwice(b)
    /\ h \cap Waiting(p) = {} /\ h \cap Waiting(f) = {} /\ h \cap Waiting(b) = {}
    /\ Waiting(p) \cap Waiting(f) = {} /\ Waiting(p) \cap Waiting(b) = {}
    /\ Waiting(f) \cap Waiting(b) = {}

\* Every object is in one place: held, in the purgatory or in a pool.
OnePlace == Apart(held, purgatory, pool.flush, pool.buffer)

\* The rest of a queue holds nothing new and nothing twice.
LEMMA RestUnique ==
    ASSUME NEW S, NEW q \in Seq(S), NEW n \in 0 .. Len(q)
    PROVE  /\ Waiting(Rest(q, n)) \subseteq Waiting(q)
           /\ NoTwice(q) => NoTwice(Rest(q, n))
<1>1. /\ DOMAIN Rest(q, n) = 1 .. (Len(q) - n)
      /\ \A i \in 1 .. (Len(q) - n) : Rest(q, n)[i] = q[n + i]
  BY RestProperties
<1>2. \A i \in 1 .. (Len(q) - n) : n + i \in DOMAIN q
  OBVIOUS
<1>3. Waiting(Rest(q, n)) \subseteq Waiting(q)
  BY <1>1, <1>2 DEF Waiting
<1>4. ASSUME NoTwice(q), NEW i \in 1 .. (Len(q) - n), NEW j \in 1 .. (Len(q) - n),
             Rest(q, n)[i].resource = Rest(q, n)[j].resource
      PROVE  i = j
  <2>1. q[n + i].resource = q[n + j].resource
    BY <1>1, <1>4
  <2>2. n + i = n + j
    BY <1>2, <1>4, <2>1 DEF NoTwice
  <2> QED BY <2>2
<1> QED BY <1>1, <1>3, <1>4 DEF NoTwice

\* A queue that gets an object it does not hold holds it once.
LEMMA AppendUnique ==
    ASSUME NEW S, NEW q \in Seq(S), NEW z \in S
    PROVE  /\ Waiting(Append(q, z)) = Waiting(q) \cup {z.resource}
           /\ NoTwice(q) /\ z.resource \notin Waiting(q) => NoTwice(Append(q, z))
<1>1. /\ DOMAIN Append(q, z) = 1 .. (Len(q) + 1)
      /\ \A i \in DOMAIN q : Append(q, z)[i] = q[i]
      /\ Append(q, z)[Len(q) + 1] = z
  BY AppendKeeps
<1>2. DOMAIN Append(q, z) = DOMAIN q \cup {Len(q) + 1}
  BY <1>1
<1>3. Waiting(Append(q, z)) = Waiting(q) \cup {z.resource}
  <2>1. \A i \in DOMAIN q : Append(q, z)[i].resource = q[i].resource
    BY <1>1
  <2> QED BY <1>1, <1>2, <2>1 DEF Waiting
<1>4. ASSUME NoTwice(q), z.resource \notin Waiting(q)
      PROVE  NoTwice(Append(q, z))
  <2>1. \A i \in DOMAIN q : q[i].resource # z.resource
    BY <1>4 DEF Waiting
  <2> QED BY <1>1, <1>2, <1>4, <2>1 DEF NoTwice
<1> QED BY <1>3, <1>4

\* What a pool hands out.
LEMMA AcquireUnique ==
    ASSUME NEW q \in Seq(ZombieType(Resources)), NEW safe \in Nat,
           NEW a \in Acquired(q, safe), NoTwice(q), Waiting(q) \subseteq Live
    PROVE  /\ NoTwice(a.rest)
           /\ Waiting(a.rest) \subseteq Waiting(q)
           /\ a.buffer \notin Waiting(a.rest)
           /\ \/ \E i \in DOMAIN q : q[i].resource = a.buffer /\ q[i].lastFrame <= safe
              \/ a.buffer \in Resources \ Live
<1>1. CASE q # <<>> /\ Head(q).lastFrame <= safe
  <2>1. PICK n \in 0 .. Len(q) :
            /\ Popped(Tail(q), safe, MaxPoolCount, n)
            /\ a = [buffer |-> Head(q).resource, rest |-> Rest(Tail(q), n)]
    BY <1>1 DEF Acquired
  <2>2. /\ Head(q) = q[1]
        /\ Tail(q) \in Seq(ZombieType(Resources))
        /\ Len(Tail(q)) = Len(q) - 1
        /\ \A i \in 1 .. Len(Tail(q)) : Tail(q)[i] = q[i + 1]
        /\ 1 \in DOMAIN q
    BY <1>1, HeadTailProperties
  <2>3. n \in 0 .. Len(Tail(q))
    BY <2>1 DEF Popped
  <2>4. \A i \in DOMAIN Tail(q) : i + 1 \in DOMAIN q /\ i + 1 # 1 /\ Tail(q)[i] = q[i + 1]
    BY <2>2
  <2>5. NoTwice(Tail(q))
    <3> SUFFICES ASSUME NEW i \in DOMAIN Tail(q), NEW j \in DOMAIN Tail(q),
                        Tail(q)[i].resource = Tail(q)[j].resource
                 PROVE  i = j
      BY DEF NoTwice
    <3>1. i + 1 = j + 1
      BY <2>4 DEF NoTwice
    <3>2. i \in Nat /\ j \in Nat
      BY <2>2
    <3> QED BY <3>1, <3>2
  <2>6. /\ Waiting(Tail(q)) \subseteq Waiting(q)
        /\ Head(q).resource \notin Waiting(Tail(q))
    BY <2>2, <2>4 DEF Waiting, NoTwice
  <2>7. /\ Waiting(Rest(Tail(q), n)) \subseteq Waiting(Tail(q))
        /\ NoTwice(Rest(Tail(q), n))
    BY <2>2, <2>3, <2>5, RestUnique
  <2>8. /\ a.buffer = Head(q).resource
        /\ a.rest = Rest(Tail(q), n)
    BY <2>1
  <2> QED BY <1>1, <2>2, <2>6, <2>7, <2>8
<1>2. CASE ~(q # <<>> /\ Head(q).lastFrame <= safe)
  <2>1. PICK b \in Resources \ Live : a = [buffer |-> b, rest |-> q]
    BY <1>2 DEF Acquired
  <2>2. a.buffer = b /\ a.rest = q
    BY <2>1
  <2> QED BY <2>1, <2>2
<1> QED BY <1>1, <1>2

\* What a release does to the queue.
\* An object that is released waits once.
LEMMA ReleaseUnique ==
    ASSUME NEW q \in Seq(ZombieType(Objects)), NEW r \in Objects, IInv,
           NoTwice(q), r \notin Waiting(q)
    PROVE  /\ NoTwice(AfterRelease(q, r))
           /\ Waiting(AfterRelease(q, r)) \subseteq Waiting(q) \cup {r}
<1>1. CASE currentFrame > safeFrame
  <2>1. currentFrame \in Frames
    BY <1>1, Numbers DEF IInv, TypeOK, FramesInOrder, Running
  <2>2. Zombie(r, currentFrame) \in ZombieType(Objects)
    BY <2>1 DEF Zombie, ZombieType
  <2>3. AfterRelease(q, r) = Append(q, Zombie(r, currentFrame))
    BY <1>1 DEF AfterRelease
  <2>4. Zombie(r, currentFrame).resource = r
    BY DEF Zombie
  <2> QED BY <2>2, <2>3, <2>4, AppendUnique
<1>2. CASE ~(currentFrame > safeFrame)
  BY <1>2 DEF AfterRelease
<1> QED BY <1>1, <1>2

\* A new object is in one place.
LEMMA CreateApart ==
    ASSUME OnePlace, NEW x, x \notin Live,
           held' = held \cup {x}, UNCHANGED <<purgatory, pool>>
    PROVE  OnePlace'
<1>1. x \notin Waiting(purgatory) \cup Waiting(pool.flush) \cup Waiting(pool.buffer)
  BY DEF Live
<1>2. Apart(held \cup {x}, purgatory, pool.flush, pool.buffer)
  BY <1>1 DEF OnePlace, Apart
<1> QED BY <1>2 DEF OnePlace

\* A released object is in the purgatory and nowhere else.
LEMMA ReleaseApart ==
    ASSUME IInv, OnePlace, NEW r \in Resources, Release(r)
    PROVE  OnePlace'
<1>1. /\ r \in held
      /\ held' = held \ {r}
      /\ purgatory' = AfterRelease(purgatory, r)
      /\ pool' = pool
  BY DEF Release
<1>2. purgatory \in Seq(ZombieType(Objects)) /\ r \in Objects
  BY DEF IInv, TypeOK, Objects
<1>3. NoTwice(purgatory) /\ r \notin Waiting(purgatory)
  BY <1>1 DEF OnePlace, Apart
<1>4. /\ NoTwice(AfterRelease(purgatory, r))
      /\ Waiting(AfterRelease(purgatory, r)) \subseteq Waiting(purgatory) \cup {r}
  BY <1>2, <1>3, ReleaseUnique
<1>5. Apart(held \ {r}, AfterRelease(purgatory, r), pool.flush, pool.buffer)
  BY <1>1, <1>4 DEF OnePlace, Apart
<1> QED BY <1>1, <1>5 DEF OnePlace

\* So are the buffer and the pool of a render buffer that is deleted.
LEMMA DeleteApart ==
    ASSUME IInv, OnePlace, DeleteRenderBuffer
    PROVE  OnePlace'
<1> DEFINE first == IF mapped = None THEN purgatory
                    ELSE AfterRelease(purgatory, mapped)
           last == AfterRelease(first, BufferPool)
<1>1. /\ BufferPool \in held
      /\ held' = held \ {BufferPool, mapped}
      /\ purgatory' = last
      /\ pool'.flush = pool.flush
      /\ pool'.buffer = pool.buffer \/ pool'.buffer = <<>>
  <2>1. pool \in [{"flush", "buffer"} -> Seq(ZombieType(Resources))]
    BY DEF IInv, TypeOK
  <2> QED BY <2>1 DEF DeleteRenderBuffer
<1>2. purgatory \in Seq(ZombieType(Objects)) /\ BufferPool \in Objects
      /\ InOrder(purgatory) /\ TypeOK /\ FramesInOrder /\ UsesInFlight
      /\ mapped \in (held \ {BufferPool}) \cup {None} /\ held \subseteq Objects
  BY DEF IInv, TypeOK, Objects, NumberedInOrder
<1>3. NoTwice(purgatory) /\ held \cap Waiting(purgatory) = {}
  BY DEF OnePlace, Apart
<1>4. /\ first \in Seq(ZombieType(Objects))
      /\ NoTwice(first)
      /\ Waiting(first) \subseteq Waiting(purgatory) \cup (held \cap {mapped})
  <2>1. CASE mapped = None
    BY <1>2, <1>3, <2>1
  <2>2. CASE mapped # None
    <3>1. mapped \in Objects /\ mapped \in held /\ mapped \notin Waiting(purgatory)
      BY <1>2, <1>3, <2>2
    <3>2. AfterRelease(purgatory, mapped) \in Seq(ZombieType(Objects))
      BY <1>2, <3>1, ReleaseKeeps
    <3>3. /\ NoTwice(AfterRelease(purgatory, mapped))
          /\ Waiting(AfterRelease(purgatory, mapped)) \subseteq Waiting(purgatory) \cup {mapped}
      BY <1>2, <1>3, <3>1, ReleaseUnique
    <3> QED BY <2>2, <3>1, <3>2, <3>3
  <2> QED BY <2>1, <2>2
<1>5. BufferPool \notin Waiting(first)
  BY <1>1, <1>2, <1>3, <1>4, GpuResourcesAssumption
<1> HIDE DEF first
<1>6. /\ NoTwice(last)
      /\ Waiting(last) \subseteq Waiting(first) \cup {BufferPool}
  BY <1>2, <1>4, <1>5, ReleaseUnique
<1> HIDE DEF last
<1>7. NoTwice(<<>>) /\ Waiting(<<>>) = {}
  BY DEF NoTwice, Waiting
<1>8. /\ Waiting(last) \subseteq Waiting(purgatory) \cup (held \cap {BufferPool, mapped})
  BY <1>1, <1>4, <1>6
<1>9. /\ NoTwice(pool'.buffer) /\ Waiting(pool'.buffer) \subseteq Waiting(pool.buffer)
  BY <1>1, <1>7 DEF OnePlace, Apart
<1>10. Apart(held', last, pool.flush, pool'.buffer)
  BY <1>1, <1>6, <1>8, <1>9 DEF OnePlace, Apart
<1> QED BY <1>1, <1>10 DEF OnePlace

\* The shutdown empties queues.
LEMMA ShutdownApart ==
    ASSUME OnePlace, Shutdown
    PROVE  OnePlace'
<1>1. /\ held' = held /\ purgatory' = <<>> /\ pool'.flush = <<>>
      /\ pool'.buffer = pool.buffer \/ pool'.buffer = <<>>
  BY DEF Shutdown
<1>7. NoTwice(<<>>) /\ Waiting(<<>>) = {}
  BY DEF NoTwice, Waiting
<1>9. /\ NoTwice(pool'.buffer) /\ Waiting(pool'.buffer) \subseteq Waiting(pool.buffer)
  BY <1>1, <1>7 DEF OnePlace, Apart
<1>10. Apart(held, <<>>, <<>>, pool'.buffer)
  BY <1>7, <1>9 DEF OnePlace, Apart
<1> QED BY <1>1, <1>10 DEF OnePlace

\* What is in use has not been deleted.
LEMMA InUseIsLive ==
    ASSUME IInv
    PROVE  NothingInUseIsDeleted
<1> SUFFICES ASSUME NEW f \in Frames, NEW r \in uses[f]
             PROVE  r \in Live
  BY DEF NothingInUseIsDeleted, InUse
<1>1. \/ r \in held
      \/ Kept(purgatory, r, f)
      \/ Kept(pool.flush, r, f)
      \/ Kept(pool.buffer, r, f)
  BY DEF IInv, UsesAreKept
<1> QED BY <1>1 DEF Kept, Live, Waiting

\* A buffer that a pool holds for a frame that has been executed is not in use.
LEMMA PooledIsUnused ==
    ASSUME IInv, OnePlace, NEW q \in {pool.flush, pool.buffer},
           NEW i \in DOMAIN q, q[i].lastFrame <= gpuFrame
    PROVE  q[i].resource \notin InUse
<1> DEFINE r == q[i].resource
<1> SUFFICES ASSUME NEW f \in Frames, r \in uses[f] PROVE FALSE
  BY DEF InUse
<1>1. gpuFrame < f /\ f \in Nat /\ gpuFrame \in Nat
  BY Numbers DEF IInv, UsesInFlight, Frames
<1>2. \/ r \in held
      \/ Kept(purgatory, r, f)
      \/ Kept(pool.flush, r, f)
      \/ Kept(pool.buffer, r, f)
  BY DEF IInv, UsesAreKept
<1>3. r \in Waiting(q)
  BY DEF Waiting
<1>4. \A queue : Kept(queue, r, f) => r \in Waiting(queue)
  BY DEF Kept, Waiting
<1>5. Kept(q, r, f)
  BY <1>2, <1>3, <1>4 DEF OnePlace, Apart
<1>6. PICK j \in DOMAIN q : q[j].resource = r /\ q[j].lastFrame >= f
  BY <1>5 DEF Kept
<1>7. NoTwice(q)
  BY DEF OnePlace, Apart
<1>8. j = i
  BY <1>6, <1>7 DEF NoTwice
<1>9. q \in Seq(ZombieType(Resources))
  BY DEF IInv, TypeOK
<1>10. q[i].lastFrame \in Nat
  BY <1>9, ZombieTypes
<1> QED BY <1>1, <1>6, <1>8, <1>10

\* Mapping the render buffer: mapped goes to the pool, and what comes out of it
\* is not in use, unless it is the buffer that went in.
LEMMA MapApart ==
    ASSUME IInv, OnePlace, MapRenderBuffer
    PROVE  /\ OnePlace'
           /\ mapped' # mapped => mapped' \notin InUse
           /\ pool'.flush = pool.flush
<1> DEFINE full == IF mapped = None THEN pool.buffer
                   ELSE Recycle(pool.buffer, mapped, currentFrame)
<1>1. /\ Running
      /\ UNCHANGED purgatory
      /\ \E a \in Acquired(full, safeFrame) :
            /\ mapped' = a.buffer
            /\ pool' = [pool EXCEPT !.buffer = a.rest]
            /\ held' = (held \ {mapped}) \cup {a.buffer}
  BY DEF MapRenderBuffer
<1>2. /\ pool \in [{"flush", "buffer"} -> Seq(ZombieType(Resources))]
      /\ pool.buffer \in Seq(ZombieType(Resources))
      /\ mapped \in (held \ {BufferPool}) \cup {None}
      /\ held \subseteq Objects
      /\ safeFrame \in Nat /\ currentFrame \in Frames
      /\ safeFrame <= gpuFrame
  BY <1>1, Numbers DEF IInv, TypeOK, Objects, FramesInOrder, Running
<1>3. /\ NoTwice(pool.buffer) /\ held \cap Waiting(pool.buffer) = {}
      /\ Waiting(pool.buffer) \subseteq Live
      /\ held \subseteq Live
  BY DEF OnePlace, Apart, Live
<1>4. /\ full \in Seq(ZombieType(Resources))
      /\ NoTwice(full)
      /\ Waiting(full) = Waiting(pool.buffer) \cup (held \cap {mapped})
      /\ \A i \in DOMAIN full :
             full[i].resource # mapped => i \in DOMAIN pool.buffer
                                          /\ full[i] = pool.buffer[i]
  <2>1. CASE mapped = None
    <3>1. full = pool.buffer
      BY <2>1
    <3>2. None \notin held
      BY <1>2, GpuResourcesAssumption DEF Objects
    <3> QED BY <1>2, <1>3, <2>1, <3>1, <3>2
  <2>2. CASE mapped # None
    <3>1. full = Append(pool.buffer, Zombie(mapped, currentFrame))
      BY <2>2 DEF Recycle
    <3>2. mapped \in held /\ mapped \in Resources
      BY <1>2, <2>2 DEF Objects
    <3>3. Zombie(mapped, currentFrame) \in ZombieType(Resources)
      BY <1>2, <3>2 DEF Zombie, ZombieType
    <3>4. Zombie(mapped, currentFrame).resource = mapped
      BY DEF Zombie
    <3>5. /\ Append(pool.buffer, Zombie(mapped, currentFrame)) \in Seq(ZombieType(Resources))
          /\ DOMAIN Append(pool.buffer, Zombie(mapped, currentFrame)) = 1 .. (Len(pool.buffer) + 1)
          /\ \A i \in DOMAIN pool.buffer :
                Append(pool.buffer, Zombie(mapped, currentFrame))[i] = pool.buffer[i]
          /\ Append(pool.buffer, Zombie(mapped, currentFrame))[Len(pool.buffer) + 1]
                = Zombie(mapped, currentFrame)
      BY <1>2, <3>3, AppendKeeps
    <3>6. /\ Waiting(Append(pool.buffer, Zombie(mapped, currentFrame)))
                = Waiting(pool.buffer) \cup {mapped}
          /\ NoTwice(Append(pool.buffer, Zombie(mapped, currentFrame)))
      BY <1>2, <1>3, <3>2, <3>3, <3>4, AppendUnique
    <3> HIDE DEF full
    <3>7. ASSUME NEW i \in DOMAIN full, full[i].resource # mapped
          PROVE  i \in DOMAIN pool.buffer /\ full[i] = pool.buffer[i]
      <4>1. i \in 1 .. (Len(pool.buffer) + 1) /\ i # Len(pool.buffer) + 1
        BY <3>1, <3>4, <3>5, <3>7
      <4>2. i \in DOMAIN pool.buffer
        BY <1>2, <4>1
      <4> QED BY <3>1, <3>5, <4>2
    <3> QED BY <3>1, <3>2, <3>5, <3>6, <3>7
  <2> QED BY <2>1, <2>2
<1> HIDE DEF full
<1>5. PICK a \in Acquired(full, safeFrame) :
            /\ mapped' = a.buffer
            /\ pool' = [pool EXCEPT !.buffer = a.rest]
            /\ held' = (held \ {mapped}) \cup {a.buffer}
  BY <1>1
<1>6. Waiting(full) \subseteq Live
  BY <1>3, <1>4
<1>7. /\ NoTwice(a.rest)
      /\ Waiting(a.rest) \subseteq Waiting(full)
      /\ a.buffer \notin Waiting(a.rest)
      /\ \/ \E i \in DOMAIN full :
               full[i].resource = a.buffer /\ full[i].lastFrame <= safeFrame
         \/ a.buffer \in Resources \ Live
  BY <1>2, <1>4, <1>6, AcquireUnique
<1>8. pool'.flush = pool.flush /\ pool'.buffer = a.rest
  BY <1>2, <1>5
<1>9. OnePlace'
  <2>1. a.buffer \in Waiting(full) \/ a.buffer \notin Live
    BY <1>7 DEF Waiting
  <2>2. a.buffer \notin Waiting(purgatory) /\ a.buffer \notin Waiting(pool.flush)
    BY <1>2, <1>4, <2>1 DEF OnePlace, Apart, Live
  <2>3. Apart((held \ {mapped}) \cup {a.buffer}, purgatory, pool.flush, a.rest)
    BY <1>4, <1>7, <2>2 DEF OnePlace, Apart
  <2> QED BY <1>1, <1>5, <1>8, <2>3 DEF OnePlace
<1>10. ASSUME a.buffer # mapped
       PROVE  a.buffer \notin InUse
  <2>1. CASE a.buffer \in Resources \ Live
    <3>1. InUse \subseteq Live
      BY InUseIsLive DEF NothingInUseIsDeleted
    <3> QED BY <2>1, <3>1
  <2>2. ASSUME NEW i \in DOMAIN full,
               full[i].resource = a.buffer, full[i].lastFrame <= safeFrame
        PROVE  a.buffer \notin InUse
    <3>1. i \in DOMAIN pool.buffer /\ full[i] = pool.buffer[i]
      BY <1>4, <1>10, <2>2
    <3>2. pool.buffer[i].lastFrame \in Nat
      BY <1>2, <3>1, ZombieTypes
    <3>3. pool.buffer[i].lastFrame <= gpuFrame
      BY <1>2, <2>2, <3>1, <3>2, Numbers DEF IInv
    <3> QED BY <2>2, <3>1, <3>3, PooledIsUnused
  <2> QED BY <1>7, <2>1, <2>2
<1> QED BY <1>5, <1>8, <1>9, <1>10

\* A flush: the buffer it takes from the pool is not in use before it.
LEMMA FlushApart ==
    ASSUME IInv, OnePlace, Flush
    PROVE  /\ OnePlace'
           /\ mapped' = mapped
           /\ pool'.flush # <<>>
           /\ pool'.flush[Len(pool'.flush)].resource \notin InUse
<1>1. held' = held /\ mapped' = mapped /\ image # None
  BY DEF Flush
<1>2. PICK n \in 0 .. Len(purgatory), a \in Acquired(pool.flush, imageSafe) :
        /\ purgatory' = Rest(purgatory, n)
        /\ pool' = [flush |-> Recycle(a.rest, a.buffer, swapFrame),
                    buffer |-> IF BufferPool \in Waiting(SubSeq(purgatory, 1, n))
                               THEN <<>> ELSE pool.buffer]
  BY DEF Flush
<1>3. /\ purgatory \in Seq(ZombieType(Objects))
      /\ pool.flush \in Seq(ZombieType(Resources))
      /\ imageSafe \in Nat /\ imageSafe <= gpuFrame
      /\ swapFrame \in Frames
  BY Numbers DEF IInv, TypeOK, Objects, FramesInOrder
<1>4. /\ Waiting(Rest(purgatory, n)) \subseteq Waiting(purgatory)
      /\ NoTwice(Rest(purgatory, n))
  BY <1>3, RestUnique DEF OnePlace, Apart
<1>5. NoTwice(pool.flush) /\ Waiting(pool.flush) \subseteq Live
  BY DEF OnePlace, Apart, Live
<1>6. /\ NoTwice(a.rest)
      /\ Waiting(a.rest) \subseteq Waiting(pool.flush)
      /\ a.buffer \notin Waiting(a.rest)
      /\ \/ \E i \in DOMAIN pool.flush :
               pool.flush[i].resource = a.buffer /\ pool.flush[i].lastFrame <= imageSafe
         \/ a.buffer \in Resources \ Live
  BY <1>3, <1>5, AcquireUnique
<1>7. a.buffer \in Resources /\ a.rest \in Seq(ZombieType(Resources))
  BY <1>3, AcquireKeeps
<1>8. /\ Zombie(a.buffer, swapFrame) \in ZombieType(Resources)
      /\ Zombie(a.buffer, swapFrame).resource = a.buffer
  BY <1>3, <1>7 DEF Zombie, ZombieType
<1>9. pool'.flush = Append(a.rest, Zombie(a.buffer, swapFrame))
      /\ (pool'.buffer = <<>> \/ pool'.buffer = pool.buffer)
  BY <1>2 DEF Recycle
<1>10. /\ Waiting(pool'.flush) = Waiting(a.rest) \cup {a.buffer}
       /\ NoTwice(pool'.flush)
  BY <1>6, <1>7, <1>8, <1>9, AppendUnique
<1>11. NoTwice(<<>>) /\ Waiting(<<>>) = {}
  BY DEF NoTwice, Waiting
<1>12. /\ NoTwice(pool'.buffer) /\ Waiting(pool'.buffer) \subseteq Waiting(pool.buffer)
  BY <1>9, <1>11 DEF OnePlace, Apart
<1>13. OnePlace'
  <2>1. a.buffer \in Waiting(pool.flush) \/ a.buffer \notin Live
    BY <1>6 DEF Waiting
  <2>2. /\ a.buffer \notin Waiting(purgatory) /\ a.buffer \notin Waiting(pool.buffer)
        /\ a.buffer \notin held
    BY <2>1 DEF OnePlace, Apart, Live
  <2>3. Apart(held, Rest(purgatory, n), pool'.flush, pool'.buffer)
    BY <1>4, <1>6, <1>10, <1>12, <2>2 DEF OnePlace, Apart
  <2> QED BY <1>1, <1>2, <2>3 DEF OnePlace
<1>14. a.buffer \notin InUse
  <2>1. CASE a.buffer \in Resources \ Live
    BY <2>1, InUseIsLive DEF NothingInUseIsDeleted
  <2>2. ASSUME NEW i \in DOMAIN pool.flush,
               pool.flush[i].resource = a.buffer, pool.flush[i].lastFrame <= imageSafe
        PROVE  a.buffer \notin InUse
    <3>1. pool.flush[i].lastFrame \in Nat
      BY <1>3, ZombieTypes
    <3>2. pool.flush[i].lastFrame <= gpuFrame
      BY <1>3, <2>2, <3>1, Numbers DEF IInv
    <3> QED BY <2>2, <3>2, PooledIsUnused
  <2> QED BY <1>6, <2>1, <2>2
<1>15. pool'.flush[Len(pool'.flush)] = Zombie(a.buffer, swapFrame) /\ pool'.flush # <<>>
  BY <1>7, <1>8, <1>9
<1> QED BY <1>1, <1>8, <1>13, <1>14, <1>15

\* What the property says of one step.
WritesNothingInUse ==
    /\ mapped' \notin {mapped, None} => mapped' \notin InUse
    /\ pool'.flush # pool.flush /\ pool'.flush # <<>> =>
         pool'.flush[Len(pool'.flush)].resource \notin InUse

\* The steps that leave the objects where they are.
LEMMA StayApart ==
    ASSUME OnePlace, UNCHANGED <<held, purgatory, pool>>
    PROVE  OnePlace'
<1>1. Apart(held, purgatory, pool.flush, pool.buffer)
  BY DEF OnePlace
<1> QED BY <1>1 DEF OnePlace

\* Every step keeps every object in one place and writes nothing in use.
LEMMA NextApart ==
    ASSUME IInv, OnePlace, [Next]_vars
    PROVE  OnePlace' /\ WritesNothingInUse
<1>1. ASSUME NEW r \in Resources, Create(r)
      PROVE  OnePlace' /\ WritesNothingInUse
  <2>1. /\ r \notin Live /\ held' = held \cup {r}
        /\ UNCHANGED <<purgatory, pool>> /\ mapped' = mapped
    BY <1>1 DEF Create
  <2> QED BY <2>1, CreateApart DEF WritesNothingInUse
<1>2. ASSUME NEW r \in Resources, Release(r)
      PROVE  OnePlace' /\ WritesNothingInUse
  <2>1. pool' = pool /\ mapped' = mapped
    BY <1>2 DEF Release
  <2> QED BY <1>2, <2>1, ReleaseApart DEF WritesNothingInUse
<1>3. CASE MakeRenderBuffer
  <2>1. /\ BufferPool \notin Live /\ held' = held \cup {BufferPool}
        /\ UNCHANGED <<purgatory, pool>> /\ mapped' = mapped
    BY <1>3 DEF MakeRenderBuffer
  <2> QED BY <2>1, CreateApart DEF WritesNothingInUse
<1>4. CASE MapRenderBuffer
  BY <1>4, MapApart DEF WritesNothingInUse
<1>5. CASE DeleteRenderBuffer
  <2>1. mapped' = None /\ pool'.flush = pool.flush
    <3>1. pool \in [{"flush", "buffer"} -> Seq(ZombieType(Resources))]
      BY DEF IInv, TypeOK
    <3> QED BY <1>5, <3>1 DEF DeleteRenderBuffer
  <2> QED BY <1>5, <2>1, DeleteApart DEF WritesNothingInUse
<1>6. CASE Flush
  BY <1>6, FlushApart DEF WritesNothingInUse
<1>7. CASE Shutdown
  <2>1. mapped' = mapped /\ pool'.flush = <<>>
    BY <1>7 DEF Shutdown
  <2> QED BY <1>7, <2>1, ShutdownApart DEF WritesNothingInUse
<1>8. CASE UNCHANGED <<held, purgatory, pool, mapped>>
  BY <1>8, StayApart DEF WritesNothingInUse
<1>9. ASSUME NEW i \in Images, AcquireNextImage(i)
      PROVE  UNCHANGED <<held, purgatory, pool, mapped>>
  BY <1>9 DEF AcquireNextImage, managerVars
<1>10. Submit \/ Resize \/ GpuExecutesFrame \/ ShowQueued \/ UNCHANGED vars
         => UNCHANGED <<held, purgatory, pool, mapped>>
  BY DEF Submit, Resize, GpuExecutesFrame, ShowQueued, vars, managerVars
<1> QED BY <1>1, <1>2, <1>3, <1>4, <1>5, <1>6, <1>7, <1>8, <1>9, <1>10 DEF Next

\* In the beginning there are no objects.
LEMMA InitApart ==
    ASSUME Init
    PROVE  OnePlace
<1>1. /\ held = {} /\ purgatory = <<>> /\ pool.flush = <<>> /\ pool.buffer = <<>>
  BY DEF Init
<1>2. NoTwice(<<>>) /\ Waiting(<<>>) = {}
  BY DEF NoTwice, Waiting
<1> QED BY <1>1, <1>2 DEF OnePlace, Apart

(***************************************************************************)
(* The theorems                                                            *)
(***************************************************************************)

\* The invariant holds of every program that renders with the manager.
THEOREM Invariant == Spec => []IInv
<1>1. Init => IInv
  BY InitIInv
<1>2. IInv /\ [Next]_vars => IInv'
  BY NextIInv
<1> QED BY <1>1, <1>2, PTL DEF Spec

\* Every variable holds a value the code can store in it.
THEOREM TypeCorrectness == Spec => []TypeOK
<1>1. IInv => TypeOK
  BY DEF IInv
<1> QED BY <1>1, Invariant, PTL

\* Whatever a command buffer refers to that the GPU has not executed yet has not
\* been deleted.
THEOREM NothingInUseIsEverDeleted == Spec => []NothingInUseIsDeleted
<1>1. IInv => NothingInUseIsDeleted
  BY InUseIsLive
<1> QED BY <1>1, Invariant, PTL

\* The purgatory keeps nothing whose frame is safe.
THEOREM PurgatoryIsNeverLate == Spec => []NothingOverstays
<1>1. IInv => NothingOverstays
  <2> SUFFICES ASSUME IInv, NEW i \in DOMAIN purgatory
               PROVE  purgatory[i].lastFrame > safeFrame
    BY DEF NothingOverstays
  <2>1. purgatory \in Seq(ZombieType(Resources \cup {BufferPool}))
    BY DEF IInv, TypeOK
  <2>2. safeFrame < purgatory[i].lastFrame
    BY DEF IInv, NumberedInOrder, InOrder
  <2>3. purgatory[i].lastFrame \in Nat /\ safeFrame \in Nat
    BY <2>1, ZombieTypes, Numbers DEF IInv
  <2> QED BY <2>2, <2>3
<1> QED BY <1>1, Invariant, PTL

\* A buffer that is written for a flush or by a map is not one the GPU may still
\* read.
THEOREM NothingInUseIsEverRewritten == Spec => NothingInUseIsRewritten
<1>1. Init => OnePlace
  BY InitApart
<1>2. IInv /\ OnePlace /\ [Next]_vars => OnePlace'
  BY NextApart
<1>3. IInv /\ OnePlace /\ [Next]_vars
        => [/\ mapped' \notin {mapped, None} => mapped' \notin InUse
            /\ pool'.flush # pool.flush /\ pool'.flush # <<>> =>
                 pool'.flush[Len(pool'.flush)].resource \notin InUse]_vars
  BY NextApart DEF WritesNothingInUse
<1> QED BY <1>1, <1>2, <1>3, Invariant, PTL DEF Spec, NothingInUseIsRewritten
===============================================================================
