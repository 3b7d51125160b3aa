-------------------- MODULE SubPicQueuePictureProofs ---------------------
(***************************************************************************)
(* Proofs about SubPicQueue, continued: which pictures are in the queue,   *)
(* what the presenter finds there, and that the queue implements the       *)
(* ordered buffer of PictureBuffer.                                        *)
(***************************************************************************)
EXTENDS SubPicQueueProofs

(***************************************************************************)
(* The inductive invariant, on top of IInv.  Drawn and AllFormed give the  *)
(* times of the pictures, Dropped and Unmixed say that a picture which     *)
(* should not join the queue is going to be dropped, because the           *)
(* invalidation that it missed is still pending.                           *)
(***************************************************************************)
Drawn == ren.pc \in {"render", "enqueue", "late"} => Subtitle.start <= ren.cur

Formed(pic) == pic.segStart <= pic.start /\ pic.stop <= pic.segStop /\ 0 < pic.stop
AllFormed ==
    /\ \A i \in 1 .. Len(queue) : Formed(queue[i])
    /\ ren.pic # Nothing => Formed(ren.pic)

Dropped ==
    \/ weakened
    \/ /\ \A i \in 1 .. Len(queue) : ~queue[i].stale
       /\ ren.pic # Nothing /\ ren.pic.stale => bInvalidate /\ rtInvalidate < ren.pic.stop

\* A change of provider that R has not seen is pending.
Replaced == bInvalidate /\ rtInvalidate = -1
Unmixed ==
    \/ weakened \/ forgotten
    \/ /\ \A i \in 1 .. Len(queue) : ~queue[i].mixed
       /\ ren.pic # Nothing /\ ren.pic.mixed => Replaced
       /\ ren.gen # 0 /\ ren.gen # gen => Replaced

PInv == Drawn /\ AllFormed /\ Dropped /\ Unmixed

LEMMA InitPInv == Init => PInv
BY DEF Init, PInv, Drawn, AllFormed, Dropped, Unmixed

-----------------------------------------------------------------------------
(***************************************************************************)
(* What the steps do to the queue.                                         *)
(***************************************************************************)
\* The queue keeps some of its pictures as they are, in their order.
Picked ==
    \E off \in Nat :
        /\ Len(queue') + off <= Len(queue)
        /\ \A i \in 1 .. Len(queue') : queue'[i] = queue[i + off]

LEMMA SameQueue == ASSUME QueueTypeOK, queue' = queue PROVE Picked
<1>1. Len(queue') + 0 <= Len(queue) /\ \A i \in 1 .. Len(queue') : i + 0 = i
  BY DEF QueueTypeOK
<1> QED
  BY <1>1 DEF Picked

\* Since the queue is sorted, Invalidate leaves no picture that ends after its
\* time: it marks none of those that it leaves.
LEMMA CutKeeps ==
    ASSUME IInv, NEW rt \in Int, CutQueue(rt)
    PROVE  \E n \in 0 .. Len(queue) :
              /\ queue' = [i \in 1 .. n |-> queue[i]]
              /\ n > 0 => queue[n].stop <= rt
              /\ \A i \in n + 1 .. Len(queue) : queue[i].stop > rt
<1>1. PICK n \in 0 .. Len(queue) :
        /\ n > 0 => queue[n].stop <= rt
        /\ \A i \in n + 1 .. Len(queue) : queue[i].stop > rt
        /\ queue' = [i \in 1 .. n |-> Mark(queue[i], rt)]
  BY DEF CutQueue
<1>2. Len(queue) \in Nat
  BY DEF IInv, TypeOK, QueueTypeOK
<1>3. \A i \in 1 .. n : Mark(queue[i], rt) = queue[i]
  <2> SUFFICES ASSUME NEW i \in 1 .. n PROVE queue[i].stop <= rt
    BY <1>2, QueueFacts DEF Mark, IInv, TypeOK
  <2>1. queue[n].stop <= rt /\ n \in 1 .. Len(queue) /\ i \in 1 .. Len(queue)
    BY <1>1, <1>2
  <2>2. queue[i].stop \in Int /\ queue[n].stop \in Int
    BY <2>1, QueueFacts DEF IInv, TypeOK
  <2>3. i = n \/ queue[i].stop < queue[n].stop
    BY <2>1 DEF IInv, QueueSorted
  <2> QED
    BY <2>1, <2>2, <2>3
<1>4. queue' = [i \in 1 .. n |-> queue[i]]
  BY <1>1, <1>3
<1> QED
  BY <1>1, <1>4

LEMMA CutPicked == ASSUME IInv, NEW rt \in Int, CutQueue(rt) PROVE Picked
<1>1. PICK n \in 0 .. Len(queue) : queue' = [i \in 1 .. n |-> queue[i]]
  BY CutKeeps
<1>2. Len(queue) \in Nat /\ n \in Nat /\ n <= Len(queue)
  BY DEF IInv, TypeOK, QueueTypeOK
<1>3. Len(queue') = n
  <2>1. \A i \in 1 .. n : queue[i] \in Pics
    BY <1>2, ElementOfSeq DEF IInv, TypeOK, QueueTypeOK
  <2> QED
    BY <1>1, <1>2, <2>1, IsASeq
<1>4. Len(queue') + 0 <= Len(queue) /\ \A i \in 1 .. Len(queue') : queue'[i] = queue[i + 0]
  BY <1>1, <1>2, <1>3
<1> QED
  BY <1>4 DEF Picked

LEMMA SuffixPicked ==
    ASSUME IInv, NEW n \in 1 .. Len(queue) + 1, queue' = SubSeq(queue, n, Len(queue))
    PROVE  Picked
<1>1. Len(queue) \in Nat /\ n \in Int
  BY DEF IInv, TypeOK, QueueTypeOK
<1>2. \A i \in n .. Len(queue) : queue[i] \in Pics
  BY <1>1, ElementOfSeq DEF IInv, TypeOK, QueueTypeOK
<1>3. /\ Len(queue') = IF n <= Len(queue) THEN Len(queue) - n + 1 ELSE 0
      /\ \A i \in 1 .. Len(queue) - n + 1 : queue'[i] = queue[n + i - 1]
  BY <1>1, <1>2, SubSeqProperties
<1>4. n - 1 \in Nat /\ Len(queue') + (n - 1) <= Len(queue)
  BY <1>1, <1>3
<1>5. \A i \in 1 .. Len(queue') : queue'[i] = queue[i + (n - 1)]
  BY <1>1, <1>3
<1> QED
  BY <1>4, <1>5 DEF Picked

-----------------------------------------------------------------------------
(***************************************************************************)
(* The pictures.                                                           *)
(***************************************************************************)
flags == <<bInvalidate, rtInvalidate, gen, history>>

\* A step that adds no picture, neither to the queue nor to R.
LEMMA Kept ==
    ASSUME IInv, PInv, Picked, Drawn', UNCHANGED flags,
           ren'.pic \in {ren.pic, Nothing}, ren'.gen \in {ren.gen, 0, gen}
    PROVE  PInv'
<1> USE DEF PInv, flags, history
<1>1. PICK off \in Nat :
        /\ Len(queue') + off <= Len(queue)
        /\ \A i \in 1 .. Len(queue') : queue'[i] = queue[i + off]
  BY DEF Picked
<1>2. \A i \in 1 .. Len(queue') : i + off \in 1 .. Len(queue)
  BY <1>1 DEF IInv, TypeOK, QueueTypeOK
<1>3. AllFormed'
  BY <1>1, <1>2 DEF AllFormed
<1>4. Dropped'
  BY <1>1, <1>2 DEF Dropped
<1>5. Unmixed'
  BY <1>1, <1>2 DEF Unmixed, Replaced
<1> QED
  BY <1>3, <1>4, <1>5

\* What Invalidate finds in the hands of R it marks, and R will drop it.
LEMMA Invalidated ==
    ASSUME IInv, PInv, NEW rt \in Nat \cup {-1}, Invalidate(rt),
           gen' = gen \/ rt = -1,
           ren.gen # 0 => provOf'[ren.gen] = provOf[ren.gen], content' = content
    PROVE  PInv'
<1> USE DEF PInv
<1>1. CutQueue(rt) /\ rt \in Int
  BY DEF Invalidate
<1>2. Picked
  BY <1>1, CutPicked
<1>3. PICK off \in Nat :
        /\ Len(queue') + off <= Len(queue)
        /\ \A i \in 1 .. Len(queue') : queue'[i] = queue[i + off]
  BY <1>2 DEF Picked
<1>4. \A i \in 1 .. Len(queue') : i + off \in 1 .. Len(queue)
  BY <1>3 DEF IInv, TypeOK, QueueTypeOK
<1>5. /\ ren'.pc = Awake(ren.pc) /\ ren'.pic = Mark(ren.pic, rt)
      /\ ren'.gen = ren.gen /\ ren'.pos = ren.pos /\ ren'.cur = ren.cur
  BY DEF Invalidate, IInv, TypeOK, RenTypeOK
<1>6. ren.pic \in Pics \cup {Nothing}
  BY DEF IInv, TypeOK, RenTypeOK
<1>7. /\ ren'.pic = Nothing <=> ren.pic = Nothing
      /\ ren.pic # Nothing =>
           /\ ren'.pic.stop = ren.pic.stop /\ ren'.pic.start = ren.pic.start
           /\ ren'.pic.segStart = ren.pic.segStart /\ ren'.pic.segStop = ren.pic.segStop
           /\ ren'.pic.mixed = ren.pic.mixed
           /\ ren'.pic.stale => ren.pic.stale \/ rt < ren.pic.stop
  <2>1. CASE ren.pic = Nothing
    BY <1>5, <2>1 DEF Mark
  <2>2. CASE ren.pic # Nothing
    <3>1. ren.pic \in Pics /\ [ren.pic EXCEPT !.stale = TRUE] \in Pics /\ Nothing \notin Pics
      BY <1>6, <2>2, NullAssumption DEF Pics
    <3> QED
      BY <1>5, <2>2, <3>1 DEF Mark, Pics
  <2> QED
    BY <2>1, <2>2
<1>8. Drawn'
  <2> SUFFICES ASSUME ren'.pc \in {"render", "enqueue", "late"}
               PROVE  Subtitle'.start <= ren'.cur
    BY DEF Drawn
  <2>1. ren.pc = ren'.pc
    BY <1>5 DEF Awake
  <2>2. ren.gen # 0
    BY <2>1 DEF IInv, RPlace, Reading, InSubtitle, Gens
  <2>3. Subtitle' = Subtitle
    BY <1>5, <2>2 DEF Subtitle, Subtitles
  <2> QED
    BY <1>5, <2>1, <2>3 DEF Drawn
<1>9. AllFormed'
  BY <1>3, <1>4, <1>7 DEF AllFormed, Formed
<1>10. /\ bInvalidate' = TRUE /\ rtInvalidate' = rt
       /\ weakened' = (weakened \/ (bInvalidate /\ rt > rtInvalidate))
       /\ forgotten' = forgotten
  BY DEF Invalidate
<1>11. rtInvalidate \in Nat \cup {-1} /\ (ren.pic # Nothing => ren.pic.stop \in Int)
  BY <1>6 DEF IInv, TypeOK, TimeTypeOK, Pics
<1>12. Dropped'
  <2> SUFFICES ASSUME ~weakened' PROVE Dropped'
    BY DEF Dropped
  <2>0. ~weakened /\ ~(bInvalidate /\ rt > rtInvalidate)
    BY <1>10
  <2>1. ~weakened /\ (bInvalidate => rt <= rtInvalidate)
    BY <1>11, <2>0
  <2>2. \A i \in 1 .. Len(queue') : ~queue'[i].stale
    BY <1>3, <1>4, <2>1 DEF Dropped
  <2>3. ren'.pic # Nothing /\ ren'.pic.stale => bInvalidate' /\ rtInvalidate' < ren'.pic.stop
    BY <1>7, <1>10, <1>11, <2>1 DEF Dropped
  <2> QED
    BY <2>2, <2>3 DEF Dropped
<1>13. Unmixed'
  <2> SUFFICES ASSUME ~weakened', ~forgotten' PROVE Unmixed'
    BY DEF Unmixed
  <2>0. ~weakened /\ ~forgotten /\ ~(bInvalidate /\ rt > rtInvalidate)
    BY <1>10
  <2>1. ~weakened /\ ~forgotten /\ (bInvalidate => rt <= rtInvalidate)
    BY <1>11, <2>0
  <2>2. \A i \in 1 .. Len(queue') : ~queue'[i].mixed
    BY <1>3, <1>4, <2>1 DEF Unmixed
  <2>3. Replaced => Replaced'
    BY <1>10, <2>1 DEF Replaced
  <2>4. rt = -1 => Replaced'
    BY <1>10 DEF Replaced
  <2> QED
    BY <1>5, <1>7, <2>1, <2>2, <2>3, <2>4 DEF Unmixed
<1> QED
  BY <1>8, <1>9, <1>12, <1>13

\* R adds its picture, or drops it, and has none afterwards.
LEMMA Enqueued ==
    ASSUME IInv, PInv, ren.pic # Nothing, AppendOrDrop, ren'.pic = Nothing, Drawn',
           ren'.gen = ren.gen
    PROVE  PInv'
<1> USE DEF PInv
<1>1. UNCHANGED flags
  BY DEF AppendOrDrop, ElseUnchanged, locks, flags
<1>2. CASE Outdated(ren.pic)
  <2>1. queue' = queue
    BY <1>2 DEF AppendOrDrop
  <2>2. Picked
    BY <2>1, SameQueue DEF IInv, TypeOK
  <2> QED
    BY <1>1, <2>2, Kept
<1>3. CASE ~Outdated(ren.pic)
  <2>1. ren.pic \in Pics /\ Len(queue) \in Nat
    BY DEF IInv, TypeOK, RenTypeOK, QueueTypeOK
  <2>2. queue' = Append(queue, ren.pic)
    BY <1>3 DEF AppendOrDrop
  <2>3. /\ Len(queue') = Len(queue) + 1
        /\ \A i \in 1 .. Len(queue) : queue'[i] = queue[i]
        /\ queue'[Len(queue) + 1] = ren.pic
    BY <2>1, <2>2, AppendProperties DEF IInv, TypeOK, QueueTypeOK
  <2>4. \A i \in 1 .. Len(queue') : i \in 1 .. Len(queue) \/ i = Len(queue) + 1
    BY <2>1, <2>3
  <2>5. AllFormed'
    BY <2>3, <2>4 DEF AllFormed
  <2>6. ~(bInvalidate /\ rtInvalidate < ren.pic.stop)
    BY <1>3, <2>1 DEF Outdated, Pics, IInv, TypeOK, TimeTypeOK
  <2>7. Dropped'
    BY <1>1, <2>3, <2>4, <2>6 DEF Dropped, flags, history
  \* A picture ends after 0, so that the change of provider makes R drop it.
  <2>8. ~Replaced
    BY <2>1, <2>6 DEF Replaced, AllFormed, Formed, Pics
  <2>9. Unmixed'
    BY <1>1, <2>3, <2>4, <2>8 DEF Unmixed, Replaced, flags, history
  <2> QED
    BY <2>5, <2>7, <2>9
<1> QED
  BY <1>2, <1>3

\* The picture that R renders.
LEMMA PictureFormed ==
    ASSUME IInv, PInv, ren.pc = "render"
    PROVE  LET pic == Picture(Subtitle)
           IN  Formed(pic) /\ ~pic.stale /\ (pic.mixed <=> gen # ren.gen)
<1> DEFINE s == Subtitle
<1>1. /\ s.start \in Nat /\ s.stop \in Int /\ ren.cur < s.stop /\ s.start <= ren.cur
  BY SubtitleFacts DEF IInv, PInv, Drawn, Line, Progress, InSubtitle
<1>2. /\ ren.cur \in Int /\ ren.rate.frame \in Nat /\ ren.rate.frame >= 2
      /\ ren.rate.sub \in Nat /\ ren.rate.sub >= 2
  BY DEF IInv, TypeOK, RenTypeOK, Rate
<1> DEFINE sr == StopReal(s)
           part == (ren.rate.sub * 3) \div 4
<1>3. sr \in Int /\ ren.cur < sr
  BY <1>1, <1>2 DEF StopReal
<1>4. part \in Int /\ 1 <= part
  BY <1>2
<1>5. (gen # ren.gen) \in BOOLEAN
  OBVIOUS
<1> HIDE DEF s, sr, part
<1>6. CASE Animated(s)
  <2>1. Picture(s) = [start |-> ren.cur, stop |-> Smaller(ren.cur + part, sr),
                      segStart |-> s.start, segStop |-> Larger(ren.cur + ren.rate.frame, sr),
                      stale |-> FALSE, mixed |-> (gen # ren.gen)]
    BY <1>6 DEF Picture, part, sr
  <2>2. /\ 0 < Smaller(ren.cur + part, sr)
        /\ Smaller(ren.cur + part, sr) <= Larger(ren.cur + ren.rate.frame, sr)
    BY <1>1, <1>2, <1>3, <1>4 DEF Smaller, Larger
  <2>3. Formed(Picture(s))
    BY <1>1, <2>1, <2>2 DEF Formed
  <2>4. ~Picture(s).stale /\ Picture(s).mixed = (gen # ren.gen)
    BY <2>1
  <2> QED
    BY <2>3, <2>4 DEF s
<1>7. CASE ~Animated(s)
  <2>1. Picture(s) = [start |-> s.start, stop |-> sr, segStart |-> s.start, segStop |-> sr,
                      stale |-> FALSE, mixed |-> (gen # ren.gen)]
    BY <1>7 DEF Picture, sr
  <2>2. 0 < sr /\ s.start <= s.start /\ sr <= sr
    BY <1>1, <1>2, <1>3
  <2>3. Formed(Picture(s))
    BY <2>1, <2>2 DEF Formed
  <2>4. ~Picture(s).stale /\ Picture(s).mixed = (gen # ren.gen)
    BY <2>1
  <2> QED
    BY <2>3, <2>4 DEF s
<1> QED
  BY <1>6, <1>7

\* R has a new picture.
LEMMA Rendered ==
    ASSUME IInv, PInv, ren.pc = "render", UNCHANGED <<queue, flags>>, Drawn',
           ren'.pic = Picture(Subtitle), ren'.gen = ren.gen
    PROVE  PInv'
<1> USE DEF PInv, flags, history
<1>1. /\ Formed(ren'.pic) /\ ~ren'.pic.stale
      /\ ren'.pic.mixed <=> gen # ren.gen
  BY PictureFormed
<1>2. ren.gen # 0
  BY DEF IInv, RPlace, Reading, InSubtitle, Gens
<1>3. AllFormed' /\ Dropped'
  BY <1>1 DEF AllFormed, Dropped
<1>4. Unmixed'
  BY <1>1, <1>2 DEF Unmixed, Replaced
<1> QED
  BY <1>3, <1>4

-----------------------------------------------------------------------------
(***************************************************************************)
(* The steps.                                                              *)
(***************************************************************************)
\* A step of R that renders nothing and enqueues nothing.
LEMMA RendererIdles ==
    ASSUME IInv, IInv', PInv,
           \/ RLoop \/ RWaitEvent \/ RFetchProvider \/ RLock \/ RReadTail \/ RStartRendering
           \/ RQueueFull \/ RUnlock \/ RSleepFull
    PROVE  PInv'
<1> USE DEF IInv, TypeOK
<1>1. UNCHANGED <<queue, flags>>
  BY DEF RLoop, RWaitEvent, RFetchProvider, RLock, RReadTail, RStartRendering, RQueueFull,
         RUnlock, RSleepFull, OnlyR, ElseUnchanged, LockProvider, UnlockProvider,
         data, locks, history, flags
<1>2. Picked
  BY <1>1, SameQueue
<1>3. ren'.pic = ren.pic /\ ren'.gen \in {ren.gen, 0, gen}
  BY ZenonT(30) DEF RLoop, RWaitEvent, RFetchProvider, RLock, RReadTail, RStartRendering, RQueueFull,
         RUnlock, RSleepFull, RenTypeOK
<1>4. ren'.pc \notin {"render", "enqueue", "late"}
  <2>1. CASE RLoop \/ RFetchProvider
    <3>1. ren'.pc \in {"done", "event", "fetch"} \/ ren'.pc \in {"top", "lock"}
      BY <2>1 DEF RLoop, RFetchProvider, RenTypeOK
    <3> QED
      BY <3>1
  <2>4. CASE RWaitEvent \/ RLock \/ RReadTail
    BY <2>4 DEF RWaitEvent, RLock, RReadTail, RenTypeOK
  <2>2. CASE RQueueFull \/ RUnlock \/ RSleepFull
    BY <2>2 DEF RQueueFull, RUnlock, RSleepFull, RenTypeOK
  <2>3. CASE RStartRendering
    <3>1. ren'.pc \in {"unlock", "pos"}
      BY <2>3 DEF RStartRendering, RenTypeOK
    <3> QED
      BY <3>1
  <2> QED
    BY <2>1, <2>2, <2>3, <2>4
<1> QED
  BY <1>1, <1>2, <1>3, <1>4, Kept DEF Drawn

\* On to the next subtitle, with the same picture or none.
LEMMA NextPosDrawn ==
    ASSUME RenTypeOK, NEW pic, ren' = NextPos([ren EXCEPT !.pic = pic])
    PROVE  Drawn' /\ ren'.pic = pic /\ ren'.gen = ren.gen
BY DEF NextPos, RenTypeOK, Drawn

LEMMA RendererMoves ==
    ASSUME IInv, IInv', PInv,
           RBeginSubtitle \/ RRender \/ RRenderFails \/ RCopyFails \/ RCatchUp
    PROVE  PInv'
<1> USE DEF IInv, TypeOK
<1>1. /\ UNCHANGED <<queue, flags>>
      /\ UNCHANGED <<provOf, content>>
  BY DEF RBeginSubtitle, RRender, RRenderFails, RCopyFails, RCatchUp, OnlyR, ElseUnchanged,
         static, data, locks, history, flags
<1>2. Picked
  BY <1>1, SameQueue
<1>3. [ren EXCEPT !.pic = ren.pic] = ren
  BY NextPosKeeps
<1>4. ren'.gen = ren.gen /\ ren'.pos = ren.pos => Subtitle' = Subtitle
  BY <1>1 DEF Subtitle, Subtitles
<1>5. CASE RBeginSubtitle
  <2>1. CASE Subtitle.start >= rtNow + LookAhead
    BY <1>1, <1>2, <1>5, <2>1, Kept DEF RBeginSubtitle, Drawn, RenTypeOK
  <2>2. CASE ~(Subtitle.start >= rtNow + LookAhead) /\ FirstTime(Subtitle) < Subtitle.stop
    <3>1. ren' = [ren EXCEPT !.pc = "render", !.cur = FirstTime(Subtitle)]
      BY <1>5, <2>2 DEF RBeginSubtitle
    <3>2. /\ ren'.gen = ren.gen /\ ren'.pos = ren.pos /\ ren'.pic = ren.pic
          /\ ren'.cur = FirstTime(Subtitle)
      BY <3>1 DEF RenTypeOK
    <3>3. Subtitle.start \in Int
      BY <1>5, SubtitleFacts DEF RBeginSubtitle, Line, InSubtitle
    <3>4. Subtitle.start <= FirstTime(Subtitle)
      BY <1>5, <3>3, FirstTimeFacts DEF RBeginSubtitle
    <3>5. Drawn'
      BY <1>4, <3>2, <3>4 DEF Drawn
    <3> QED
      BY <1>1, <1>2, <3>2, <3>5, Kept
  <2>3. CASE ~(Subtitle.start >= rtNow + LookAhead) /\ ~(FirstTime(Subtitle) < Subtitle.stop)
    <3>1. ren' = NextPos([ren EXCEPT !.pic = ren.pic])
      BY <1>3, <1>5, <2>3 DEF RBeginSubtitle
    <3> QED
      BY <1>1, <1>2, <3>1, NextPosDrawn, Kept
  <2> QED
    BY <2>1, <2>2, <2>3
<1>6. CASE RRender
  <2>1. ren.pc = "render"
        /\ ren' = [ren EXCEPT !.pc = "enqueue", !.pic = Picture(Subtitle),
                              !.cur = NextTime(Subtitle)]
    BY <1>6 DEF RRender
  <2>2. /\ ren'.gen = ren.gen /\ ren'.pos = ren.pos /\ ren'.pic = Picture(Subtitle)
        /\ ren'.cur = NextTime(Subtitle)
    BY <2>1 DEF RenTypeOK
  <2>3. Subtitle.start <= NextTime(Subtitle)
    <3>1. /\ Picture(Subtitle).stop \in Int /\ NextTime(Subtitle) \in Int
          /\ ren.cur < Picture(Subtitle).stop /\ Picture(Subtitle).stop <= NextTime(Subtitle)
      BY <2>1, PictureFacts DEF Pics
    <3>2. Subtitle.start \in Int /\ Subtitle.start <= ren.cur /\ ren.cur \in Int
      BY <2>1, SubtitleFacts DEF Line, InSubtitle, PInv, Drawn, RenTypeOK
    <3> QED
      BY <3>1, <3>2
  <2>4. Drawn'
    BY <1>4, <2>2, <2>3 DEF Drawn
  <2> QED
    BY <1>1, <2>1, <2>2, <2>4, Rendered
<1>7. CASE RRenderFails \/ RCopyFails
  <2>1. ren.pc = "render"
    BY <1>7 DEF RRenderFails, RCopyFails
  <2>2. PICK pic \in {ren.pic, Nothing, Picture(Subtitle)} :
          ren' = NextPos([ren EXCEPT !.pic = pic])
    BY <1>3, <1>7 DEF RRenderFails, RCopyFails
  <2>3. Drawn' /\ ren'.pic = pic /\ ren'.gen = ren.gen
    BY <2>2, NextPosDrawn
  <2> QED
    BY <1>1, <1>2, <2>1, <2>2, <2>3, Kept, Rendered
<1>8. CASE RCatchUp
  <2> DEFINE cur == Larger(ren.cur, rtNow)
  <2>1. CASE cur < Subtitle.stop
    <3>1. ren' = [ren EXCEPT !.pc = "render", !.cur = cur]
      BY <1>8, <2>1 DEF RCatchUp
    <3>2. ren'.gen = ren.gen /\ ren'.pos = ren.pos /\ ren'.pic = ren.pic /\ ren'.cur = cur
      BY <3>1 DEF RenTypeOK
    <3>3. Subtitle.start \in Int /\ Subtitle.start <= ren.cur
      BY <1>8, SubtitleFacts DEF RCatchUp, Line, InSubtitle, PInv, Drawn
    <3>4. Subtitle.start <= cur
      BY <3>3 DEF Larger, RenTypeOK, TimeTypeOK
    <3>5. Drawn'
      BY <1>4, <3>2, <3>4 DEF Drawn
    <3> QED
      BY <1>1, <1>2, <3>2, <3>5, Kept
  <2>2. CASE ~(cur < Subtitle.stop)
    <3>1. ren' = NextPos([ren EXCEPT !.pic = ren.pic])
      BY <1>3, <1>8, <2>2 DEF RCatchUp
    <3> QED
      BY <1>1, <1>2, <3>1, NextPosDrawn, Kept
  <2> QED
    BY <2>1, <2>2
<1> QED
  BY <1>5, <1>6, <1>7, <1>8

\* R clears m_bInvalidate while it has no picture; a change of provider that it
\* has not seen is forgotten then.
LEMMA RendererResets == ASSUME IInv, IInv', PInv, RReset PROVE PInv'
<1> USE DEF PInv
<1>1. /\ UNCHANGED <<queue, gen, weakened>>
      /\ forgotten' = (forgotten \/ (bInvalidate /\ gen # ren.gen))
  BY DEF RReset, locks
<1>2. /\ ren.pic = Nothing /\ ren'.pic = Nothing /\ ren'.gen = ren.gen
      /\ ren.gen # 0 /\ ren'.pc = "tail"
  BY DEF RReset, IInv, TypeOK, RenTypeOK, RPlace, Reading, InSubtitle, Gens
<1>3. Drawn' /\ AllFormed'
  BY <1>1, <1>2 DEF Drawn, AllFormed
<1>4. Dropped'
  BY <1>1, <1>2 DEF Dropped
<1>5. Unmixed'
  <2> SUFFICES ASSUME ~weakened', ~forgotten' PROVE Unmixed'
    BY DEF Unmixed
  <2>1. ~weakened /\ ~forgotten /\ ~(bInvalidate /\ gen # ren.gen)
    BY <1>1
  <2>2. ren.gen = gen
    BY <1>2, <2>1 DEF Unmixed, Replaced
  <2> QED
    BY <1>1, <1>2, <2>1, <2>2 DEF Unmixed
<1> QED
  BY <1>3, <1>4, <1>5

LEMMA RendererEnqueues ==
    ASSUME IInv, IInv', PInv, REnqueue \/ REnqueueBlocking PROVE PInv'
<1> USE DEF IInv, TypeOK
<1>1. ren.pic # Nothing /\ AppendOrDrop
  BY DEF REnqueue, REnqueueBlocking, RPlace
<1>2. ren'.pic = Nothing /\ ren'.gen = ren.gen /\ ren'.pos = ren.pos /\ ren'.cur = ren.cur
  BY DEF REnqueue, REnqueueBlocking, RenTypeOK
<1>3. Drawn'
  <2>1. CASE REnqueue
    <3>1. Subtitle' = Subtitle
      BY <1>1, <1>2 DEF AppendOrDrop, ElseUnchanged, static, locks, Subtitle, Subtitles
    <3> QED
      BY <1>2, <2>1, <3>1 DEF REnqueue, PInv, Drawn, RenTypeOK
  <2>2. CASE REnqueueBlocking
    BY <2>2 DEF REnqueueBlocking, Drawn, RenTypeOK
  <2> QED
    BY <2>1, <2>2
<1> QED
  BY <1>1, <1>2, <1>3, Enqueued

\* The search removes pictures from the front of the queue.
LEMMA SearchTakes ==
    ASSUME QueueTypeOK, PSearch
    PROVE  \E n \in 1 .. Len(queue) + 1 : queue' = SubSeq(queue, n, Len(queue))
<1>1. PICK k \in 1 .. Len(queue) + 1 : \E c \in 0 .. k - 1 :
        LET candidate == IF c = 0 THEN pre.pic ELSE queue[c]
        IN  queue' = SubSeq(queue, IF Takes(k, candidate) THEN k + 1 ELSE k, Len(queue))
  BY DEF PSearch
<1>2. PICK c \in 0 .. k - 1 :
        LET candidate == IF c = 0 THEN pre.pic ELSE queue[c]
        IN  queue' = SubSeq(queue, IF Takes(k, candidate) THEN k + 1 ELSE k, Len(queue))
  BY <1>1
<1> DEFINE candidate == IF c = 0 THEN pre.pic ELSE queue[c]
           n == IF Takes(k, candidate) THEN k + 1 ELSE k
<1>3. n \in 1 .. Len(queue) + 1
  BY DEF QueueTypeOK, Takes
<1>4. queue' = SubSeq(queue, n, Len(queue))
  BY <1>2
<1> HIDE DEF n
<1> QED
  BY <1>3, <1>4

\* A step of P that adds no picture to the queue.
LEMMA PresenterKeeps == ASSUME IInv, IInv', PInv, PNext PROVE PInv'
<1> USE DEF IInv, TypeOK
<1>1. /\ UNCHANGED flags
      /\ UNCHANGED <<provOf, content>>
  BY DEF PNext, PContinue, PLookup, PSearch, PFetchProvider, PLock, PUnlock, PWait, PSave,
         OnlyP, ElseUnchanged, LockProvider, UnlockProvider, data, static, locks, history, flags
<1>2. ren' = ren \/ ren' = [ren EXCEPT !.pc = Awake(ren.pc)]
  BY DEF PNext, PContinue, PLookup, PSearch, PFetchProvider, PLock, PUnlock, PWait, PSave, OnlyP
<1>3. /\ ren'.pic = ren.pic /\ ren'.gen = ren.gen
      /\ ren'.pos = ren.pos /\ ren'.cur = ren.cur
      /\ ren'.pc \in {"render", "enqueue", "late"} => ren'.pc = ren.pc
  BY <1>2 DEF RenTypeOK, Awake
<1>4. Drawn'
  BY <1>1, <1>3 DEF PInv, Drawn, Subtitle, Subtitles
<1>5. Picked
  <2>1. CASE PSearch
    BY <2>1, SearchTakes, SuffixPicked
  <2>2. CASE ~PSearch
    <3>1. queue' = queue
      BY <2>2 DEF PNext, PContinue, PLookup, PFetchProvider, PLock, PUnlock, PWait, PSave,
                  OnlyP, data
    <3> QED
      BY <3>1, SameQueue
  <2> QED
    BY <2>1, <2>2
<1> QED
  BY <1>1, <1>3, <1>4, <1>5, Kept

\* A step that leaves the queue, R and the lock objects alone.
LEMMA Elsewhere ==
    ASSUME IInv, PInv, UNCHANGED <<queue, ren, flags, provOf>>,
           ren.pc \in Reading => content' = content
    PROVE  PInv'
<1>1. Picked
  BY SameQueue DEF IInv, TypeOK
<1>2. Drawn'
  BY DEF PInv, Drawn, Subtitle, Subtitles, Reading, InSubtitle
<1> QED
  BY <1>1, <1>2, Kept DEF IInv, TypeOK, RenTypeOK

LEMMA ClockKeeps == ASSUME IInv, PInv, CNext PROVE PInv'
<1>1. ASSUME NEW t \in SeekTimes, CSetTime(t) PROVE PInv'
  BY <1>1, Elsewhere DEF CSetTime, KeepThreads, history, locks, static, flags
<1>2. CASE CInvalidate
  <2>1. Invalidate(rtNow) /\ rtNow \in Nat \cup {-1} /\ UNCHANGED <<gen, provOf, content>>
    BY <1>2 DEF CInvalidate, locks, static, IInv, TypeOK, TimeTypeOK
  <2> QED
    BY <2>1, Invalidated
<1>3. CASE CFinish
  BY <1>3, Elsewhere DEF CFinish, KeepThreads, history, locks, static, flags
<1> QED
  BY <1>1, <1>2, <1>3 DEF CNext

LEMMA DecoderKeeps == ASSUME IInv, PInv, DNext PROVE PInv'
<1>1. ASSUME NEW tl \in Timelines, NEW t \in InvalidateTimes \cap Nat, DEdit(tl, t)
      PROVE  PInv'
  \* The section is free, so nobody reads the stream.
  <2>1. ren.pc \notin Reading
    BY <1>1 DEF DEdit, IInv, LockCounts, Holders, RHolds, RPlace, Reading, InSubtitle,
                TypeOK, LockTypeOK, Gens
  <2> QED
    BY <1>1, <2>1, Elsewhere DEF DEdit, KeepThreads, history, data, locks, flags
<1>2. CASE DInvalidate /\ dec.stream = ProviderNow
  <2>1. /\ Invalidate(dec.time) /\ dec.time \in Nat \cup {-1}
        /\ UNCHANGED <<gen, provOf, content>>
    BY <1>2 DEF DInvalidate, locks, static, IInv, TypeOK, CallerTypeOK
  <2> QED
    BY <2>1, Invalidated
<1>3. CASE DInvalidate /\ dec.stream # ProviderNow
  BY <1>3, Elsewhere DEF DInvalidate, KeepThreads, history, data, locks, static, flags
<1> QED
  BY <1>1, <1>2, <1>3 DEF DNext

\* A change of provider: R keeps its lock object, and will see that it is an
\* old one.
LEMMA ProviderReplaced ==
    ASSUME IInv, PInv, NEW p, SetSubPicProvider(p), content' = content PROVE PInv'
<1>1. PICK fresh \in Gens \ {gen, ren.gen, pre.gen} :
        provOf' = [provOf EXCEPT ![fresh] = p] /\ Invalidate(-1)
  BY DEF SetSubPicProvider
<1>2. ren.gen # 0 => provOf'[ren.gen] = provOf[ren.gen]
  BY <1>1 DEF IInv, TypeOK, LockTypeOK, RenTypeOK
<1> QED
  BY <1>1, <1>2, Invalidated

LEMMA UserKeeps == ASSUME IInv, PInv, UNext PROVE PInv'
<1>1. ASSUME NEW rt \in InvalidateTimes, UInvalidate(rt) PROVE PInv'
  <2>1. rt \in Nat \cup {-1} /\ Invalidate(rt) /\ UNCHANGED <<gen, provOf, content>>
    BY <1>1, TimeAssumption DEF UInvalidate, OnlyU, locks
  <2> QED
    BY <2>1, Invalidated
<1>2. ASSUME NEW p \in Providers \cup {NoProvider}, USetProvider(p) PROVE PInv'
  BY <1>2, ProviderReplaced DEF USetProvider, OnlyU
<1>3. ASSUME NEW fps \in Rates, USetFPS(fps) PROVE PInv'
  BY <1>3, Elsewhere DEF USetFPS, OnlyU, KeepThreads, history, data, locks, flags
<1>4. CASE USetFPSFinish \/ UDestroy \/ UJoin
  <2>1. UNCHANGED <<queue, ren, flags, provOf, content>>
    BY <1>4 DEF USetFPSFinish, UDestroy, UJoin, OnlyU, KeepThreads, history, data, locks, flags
  <2> QED
    BY <2>1, Elsewhere
<1>5. CASE UClearProvider
  BY <1>5, ProviderReplaced DEF UClearProvider, OnlyU
<1> QED
  BY <1>1, <1>2, <1>3, <1>4, <1>5 DEF UNext

\* Every step keeps the pictures as they should be.
LEMMA PInductive == IInv /\ IInv' /\ PInv /\ [Next]_vars => PInv'
<1> SUFFICES ASSUME IInv, IInv', PInv, [Next]_vars PROVE PInv'
  OBVIOUS
<1>1. CASE RNext
  BY <1>1, RendererIdles, RendererMoves, RendererResets, RendererEnqueues DEF RNext
<1>2. CASE PNext
  BY <1>2, PresenterKeeps
<1>3. CASE CNext
  BY <1>3, ClockKeeps
<1>4. CASE DNext
  BY <1>4, DecoderKeeps
<1>5. CASE UNext
  BY <1>5, UserKeeps
<1>6. CASE UNCHANGED vars
  <2>1. UNCHANGED <<queue, ren, flags, provOf, content>>
    BY <1>6 DEF vars, data, static, locks, flags
  <2> QED
    BY <2>1, Elsewhere
<1> QED
  BY <1>1, <1>2, <1>3, <1>4, <1>5, <1>6 DEF Next

LEMMA PInvariance == Spec => [](IInv /\ PInv)
BY InitIInv, InitPInv, Inductive, PInductive, PTL DEF Spec

-----------------------------------------------------------------------------
(***************************************************************************)
(* The theorems.                                                           *)
(***************************************************************************)
\* After Invalidate(rt) no picture made before it that ends after rt is in the
\* queue, nor joins it later, unless a weaker Invalidate overwrote the call
\* before R looked: R's picture is marked only while that call is pending with
\* a time below the picture's end, so EnqueueSubPic drops it.
THEOREM NoStale == Spec => []NoStaleQueued
<1>1. PInv => NoStaleQueued
  BY DEF PInv, Dropped, NoStaleQueued
<1> QED
  BY <1>1, PInvariance, PTL

\* A picture drawn by the new provider with the times of the old one never
\* joins the queue, unless R had fetched the old provider before the change and
\* cleared m_bInvalidate after it, or a weaker Invalidate followed: until then
\* the pending time is -1, and every picture ends after it.
THEOREM NoMixed == Spec => []NoMixedQueued
<1>1. PInv => NoMixedQueued
  BY DEF PInv, Unmixed, NoMixedQueued
<1> QED
  BY <1>1, PInvariance, PTL

-----------------------------------------------------------------------------
(***************************************************************************)
(* R's stream: nobody writes it while R is between Lock and Unlock.        *)
(***************************************************************************)
LEMMA StreamStays ==
    ASSUME IInv, [Next]_vars, ren.pc \in Reading
    PROVE  content' = content /\ provOf'[ren.gen] = provOf[ren.gen]
<1>1. ren.gen # 0
  BY DEF IInv, RPlace, Gens
<1>2. csOwner # 0
  BY DEF IInv, LockCounts, Holders, RHolds, RPlace, Reading, InSubtitle, TypeOK, LockTypeOK, Gens
<1>3. ASSUME NEW p, SetSubPicProvider(p) PROVE provOf'[ren.gen] = provOf[ren.gen]
  BY <1>1, <1>3 DEF SetSubPicProvider, IInv, TypeOK, LockTypeOK, RenTypeOK
<1>4. CASE RNext
  BY <1>4 DEF RNext, RLoop, RWaitEvent, RFetchProvider, RLock, RReset, RReadTail,
              RStartRendering, RBeginSubtitle, RRender, RRenderFails, RCopyFails, REnqueue,
              RQueueFull, RCatchUp, RUnlock, REnqueueBlocking, RSleepFull, AppendOrDrop, OnlyR,
              ElseUnchanged, LockProvider, UnlockProvider, static, locks
<1>5. CASE PNext
  BY <1>5 DEF PNext, PContinue, PLookup, PSearch, PFetchProvider, PLock, PUnlock, PWait, PSave,
              OnlyP, ElseUnchanged, LockProvider, UnlockProvider, static, locks
<1>6. CASE CNext
  BY <1>6 DEF CNext, CSetTime, CInvalidate, CFinish, static, locks
<1>7. CASE DNext
  BY <1>2, <1>7 DEF DNext, DEdit, DInvalidate, static, locks
<1>8. CASE UNext
  BY <1>3, <1>8 DEF UNext, UInvalidate, USetProvider, USetFPS, USetFPSFinish, UDestroy,
                    UClearProvider, UJoin, OnlyU, locks
<1>9. CASE UNCHANGED vars
  BY <1>9 DEF vars, static, locks
<1> QED
  BY <1>4, <1>5, <1>6, <1>7, <1>8, <1>9 DEF Next

\* From Lock to Unlock R reads the same subtitles: the decoder edits a stream
\* under the critical section that R's lock object owns, and a change of
\* provider leaves the objects that are held as they are.
THEOREM Pinned == Spec => ProviderPinned
<1>1. ASSUME IInv, [Next]_vars
      PROVE  [\A g \in Gens : RHolds(g) /\ RHolds(g)' => Subtitles(g)' = Subtitles(g)]_vars
  <2> SUFFICES ASSUME NEW g \in Gens, RHolds(g) PROVE Subtitles(g)' = Subtitles(g)
    OBVIOUS
  <2>1. ren.gen = g /\ ren.pc \in Reading
    BY DEF RHolds, Reading, InSubtitle
  <2> QED
    BY <1>1, <2>1, StreamStays DEF Subtitles
<1> QED
  BY <1>1, Invariance, PTL DEF Spec, ProviderPinned

-----------------------------------------------------------------------------
(***************************************************************************)
(* The search.                                                             *)
(***************************************************************************)
\* Only the search itself ends the search.
LEMMA SearchGoesOn ==
    ASSUME IInv, [Next]_vars, pre.pc = "search", ~PSearch
    PROVE  pre'.pc = "search"
<1> USE DEF IInv, TypeOK, PreTypeOK
<1>1. ASSUME NEW rt, Invalidate(rt) PROVE pre'.pc = "search"
  BY <1>1 DEF Invalidate
<1>2. CASE RNext
  BY <1>2 DEF RNext, RLoop, RWaitEvent, RFetchProvider, RLock, RReset, RReadTail,
              RStartRendering, RBeginSubtitle, RRender, RRenderFails, RCopyFails, REnqueue,
              RQueueFull, RCatchUp, RUnlock, REnqueueBlocking, RSleepFull, AppendOrDrop, OnlyR
<1>3. CASE PNext
  BY <1>3 DEF PNext, PContinue, PLookup, PFetchProvider, PLock, PUnlock, PWait, PSave
<1>4. CASE CNext
  BY <1>1, <1>4 DEF CNext, CSetTime, CInvalidate, CFinish, KeepThreads
<1>5. CASE DNext
  BY <1>1, <1>5 DEF DNext, DEdit, DInvalidate, KeepThreads
<1>6. CASE UNext
  BY <1>1, <1>6 DEF UNext, UInvalidate, USetProvider, USetFPS, USetFPSFinish, UDestroy,
                    UClearProvider, UJoin, SetSubPicProvider, KeepThreads
<1>7. CASE UNCHANGED vars
  BY <1>7 DEF vars
<1> QED
  BY <1>2, <1>3, <1>4, <1>5, <1>6, <1>7 DEF Next

\* The first picture that is not over is the one, because a picture that has
\* not ended has not left its segment either.
LEMMA SearchFinds ==
    ASSUME IInv, PInv, PSearch, NEW i \in 1 .. Len(queue), Findable(i)
    PROVE  pre'.pc # "search" => pre'.pic # Nothing /\ Exact(pre'.pic, pre.now)
<1>1. PICK k \in 1 .. Len(queue) + 1 : \E c \in 0 .. k - 1 :
        LET candidate == IF c = 0 THEN pre.pic ELSE queue[c]
            found == IF Takes(k, candidate) THEN queue[k] ELSE candidate
        IN  /\ IsFirstKept(k)
            /\ pre' = IF found = Nothing /\ pre.try
                      THEN [pre EXCEPT !.pc = "provider", !.try = FALSE]
                      ELSE [pre EXCEPT !.pc = "save", !.pic = found]
  BY DEF PSearch
<1>2. PICK c \in 0 .. k - 1 :
        LET candidate == IF c = 0 THEN pre.pic ELSE queue[c]
            found == IF Takes(k, candidate) THEN queue[k] ELSE candidate
        IN  /\ IsFirstKept(k)
            /\ pre' = IF found = Nothing /\ pre.try
                      THEN [pre EXCEPT !.pc = "provider", !.try = FALSE]
                      ELSE [pre EXCEPT !.pc = "save", !.pic = found]
  BY <1>1
<1> DEFINE candidate == IF c = 0 THEN pre.pic ELSE queue[c]
<1>3. Len(queue) \in Nat /\ pre.now \in Nat
  BY DEF IInv, TypeOK, QueueTypeOK, PreTypeOK
<1>4. \A j \in 1 .. Len(queue) :
        /\ queue[j] \in Pics
        /\ queue[j].start \in Int /\ queue[j].stop \in Int
        /\ queue[j].segStart \in Int /\ queue[j].segStop \in Int
        /\ queue[j].segStart <= queue[j].start /\ queue[j].stop <= queue[j].segStop
  BY QueueFacts DEF IInv, TypeOK, PInv, AllFormed, Formed, Pics
<1>5. k <= i
  <2> SUFFICES ASSUME i < k PROVE FALSE
    BY <1>3
  <2>1. Over(queue[i])
    BY <1>2, <1>3 DEF IsFirstKept
  <2> QED
    BY <1>3, <1>4, <2>1 DEF Over, Findable, Exact
<1>6. k \in 1 .. Len(queue) /\ ~Over(queue[k])
  BY <1>2, <1>3, <1>5 DEF IsFirstKept
<1>7. queue[k].start <= pre.now
  BY <1>3, <1>5 DEF Findable, Exact
<1>8. Exact(queue[k], pre.now) /\ queue[k].segStart <= pre.now
  BY <1>3, <1>4, <1>6, <1>7 DEF Over, Exact
<1>9. Takes(k, candidate)
  BY <1>3, <1>6, <1>8 DEF Takes
<1>10. queue[k] # Nothing
  BY <1>4, <1>6, NullAssumption DEF Pics
<1>11. pre' = [pre EXCEPT !.pc = "save", !.pic = queue[k]]
  BY <1>2, <1>9, <1>10
<1>12. pre'.pic = queue[k]
  BY <1>11 DEF IInv, TypeOK, PreTypeOK
<1> QED
  BY <1>8, <1>10, <1>12

\* Whatever is in the queue, the search returns a picture made for the time
\* asked for when one is there and nothing before it begins later: skipping the
\* pictures that are over never skips that one, and taking the first that is
\* not over never takes a worse one.
THEOREM SearchExact == Spec => SearchFindsExact
<1>1. ASSUME IInv, PInv, [Next]_vars
      PROVE  [pre.pc = "search" /\ pre'.pc # "search"
                /\ (\E i \in 1 .. Len(queue) : Findable(i))
              => pre'.pic # Nothing /\ Exact(pre'.pic, pre.now)]_vars
  BY <1>1, SearchGoesOn, SearchFinds
<1> QED
  BY <1>1, PInvariance, PTL DEF Spec, SearchFindsExact

-----------------------------------------------------------------------------
(***************************************************************************)
(* The queue implements PictureBuffer.                                     *)
(***************************************************************************)
Ends(q) == [i \in 1 .. Len(q) |-> q[i].stop]

LEMMA EndsFacts ==
    ASSUME NEW q \in Seq(Pics)
    PROVE  /\ Ends(q) \in Seq(Int) /\ Len(Ends(q)) = Len(q) /\ Len(q) \in Nat
           /\ \A i \in 1 .. Len(q) : Ends(q)[i] = q[i].stop /\ q[i].stop \in Int
<1>1. Len(q) \in Nat
  OBVIOUS
<1>2. \A i \in 1 .. Len(q) : q[i].stop \in Int
  <2> SUFFICES ASSUME NEW i \in 1 .. Len(q) PROVE q[i].stop \in Int
    OBVIOUS
  <2>1. q[i] \in Pics
    BY ElementOfSeq
  <2> QED
    BY <2>1 DEF Pics
<1>3. Ends(q) \in Seq(Int) /\ Len(Ends(q)) = Len(q)
  BY <1>1, <1>2, IsASeq DEF Ends
<1> QED
  BY <1>1, <1>2, <1>3 DEF Ends

\* A part of the queue has the corresponding part of the end times.
LEMMA EndsOfPart ==
    ASSUME NEW q \in Seq(Pics), NEW m \in 1 .. Len(q) + 1, NEW n \in 0 .. Len(q)
    PROVE  Ends(SubSeq(q, m, n)) = SubSeq(Ends(q), m, n)
<1>1. /\ Ends(q) \in Seq(Int) /\ Len(Ends(q)) = Len(q) /\ Len(q) \in Nat
      /\ \A i \in 1 .. Len(q) : Ends(q)[i] = q[i].stop
  BY EndsFacts
<1>2. m \in Int /\ n \in Int
  BY <1>1
<1>3. /\ \A i \in m .. n : q[i] \in Pics
      /\ \A i \in m .. n : Ends(q)[i] \in Int
  BY <1>1, <1>2, ElementOfSeq
<1>4. /\ SubSeq(q, m, n) \in Seq(Pics)
      /\ Len(SubSeq(q, m, n)) = IF m <= n THEN n - m + 1 ELSE 0
      /\ \A i \in 1 .. n - m + 1 : SubSeq(q, m, n)[i] = q[m + i - 1]
  BY <1>2, <1>3, SubSeqProperties
<1>5. /\ SubSeq(Ends(q), m, n) \in Seq(Int)
      /\ Len(SubSeq(Ends(q), m, n)) = IF m <= n THEN n - m + 1 ELSE 0
      /\ \A i \in 1 .. n - m + 1 : SubSeq(Ends(q), m, n)[i] = Ends(q)[m + i - 1]
  BY <1>2, <1>3, SubSeqProperties
<1>6. /\ Ends(SubSeq(q, m, n)) \in Seq(Int)
      /\ Len(Ends(SubSeq(q, m, n))) = Len(SubSeq(q, m, n))
      /\ \A i \in 1 .. Len(SubSeq(q, m, n)) :
            Ends(SubSeq(q, m, n))[i] = SubSeq(q, m, n)[i].stop
  BY <1>4, EndsFacts
<1>7. \A i \in 1 .. Len(Ends(SubSeq(q, m, n))) :
        Ends(SubSeq(q, m, n))[i] = SubSeq(Ends(q), m, n)[i]
  <2> SUFFICES ASSUME NEW i \in 1 .. Len(SubSeq(q, m, n))
               PROVE  Ends(SubSeq(q, m, n))[i] = SubSeq(Ends(q), m, n)[i]
    BY <1>6
  <2>1. i \in 1 .. n - m + 1 /\ m + i - 1 \in 1 .. Len(q)
    BY <1>1, <1>2, <1>4
  <2> QED
    BY <1>1, <1>4, <1>5, <1>6, <2>1
<1> QED
  BY <1>4, <1>5, <1>6, <1>7, SeqEqual

\* What a step may do to the queue.
Appended == \E pic \in Pics :
    /\ Len(queue) < nSize /\ \A i \in 1 .. Len(queue) : queue[i].stop < pic.stop
    /\ queue' = Append(queue, pic)
Advanced == \E n \in 1 .. Len(queue) + 1 : queue' = SubSeq(queue, n, Len(queue))

LEMMA QueueStep ==
    ASSUME IInv, [Next]_vars
    PROVE  queue' = queue \/ Appended \/ Advanced \/ \E rt \in Int : CutQueue(rt)
<1> USE DEF IInv, TypeOK
<1>1. ASSUME NEW rt \in Nat \cup {-1}, Invalidate(rt) PROVE \E t \in Int : CutQueue(t)
  BY <1>1 DEF Invalidate
<1>2. ASSUME NEW p, SetSubPicProvider(p) PROVE \E t \in Int : CutQueue(t)
  <2>1. Invalidate(-1)
    BY <1>2 DEF SetSubPicProvider
  <2> QED
    BY <1>1, <2>1
<1>3. CASE REnqueue \/ REnqueueBlocking
  <2>1. ren.pic \in Pics /\ HasRoom /\ AppendOrDrop
    BY <1>3 DEF REnqueue, REnqueueBlocking, RPlace, RenTypeOK
  <2>2. queue' = queue \/ queue' = Append(queue, ren.pic)
    BY <2>1 DEF AppendOrDrop
  <2>3. Nothing \notin Pics
    BY NullAssumption DEF Pics
  <2> QED
    BY <2>1, <2>2, <2>3 DEF HasRoom, QueueSorted, Appended
<1>4. CASE RNext /\ ~REnqueue /\ ~REnqueueBlocking
  BY <1>4 DEF RNext, RLoop, RWaitEvent, RFetchProvider, RLock, RReset, RReadTail,
              RStartRendering, RBeginSubtitle, RRender, RRenderFails, RCopyFails,
              RQueueFull, RCatchUp, RUnlock, RSleepFull, OnlyR, data
<1>5. CASE PSearch
  BY <1>5, SearchTakes DEF Advanced
<1>6. CASE PNext /\ ~PSearch
  BY <1>6 DEF PNext, PContinue, PLookup, PFetchProvider, PLock, PUnlock, PWait, PSave,
              OnlyP, data
<1>7. CASE CNext
  <2>1. rtNow \in Nat \cup {-1}
    BY DEF TimeTypeOK
  <2> QED
    BY <1>1, <1>7, <2>1 DEF CNext, CSetTime, CInvalidate, CFinish
<1>8. CASE DNext
  <2>1. dec.time \in Nat \cup {-1}
    BY DEF CallerTypeOK
  <2> QED
    BY <1>1, <1>8, <2>1 DEF DNext, DEdit, DInvalidate, data
<1>9. CASE UNext
  <2>1. \A rt \in InvalidateTimes : rt \in Nat \cup {-1}
    BY TimeAssumption
  <2> QED
    BY <1>1, <1>2, <1>9, <2>1 DEF UNext, UInvalidate, USetProvider, USetFPS, USetFPSFinish,
                                UDestroy, UClearProvider, UJoin, data
<1>10. CASE UNCHANGED vars
  BY <1>10 DEF vars, data
<1> QED
  BY <1>3, <1>4, <1>5, <1>6, <1>7, <1>8, <1>9, <1>10 DEF Next

\* The four of them, seen by the buffer.
LEMMA BufferStep ==
    ASSUME IInv, queue' = queue \/ Appended \/ Advanced \/ \E rt \in Int : CutQueue(rt)
    PROVE  Buffer!Next \/ Ends(queue)' = Ends(queue)
<1> USE DEF IInv, TypeOK
<1>1. /\ queue \in Seq(Pics) /\ Len(queue) \in Nat
      /\ Ends(queue) \in Seq(Int) /\ Len(Ends(queue)) = Len(queue)
      /\ \A i \in 1 .. Len(queue) : Ends(queue)[i] = queue[i].stop /\ queue[i].stop \in Int
  BY EndsFacts DEF QueueTypeOK
<1>2. CASE Appended
  <2>1. PICK pic \in Pics :
          /\ Len(queue) < nSize /\ \A i \in 1 .. Len(queue) : queue[i].stop < pic.stop
          /\ queue' = Append(queue, pic)
    BY <1>2 DEF Appended
  <2>2. /\ queue' \in Seq(Pics) /\ Len(queue') = Len(queue) + 1
        /\ \A i \in 1 .. Len(queue) : queue'[i] = queue[i]
        /\ queue'[Len(queue) + 1] = pic
    BY <1>1, <2>1, AppendProperties
  <2>3. /\ Ends(queue') \in Seq(Int) /\ Len(Ends(queue')) = Len(queue')
        /\ \A i \in 1 .. Len(queue') : Ends(queue')[i] = queue'[i].stop
    BY <2>2, EndsFacts
  <2>4. /\ pic.stop \in Int
        /\ Append(Ends(queue), pic.stop) \in Seq(Int)
        /\ Len(Append(Ends(queue), pic.stop)) = Len(queue) + 1
        /\ \A i \in 1 .. Len(queue) : Append(Ends(queue), pic.stop)[i] = Ends(queue)[i]
        /\ Append(Ends(queue), pic.stop)[Len(queue) + 1] = pic.stop
    BY <1>1, AppendProperties DEF Pics
  <2>5. Ends(queue') = Append(Ends(queue), pic.stop)
    <3>1. \A i \in 1 .. Len(Ends(queue')) :
            Ends(queue')[i] = Append(Ends(queue), pic.stop)[i]
      <4> SUFFICES ASSUME NEW i \in 1 .. Len(queue) + 1
                   PROVE  Ends(queue')[i] = Append(Ends(queue), pic.stop)[i]
        BY <2>2, <2>3
      <4>1. i \in 1 .. Len(queue) \/ i = Len(queue) + 1
        BY <1>1
      <4> QED
        BY <1>1, <2>2, <2>3, <2>4, <4>1
    <3> QED
      BY <2>2, <2>3, <2>4, <3>1, SeqEqual
  <2>6. Len(Ends(queue)') > 0 /\ Ends(queue)'[Len(Ends(queue)')] = pic.stop
    BY <1>1, <2>2, <2>3
  <2>7. /\ Len(Ends(queue)) < nSize
        /\ \A i \in 1 .. Len(Ends(queue)) : Ends(queue)[i] < pic.stop
        /\ Ends(queue)' = Append(Ends(queue), pic.stop)
    BY <1>1, <2>1, <2>5
  <2> QED
    BY <2>6, <2>7 DEF Buffer!Next, Buffer!Put, Ends
<1>3. ASSUME NEW n \in 1 .. Len(queue) + 1, queue' = SubSeq(queue, n, Len(queue))
      PROVE  Buffer!Next
  <2>1. Ends(queue)' = SubSeq(Ends(queue), n, Len(queue))
    <3>1. Len(queue) \in 0 .. Len(queue)
      BY <1>1
    <3>2. Ends(SubSeq(queue, n, Len(queue))) = SubSeq(Ends(queue), n, Len(queue))
      BY <1>1, <3>1, EndsOfPart
    <3> QED
      BY <1>3, <3>2
  <2>2. n - 1 \in 0 .. Len(Ends(queue))
        /\ Ends(queue)' = SubSeq(Ends(queue), (n - 1) + 1, Len(Ends(queue)))
    BY <1>1, <2>1
  <2> QED
    BY <2>2 DEF Buffer!Next, Buffer!TakeFront, Ends
<1>4. ASSUME NEW rt \in Int, CutQueue(rt) PROVE Buffer!Next
  <2>1. PICK n \in 0 .. Len(queue) :
          /\ queue' = [i \in 1 .. n |-> queue[i]]
          /\ n > 0 => queue[n].stop <= rt
          /\ \A i \in n + 1 .. Len(queue) : queue[i].stop > rt
    BY <1>4, CutKeeps
  <2>2. queue' = SubSeq(queue, 1, n)
    <3>1. /\ SubSeq(queue, 1, n) \in Seq(Pics) /\ Len(SubSeq(queue, 1, n)) = n
          /\ \A i \in 1 .. n : SubSeq(queue, 1, n)[i] = queue[i]
      <4>1. n \in Int /\ \A i \in 1 .. n : queue[i] \in Pics
        BY <1>1, ElementOfSeq
      <4>2. /\ SubSeq(queue, 1, n) \in Seq(Pics)
            /\ Len(SubSeq(queue, 1, n)) = IF 1 <= n THEN n - 1 + 1 ELSE 0
            /\ \A i \in 1 .. n - 1 + 1 : SubSeq(queue, 1, n)[i] = queue[1 + i - 1]
        BY <4>1, SubSeqProperties
      <4> QED
        BY <1>1, <4>2
    <3>2. queue' \in Seq(Pics) /\ Len(queue') = n
      <4>1. n \in Nat /\ \A i \in 1 .. n : queue[i] \in Pics
        BY <1>1, ElementOfSeq
      <4> QED
        BY <2>1, <4>1, IsASeq
    <3> QED
      BY <2>1, <3>1, <3>2, SeqEqual
  <2>3. Ends(queue)' = SubSeq(Ends(queue), 1, n)
    <3>1. 1 \in 1 .. Len(queue) + 1
      BY <1>1
    <3>2. Ends(SubSeq(queue, 1, n)) = SubSeq(Ends(queue), 1, n)
      BY <1>1, <3>1, EndsOfPart
    <3> QED
      BY <2>2, <3>2
  <2>4. CASE n = 0
    <3>1. SubSeq(queue, 1, n) = SubSeq(queue, Len(queue) + 1, Len(queue))
      BY <1>1, <2>4, SubSeqEmpty
    <3>2. Len(queue) + 1 \in 1 .. Len(queue) + 1
      BY <1>1
    <3> QED
      BY <1>3, <2>2, <3>1, <3>2
  <2>5. CASE n > 0
    <3> DEFINE t == Ends(queue)[n]
    <3>1. n \in 1 .. Len(Ends(queue)) /\ t = queue[n].stop
      BY <1>1, <2>5
    <3>2. \A i \in 1 .. Len(Ends(queue)) : Ends(queue)[i] <= t <=> i <= n
      <4> SUFFICES ASSUME NEW i \in 1 .. Len(queue)
                   PROVE  queue[i].stop <= queue[n].stop <=> i <= n
        BY <1>1, <3>1
      <4>1. i < n => queue[i].stop < queue[n].stop
        BY <1>1, <3>1 DEF QueueSorted
      <4>2. n < i => queue[n].stop < queue[i].stop
        BY <1>1, <3>1 DEF QueueSorted
      <4> QED
        BY <1>1, <3>1, <4>1, <4>2
    <3>3. t \in {-1} \cup {Ends(queue)[i] : i \in 1 .. Len(Ends(queue))}
      BY <3>1
    <3>4. n \in 0 .. Len(Ends(queue))
      BY <1>1
    <3> HIDE DEF t
    <3> QED
      BY <2>3, <3>2, <3>3, <3>4 DEF Buffer!Next, Buffer!CutAt, Ends
  <2> QED
    BY <1>1, <2>4, <2>5
<1> QED
  BY <1>2, <1>3, <1>4 DEF Advanced

\* Seen by its end times the queue is a bounded buffer in time order, for every
\* size: Invalidate, which looks only at the tail, removes exactly the pictures
\* that end after its time, and EnqueueSubPic keeps the order without looking.
THEOREM ImplementsBuffer == Spec => BufferSpec
<1>1. Init => Buffer!Init
  BY DEF Init, Buffer!Init
<1>2. IInv /\ [Next]_vars => [Buffer!Next]_(Ends(queue))
  BY QueueStep, BufferStep
<1>3. Ends(queue) = [i \in 1 .. Len(queue) |-> queue[i].stop]
  BY DEF Ends
<1> QED
  BY <1>1, <1>2, <1>3, Invariance, PTL DEF Spec, BufferSpec, Buffer!Spec, Ends
=============================================================================
